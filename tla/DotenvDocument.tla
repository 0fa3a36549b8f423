--------------------------- MODULE DotenvDocument ---------------------------
(***************************************************************************)
(* The line editor of src/ainv/dotenv.py: how a request changes the text   *)
(* of a dotenv file.  A text is the sequence of lines str.splitlines       *)
(* returns, each with what ends it: LF, CRLF, CR, one of the eight         *)
(* separators splitlines knows and dotenv.py does not (VT, FF, FS, GS, RS, *)
(* NEL, LS, PS: "SEP"), or nothing, at the end of the text.                *)
(***************************************************************************)
EXTENDS DotenvView, SequencesExt, Integers

CONSTANTS
    Glued,      \* a value that has swallowed the text of the next line
    Endings,    \* the line endings the documents of this instance may have
    MaxLines    \* bound of the model: the lines of the first document

ASSUME EndingsAssumption == Endings \subseteq {"LF", "CRLF", "CR", "SEP"}
ASSUME LinesAssumption == MaxLines \in Nat

VARIABLE text

(* What a line says: the supported assignments, a line that names a variable in    *)
(* any other way, a comment or unrelated line, an empty one.                        *)
Assign(n, val) == [kind |-> "assign", name |-> n, value |-> val]
Malformed(n) == [kind |-> "malformed", name |-> n]
Comment == [kind |-> "comment"]
EmptyLine == [kind |-> "blank"]

Bodies ==
    {Assign(n, val) : n \in Names, val \in Values \cup {Empty}}
        \cup {Malformed(n) : n \in Names} \cup {Comment, EmptyLine}

Line(body, ending) == [body |-> body, ending |-> ending]

(* Only the last line may end without a separator, and then it is not empty. *)
Texts ==
    LET ended == {Line(b, e) : b \in Bodies, e \in Endings}
        open == {Line(b, "NONE") : b \in Bodies \ {EmptyLine}}
        whole == BoundedSeq(ended, MaxLines)
    IN  whole \cup {Append(t, l) : t \in {u \in whole : Len(u) < MaxLines}, l \in open}

EndingsOf(t) == {t[i].ending : i \in DOMAIN t}

-----------------------------------------------------------------------------
(* _validate_line_endings: no lone CR, no LF next to CRLF; the others are not seen. *)
ValidLineEndings(t) ==
    /\ "CR" \notin EndingsOf(t)
    /\ ~ {"LF", "CRLF"} \subseteq EndingsOf(t)

Matches(t, n) == {i \in DOMAIN t : t[i].body.kind = "assign" /\ t[i].body.name = n}

(* Wrong on purpose: the first assignment wins, later ones are not looked for. *)
ValidDocumentFirstOnly(t, n) ==
    /\ ValidLineEndings(t)
    /\ \A i \in DOMAIN t : t[i].body # Malformed(n)

(* _validate_document: the target is well formed and assigned at most once. *)
ValidDocument(t, n) ==
    /\ ValidLineEndings(t)
    /\ \A i \in DOMAIN t : t[i].body # Malformed(n)
    /\ \A i, j \in Matches(t, n) : i = j

(* _validate_target *)
ValidTarget(t, n, force) ==
    /\ ValidDocument(t, n)
    /\ force \/ \A i \in Matches(t, n) : t[i].body.value = Empty

(* What `NAME=value` says when the text that follows it is body. *)
Swallow(n, val, body) == Assign(n, IF body = EmptyLine THEN val ELSE Glued)

(* Wrong on purpose: lines the editor cannot read are commented out on the way. *)
ReplaceLineAndTidy(t, i, n, val) ==
    [j \in DOMAIN t |->
        IF j = i THEN Line(Assign(n, val), t[j].ending)
        ELSE IF t[j].body.kind = "malformed" THEN Line(Comment, t[j].ending) ELSE t[j]]

(* Replace line i.  _split_line_ending gives back LF, CRLF and CR only: the new line *)
(* of one that ended in SEP has no ending, and runs into the line after it.          *)
ReplaceLine(t, i, n, val) ==
    IF t[i].ending # "SEP"
    THEN [t EXCEPT ![i].body = Assign(n, val)]
    ELSE IF i = Len(t)
    THEN [t EXCEPT ![i] = Line(Assign(n, val), "NONE")]
    ELSE ReplaceAt(RemoveAt(t, i), i,
                   Line(Swallow(n, val, t[i + 1].body), t[i + 1].ending))

(* Wrong on purpose: an assignment is appended with LF, also in a CRLF file. *)
AppendWithLF(t, n, val) ==
    IF t = <<>> \/ Last(t).ending # "NONE"
    THEN Append(t, Line(Assign(n, val), "LF"))
    ELSE Append([t EXCEPT ![Len(t)].ending = "LF"], Line(Assign(n, val), "NONE"))

(* _append_assignment: after an unterminated line, the line ending goes before it. *)
AppendAssignment(t, n, val) ==
    LET style == IF "CRLF" \in EndingsOf(t) THEN "CRLF" ELSE "LF"
        added == Assign(n, val)
    IN  IF t = <<>> \/ Last(t).ending \in {"LF", "CRLF", "CR"}
        THEN Append(t, Line(added, style))
        ELSE IF Last(t).ending = "NONE"
        THEN Append([t EXCEPT ![Len(t)].ending = style], Line(added, "NONE"))
        ELSE t \o <<Line(EmptyLine, style), Line(added, "NONE")>>

(* Wrong on purpose: an existing assignment is left alone and a new one appended. *)
MutatedByAppending(t, n, val) == AppendAssignment(t, n, val)

(* _mutated_bytes *)
MutatedText(t, n, val) ==
    IF Matches(t, n) = {}
    THEN AppendAssignment(t, n, val)
    ELSE ReplaceLine(t, Min(Matches(t, n)), n, val)

(* A request as the code holds it: the bindings in the order of the command line. *)
Bindings ==
    LET pairs == Names \X (Values \cup {Empty})
    IN  {bs \in BoundedSeq(pairs, Cardinality(Names)) :
            bs # <<>> /\ \A i, j \in DOMAIN bs : bs[i][1] = bs[j][1] => i = j}

(* mutate_dotenv_many: all targets are validated against the text that was read,  *)
(* then the bindings are applied one after the other.                             *)
Accepted(t, bs, force) == \A i \in DOMAIN bs : ValidTarget(t, bs[i][1], force)

(* The text before the first binding, and behind each of them. *)
Stages(t, bs) ==
    LET stage[i \in 0..Len(bs)] ==
            IF i = 0 THEN t ELSE MutatedText(stage[i - 1], bs[i][1], bs[i][2])
    IN  stage

Mutated(t, bs) == Stages(t, bs)[Len(bs)]

Init == text \in Texts

Set(bs, force) ==
    /\ Accepted(text, bs, force)
    /\ text' = Mutated(text, bs)

Refuse(bs, force) ==
    /\ ~Accepted(text, bs, force)
    /\ UNCHANGED text

Next == \E bs \in Bindings, force \in BOOLEAN : Set(bs, force) \/ Refuse(bs, force)

Spec == Init /\ [][Next]_text

-----------------------------------------------------------------------------
(* What a text says of each name: the abstraction to DotenvView. *)
MarkOf(t, n) ==
    IF ~ValidDocument(t, n) THEN Bad
    ELSE IF Matches(t, n) = {} THEN Absent
    ELSE t[Min(Matches(t, n))].body.value

View(t) == [n \in Names |-> MarkOf(t, n)]

AsRequest(bs, force) ==
    [force |-> force,
     values |-> [n \in {bs[i][1] : i \in DOMAIN bs} |->
                   (CHOOSE b \in Range(bs) : b[1] = n)[2]]]

(* The editor computes what DotenvFile takes it to compute, whatever the order of   *)
(* the bindings: it accepts exactly the acceptable requests, and the new text says  *)
(* what it said, with the targets replaced (mutate_dotenv_many).                    *)
EditsTheView ==
    \A bs \in Bindings, force \in BOOLEAN :
        LET r == AsRequest(bs, force)
        IN  /\ Accepted(text, bs, force) <=> Acceptable(View(text), r)
            /\ Accepted(text, bs, force) => View(Mutated(text, bs)) = Updated(View(text), r)

(* No binding of a request can make the text invalid for a later one: once the      *)
(* request is validated, _mutated_bytes cannot raise half way.                      *)
NeverFailsHalfWay ==
    \A bs \in Bindings, force \in BOOLEAN : Accepted(text, bs, force) =>
        \A i \in DOMAIN bs : ValidDocument(Stages(text, bs)[i - 1], bs[i][1])

(* u is t with assignments of the pairs' names given their values, or added at the  *)
(* end, and with nothing else changed: an unterminated last line may be given an    *)
(* ending, when something is added after it.                                        *)
SameLayout(t, u, pairs) ==
    /\ \A i \in DOMAIN t :
         /\ i \in DOMAIN u
         /\ \/ u[i].body = t[i].body
            \/ /\ t[i].body.kind = "assign"
               /\ \E b \in pairs : t[i].body.name = b[1] /\ u[i].body = Assign(b[1], b[2])
         /\ \/ u[i].ending = t[i].ending
            \/ t[i].ending = "NONE" /\ i = Len(t) /\ Len(u) > Len(t)
    /\ \A i \in DOMAIN u \ DOMAIN t : \E b \in pairs : u[i].body = Assign(b[1], b[2])

(* Every line but the assignments of the targets stays as it is, in place and with    *)
(* its ending, the assignments of other names, their duplicates and malformed lines   *)
(* included; a target keeps its place and its ending, and only targets are added      *)
(* ("Preserve all unrelated text exactly", SPEC.md).                                  *)
LayoutKept ==
    \A bs \in Bindings, force \in BOOLEAN :
        Accepted(text, bs, force) => SameLayout(text, Mutated(text, bs), Range(bs))

(* Setting the same values again, with --force, changes nothing: a retry is safe.   *)
RetryIsIdempotent ==
    \A bs \in Bindings : Accepted(text, bs, TRUE) =>
        Mutated(Mutated(text, bs), bs) = Mutated(text, bs)

=============================================================================
