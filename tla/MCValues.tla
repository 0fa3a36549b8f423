------------------------------- MODULE MCValues -------------------------------
(***************************************************************************)
(* The pure algorithms over bounded inputs: TLC enumerates what is given,  *)
(* and each property compares what the code makes of it with what it       *)
(* should be.                                                              *)
(***************************************************************************)
EXTENDS HistoryRecord, CommandLine, KeychainSearch

CONSTANTS T, P

VARIABLES
    given,      \* "request", "words" or "items"
    input       \* and the input of that kind

-----------------------------------------------------------------------------
Ascii(chars) == [kind |-> "ascii", chars |-> chars, tail |-> FALSE]

(* Below, at and above the bound of each field, and far above it. *)
Lengths(f) == {1, MaxBytesOf[f] - 4, MaxBytesOf[f] - 3, MaxBytesOf[f], MaxBytesOf[f] + 1,
               4 * MaxBytesOf[f]}

(* Variables and references are ASCII: the command line's parser sees to it. *)
TextsOf(f) ==
    IF f \in PerBinding THEN {Ascii(n) : n \in Lengths(f)}
    ELSE [kind : {"ascii", "wide", "control", "surrogate", "before", "behind"},
          chars : Lengths(f), tail : BOOLEAN]
           \cup [kind : {"escapes"}, chars : {6 * n : n \in Lengths(f)}, tail : BOOLEAN]
           \cup {Ascii(0) : g \in {f} \cap {"requester"}}

(* Short texts, or long ones that JSON and the escapes make as long as they can be. *)
Beside ==
    {[f \in Fields |-> Ascii(1)]} \cup
    {[f \in Fields |-> IF f \in PerBinding THEN Ascii(2048)
                       ELSE [kind |-> k, chars |-> 2048, tail |-> FALSE]] :
        k \in {"control", "surrogate"}}

SomeTexts == UNION {{[o EXCEPT ![f] = t] : t \in TextsOf(f)} : o \in Beside, f \in Fields}

Counts == {1, MAX_STORED_BINDINGS, MAX_STORED_BINDINGS + 1, MAX_BINDING_COUNT,
           MAX_BINDING_COUNT + 1}

Requests ==
    [action : {"run"}, outcome : {<<"error", "working_directory_unavailable">>},
     count : Counts, arguments : {MAX_ARGUMENT_COUNT}, texts : SomeTexts]
    \cup
    [action : {"run", "set"}, outcome : Outcomes, count : Counts,
     arguments : {0, MAX_ARGUMENT_COUNT + 1}, texts : Beside]

Lines(n) == UNION {[1..k -> Word] : k \in 0..n}

WordsGiven == (Lines(3) \X {None}) \cup (Lines(2) \X (Valid \cup {Odd}))

(* Two items never bear one reference. *)
Distinct(items) ==
    \A i, j \in DOMAIN items : items[i].ref = items[j].ref => i = j \/ items[i].ref = NoText

SomeItem ==
    {item \in Item :
        item.name # NoText /\ item.account \in {NoText, 0} /\ item.label \in {NoText, 2}}

ItemsGiven == {items \in UNION {[1..n -> SomeItem] : n \in 0..3} : Distinct(items)}

Init ==
    \/ given = "request" /\ input \in Requests
    \/ given = "words" /\ input \in WordsGiven
    \/ given = "items" /\ input \in ItemsGiven \X {1, 2}

Next == UNCHANGED <<given, input>>

Spec == Init /\ [][Next]_<<given, input>>

-----------------------------------------------------------------------------
(* Every record the command line can ask for is one its own reader accepts, whatever  *)
(* the texts are: cut in the middle of a character, escaped, and blown up by JSON,    *)
(* it keeps the bounds of every field and of the line (append_history refuses to      *)
(* write anything else, and the outcome would not be recorded).                       *)
BuiltIsReadable ==
    given = "request" /\ Countable(input) => Accepted(Record(input))

(* What a record still tells of two texts it is the record of, when it does not name  *)
(* the field as cut: they are one text, or, if it names the field as escaped, they    *)
(* were both escaped and came out as one.  It cannot tell more then: an escaped byte  *)
(* looks like an escape that was written out.                                         *)
Told(t, u, escaped) ==
    IF escaped THEN Escaped(t) /\ Escaped(u) /\ Encoded(t) = Encoded(u) ELSE t = u

(* A text that the record names neither as cut nor as escaped can be told from every  *)
(* other text the request could have had, also from one that looks cut or escaped,    *)
(* and one that it names as escaped from all those that escaping leaves different     *)
(* ("explicit field-truncation or filesystem-text escaping metadata", SPEC.md 5.7).   *)
CutsAreMarked ==
    given = "request" =>
        LET e == Record(input)
        IN  \A f \in Fields \ e.truncated : \A t \in TextsOf(f) :
                Record([input EXCEPT !.texts[f] = t]) = e =>
                    Told(t, input.texts[f], f \in e.escaped)

(* What `set` would bind. *)
Explicit(words, bound) == [i \in DOMAIN bound |-> [words[i] EXCEPT !.name = bound[i][1]]]

(* A request read from these words, and from the same with the names written out.     *)
ReadOnce(words, as) ==
    LET asSet == SetRequest(words, as)
        asRun == RunRequest(words)
    IN  /\ asSet # Refused =>
             /\ Len(asSet) = Len(words)
             /\ Cardinality({asSet[i][1] : i \in DOMAIN asSet}) = Len(words)
             /\ SetRequest(Explicit(words, asSet), None) = asSet
             /\ \A i \in DOMAIN words :
                  asSet[i][1] \in Sensitive => words[i].name # None \/ as # None
        /\ asRun.bindings # Refused =>
             LET n == Len(asRun.bindings)
             IN  /\ asRun.bindings = SetRequest(SubSeq(words, 1, n), None)
                 /\ asRun.command = SubSeq(words, n + 1, Len(words))
                 /\ asRun.command # <<>> /\ ~IsBinding(asRun.command[1])
                 /\ RunRequest(Explicit(SubSeq(words, 1, n), asRun.bindings)
                                 \o asRun.command) = asRun
        /\ asRun.bindings = Refused =>
             \A n \in 1..(Len(words) - 1) :
                 \/ SetRequest(SubSeq(words, 1, n), None) = Refused
                 \/ IsBinding(words[n + 1]) \/ words[n + 1].value.kind = "empty"

(* `run` reads every word once: as one of the bindings `set` would read in the same   *)
(* words, or as part of the command, which begins with the first word that is none;   *)
(* and it refuses only what cannot be read so.                                        *)
(* Writing the inferred names out changes nothing; no name is given twice, and none   *)
(* that is execution-sensitive was inferred (_parse_run_arguments, _infer_variable).  *)
EveryWordOnce == given = "words" => ReadOnce(input[1], input[2])

(* The first that match, of an order in which they are all different. *)
FirstOf(items, query, limit) ==
    LET found == Search(items, query, limit)
        matching == {i \in DOMAIN items : Matches(items[i], query)}
    IN  /\ \A p \in Bijection(DOMAIN items, DOMAIN items) :
             Search([i \in DOMAIN items |-> items[p[i]]], query, limit) = found
        /\ Len(found) = Min({limit, Cardinality(matching)})
        /\ \A k \in DOMAIN found :
             /\ \E i \in matching : found[k] = items[i]
             /\ Cardinality({i \in matching : Before(items[i], found[k])}) = k - 1
        /\ FindExit(items, query, limit) = "3" <=> matching = {}

(* `ainv find` returns the first matches of one order, however the Keychain returned  *)
(* them, also of items that agree in service and account; no match is left out that   *)
(* sorts before one that is shown; and it exits 3 only when there is none (search).   *)
FirstMatches == given = "items" => FirstOf(input[1], 0, input[2])

=============================================================================
