----------------------------- MODULE CommandLine -----------------------------
(***************************************************************************)
(* How `ainv set` and `ainv run` read their words (src/ainv/cli.py): which *)
(* are bindings, which begin the child's command, and the names a bare     *)
(* credential is delivered under.                                          *)
(*                                                                         *)
(* A word is what stands before its first "=" (None if it has none) and    *)
(* what stands behind it.  Click removes the "--" of a command line before *)
(* run_command sees it, so the words alone say where the command begins.   *)
(***************************************************************************)
EXTENDS Sequences, SequencesExt, Naturals

CONSTANTS
    Valid,      \* names a variable may have
    Sensitive,  \* the execution-sensitive ones among them: PATH, DYLD_...
    Odd,        \* a text that is no variable name
    None        \* no "=" in a word

ASSUME CommandLineAssumption ==
    Sensitive \subseteq Valid /\ Odd \notin Valid /\ None \notin Valid \cup {Odd}

Readable == [kind : {"readable"}, service : Valid \cup {Odd}]

Plain == [kind : {"opaque", "malformed", "foreign", "empty"}]

Word == [name : Valid \cup {Odd, None}, value : Readable \cup Plain]

(* No bindings: the command has failed with exit status 2. *)
Refused == <<>>

(* provider_name_for_reference: one provider is registered, with one prefix. *)
Routed(ref) == ref.kind \in {"readable", "opaque", "malformed"}

(* validate_keychain_reference: canonical, readable or persistent *)
WellFormed(ref) == ref.kind \in {"readable", "opaque"}

IsBinding(word) == word.name # None \/ Routed(word.value)

(* _infer_variable, for the references it has an answer for *)
Inferrable(ref) == ref.kind = "readable" /\ ref.service \in Valid \ Sensitive

(* What a word binds: _parse_bindings and _validated_binding, but for duplicates. *)
Bindable(word) ==
    /\ WellFormed(word.value)
    /\ word.name \in Valid \/ (word.name = None /\ Inferrable(word.value))

Binding(word) ==
    <<IF word.name = None THEN word.value.service ELSE word.name, word.value>>

(* _parse_bindings *)
Bindings(words) ==
    LET bound == [i \in DOMAIN words |-> Binding(words[i])]
    IN  IF /\ \A i \in DOMAIN words : Bindable(words[i])
           /\ \A i, j \in DOMAIN words : bound[i][1] = bound[j][1] => i = j
        THEN bound ELSE Refused

(* _parse_set_bindings; `as` is the legacy --as option, or None. *)
SetRequest(words, as) ==
    IF words = <<>> THEN Refused
    ELSE IF as = None THEN Bindings(words)
    ELSE IF Len(words) = 1 /\ words[1].name = None
         THEN Bindings(<<[words[1] EXCEPT !.name = as]>>)
         ELSE Refused

(* Wrong on purpose: the loop's index is used though the loop ran to its end. *)
CommandIndexOfLast(words) ==
    LET others == {i \in DOMAIN words : ~IsBinding(words[i])}
    IN  IF words = <<>> THEN 1
        ELSE IF others = {} THEN Len(words)
        ELSE CHOOSE i \in others : \A j \in others : i <= j

(* The first word that is no binding, or behind the last. *)
CommandIndex(words) ==
    LET others == {i \in DOMAIN words : ~IsBinding(words[i])}
    IN  IF others = {} THEN Len(words) + 1
        ELSE CHOOSE i \in others : \A j \in others : i <= j

(* _parse_run_arguments *)
RunRequest(words) ==
    LET k == CommandIndex(words)
        command == SubSeq(words, k, Len(words))
        bound == Bindings(SubSeq(words, 1, k - 1))
    IN  IF k = 1 \/ command = <<>> \/ command[1].value.kind = "empty" \/ bound = Refused
        THEN [bindings |-> Refused, command |-> <<>>]
        ELSE [bindings |-> bound, command |-> command]

=============================================================================
