---------------------------- MODULE HistoryRecord ----------------------------
(***************************************************************************)
(* One record of the activity history (src/ainv/history.py): what          *)
(* bounded_history_record makes of a request, and what _parse_record       *)
(* accepts.  The sizes are the code's own.                                 *)
(*                                                                         *)
(* A text is a number of characters of one kind, with or without an        *)
(* ellipsis behind them, since the ellipsis is also the mark of a cut:     *)
(*   ascii      one byte                                                   *)
(*   wide       three bytes                                                *)
(*   control    one byte, six in JSON                                      *)
(*   escapes    six characters each, such as \udc80: what a text looks     *)
(*              like once its surrogates are escaped, or as it was given   *)
(*   surrogate  bytes of a path that are not UTF-8, as Python carries them *)
(*   before     such bytes, and as many literal escapes behind them        *)
(*   behind     as many literal escapes, and such bytes behind them        *)
(* The last two are counted in pairs: escaping makes one text of both, and *)
(* of the bytes alone.                                                     *)
(* The bindings of one request are alike.                                  *)
(***************************************************************************)
EXTENDS Integers, FiniteSetsExt

MAX_RECORD_BYTES == 16 * 1024
MAX_STORED_BINDINGS == 8
MAX_BINDING_COUNT == 1000000
MAX_ARGUMENT_COUNT == 1000000

PerBinding == {"reference", "variable"}
Fields == PerBinding \cup {"destination", "directory", "requester"}

MaxBytesOf ==
    [reference |-> 256, variable |-> 128, destination |-> 512, directory |-> 512,
     requester |-> 128]

MarkerBytes == 3

Width(kind) == IF kind = "wide" THEN 3 ELSE 1

(* len(value.encode("utf-8")) *)
Utf8(t) == t.chars * Width(t.kind) + (IF t.tail THEN MarkerBytes ELSE 0)

(* What json.dumps makes of it: control characters and backslashes are escaped. *)
JsonBytes(t) ==
    Utf8(t) + CASE t.kind = "control" -> 5 * t.chars
                [] t.kind = "escapes" -> (t.chars + 5) \div 6
                [] OTHER -> 0

Escaped(t) == t.kind \in {"surrogate", "before", "behind"}

EscapesPer(kind) == IF kind = "surrogate" THEN 1 ELSE 2

(* value.encode("utf-8", "backslashreplace") *)
Encoded(t) ==
    IF Escaped(t) THEN [t EXCEPT !.kind = "escapes", !.chars = 6 * EscapesPer(t.kind) * @]
    ELSE t

(* Wrong on purpose: the mark is put behind as many bytes as are allowed. *)
CutToMax(t, max) ==
    [kind |-> t.kind, chars |-> max \div Width(t.kind), tail |-> TRUE]

(* As many whole characters as leave room for the mark. *)
CutTo(t, max) ==
    [kind |-> t.kind, chars |-> (max - MarkerBytes) \div Width(t.kind), tail |-> TRUE]

TooLong(t, max) == Utf8(Encoded(t)) > max

(* _bounded_text *)
Bounded(t, max) == IF TooLong(t, max) THEN CutTo(Encoded(t), max) ELSE Encoded(t)

-----------------------------------------------------------------------------
(* The outcomes the command line records, with their reasons. *)
Outcomes ==
    { <<"not_requested", "approval_disabled">>, <<"error", "too_many_bindings">>,
      <<"error", "interactive_input_disabled">>,
      <<"error", "working_directory_unavailable">>, <<"error", "approval_unavailable">>,
      <<"denied", "user_denied">>, <<"allowed", "user_allowed">> }

ReasonsOf(decision) ==
    CASE decision = "allowed" -> {"user_allowed"}
      [] decision = "not_requested" -> {"approval_disabled"}
      [] decision = "denied" -> {"user_denied"}
      [] decision = "error" -> {"approval_unavailable", "interactive_input_disabled",
                                "too_many_bindings", "working_directory_unavailable"}

(* No requester is an empty one: neither is stored. *)
Stored(r) == {f \in Fields : f = "requester" => r.texts[f].chars > 0}

(* Wrong on purpose: only a text that had to be escaped is reported. *)
TruncatedIfEscaped(r) ==
    {f \in Stored(r) : TooLong(r.texts[f], MaxBytesOf[f]) /\ Escaped(r.texts[f])}

Truncated(r) == {f \in Stored(r) : TooLong(r.texts[f], MaxBytesOf[f])}

(* bounded_history_record *)
Record(r) ==
    LET kept == Min({r.count, MAX_STORED_BINDINGS})
    IN  [action |-> r.action, decision |-> r.outcome[1], reason |-> r.outcome[2],
         binding_count |-> r.count, stored |-> kept, omitted |-> r.count - kept,
         arguments |-> r.arguments,
         texts |-> [f \in Stored(r) |-> Bounded(r.texts[f], MaxBytesOf[f])],
         truncated |-> Truncated(r),
         escaped |-> {f \in Stored(r) : Escaped(r.texts[f])}]

(* It raises HistoryError for these, and nothing is written. *)
Countable(r) == r.count \in 1..MAX_BINDING_COUNT /\ r.arguments \in 0..MAX_ARGUMENT_COUNT

Total(bytes) ==
    bytes["reference"] + bytes["variable"] + bytes["destination"] + bytes["directory"]
      + bytes["requester"]

(* An upper bound of the serialized line: punctuation, keys and the fields of fixed   *)
(* size take 340 bytes, a binding 31, each of three counts 7, the name of a truncated *)
(* or escaped field 25.                                                               *)
LineBytes(e) ==
    LET times(f) == IF f \in PerBinding THEN e.stored ELSE 1
        texts == [f \in Fields |->
                    IF f \in DOMAIN e.texts THEN times(f) * JsonBytes(e.texts[f]) ELSE 0]
        names(S) == [f \in Fields |-> IF f \in S THEN times(f) * 25 ELSE 0]
    IN  340 + 31 * e.stored + 3 * 7
          + Total(texts) + Total(names(e.truncated)) + Total(names(e.escaped))

Fits(t, max) == Utf8(t) \in 1..max

(* _parse_record, behind the reader's check of the line's length *)
Accepted(e) ==
    /\ LineBytes(e) <= MAX_RECORD_BYTES
    /\ e.action \in {"run", "set"}
    /\ e.reason \in ReasonsOf(e.decision)
    /\ e.binding_count \in 1..MAX_BINDING_COUNT
    /\ e.omitted \in 0..MAX_BINDING_COUNT
    /\ e.stored \in 1..MAX_STORED_BINDINGS
    /\ e.binding_count = e.stored + e.omitted
    /\ e.arguments \in 0..MAX_ARGUMENT_COUNT
    /\ Fields \ {"requester"} \subseteq DOMAIN e.texts
    /\ \A f \in DOMAIN e.texts : Fits(e.texts[f], MaxBytesOf[f])
    /\ e.truncated \subseteq Fields /\ e.escaped \subseteq Fields

=============================================================================
