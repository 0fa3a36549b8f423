----------------------------- MODULE DotenvView -----------------------------
(***************************************************************************)
(* What a dotenv file says of each variable name, and what one mutation    *)
(* asks for.  src/ainv/dotenv.py works on bytes; every decision it takes   *)
(* about a target name depends on one mark only: the name is Absent, it is *)
(* assigned nothing (`NAME=`, `NAME=""`, `NAME=''`: Empty), it is assigned *)
(* a value, or it cannot be edited (Bad: a malformed or repeated           *)
(* assignment).  A file that is rejected as a whole (NUL byte, invalid     *)
(* UTF-8, mixed line endings) is one in which every name is Bad.           *)
(* DotenvDocument shows that the line editor computes these two operators. *)
(***************************************************************************)
CONSTANTS
    Names,      \* environment variable names
    Values,     \* populated values, as encode_value returns them
    Absent,     \* the name has no assignment
    Empty,      \* the name is assigned the empty value
    Bad         \* the name is malformed or assigned more than once

ASSUME MarksAssumption ==
    /\ Absent # Empty /\ Absent # Bad /\ Empty # Bad
    /\ {Absent, Empty, Bad} \cap Values = {}

Marks == Values \cup {Absent, Empty, Bad}

(* A document, seen through its names. *)
Docs == [Names -> Marks]

(* A destination that does not exist reads as b"". *)
Blank == [n \in Names |-> Absent]

(* A destination no target can be edited in, or one whose bytes are not all there. *)
Garbled == [n \in Names |-> Bad]

(* The mapping name -> value of mutate_dotenv_many: never empty, no name twice. *)
Assignments == UNION {[S -> Values \cup {Empty}] : S \in SUBSET Names \ {{}}}

Requests == [force : BOOLEAN, values : Assignments]

Targets(r) == DOMAIN r.values

(* _validate_target on every target: a populated one needs --force, a bad one never passes. *)
Acceptable(d, r) ==
    \A n \in Targets(r) :
        /\ d[n] # Bad
        /\ r.force \/ d[n] \in {Absent, Empty}

(* _mutated_bytes folded over the mapping. *)
Updated(d, r) ==
    [n \in Names |-> IF n \in Targets(r) THEN r.values[n] ELSE d[n]]

=============================================================================
