----------------------------- MODULE Subsequences -----------------------------
(***************************************************************************)
(* Parts of a sequence, in its order.  They are built by a recursive       *)
(* function, so that theorems can be proved of them.                       *)
(***************************************************************************)
EXTENDS Sequences, Naturals

(* What the first n elements leave, for every n: those at the positions in K. *)
PickedUpTo(s, K) ==
    LET upTo[n \in 0..Len(s)] ==
            IF n = 0 THEN <<>>
            ELSE IF n \in K THEN Append(upTo[n - 1], s[n]) ELSE upTo[n - 1]
    IN  upTo

Picked(s, K) == PickedUpTo(s, K)[Len(s)]

(* The elements that are not in S. *)
Without(s, S) == Picked(s, {i \in 1..Len(s) : s[i] \notin S})

=============================================================================
