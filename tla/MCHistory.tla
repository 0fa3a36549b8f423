------------------------------ MODULE MCHistory ------------------------------
(***************************************************************************)
(* A small instance of History for TLC: files that hold two records, or    *)
(* one, a torn tail and its repair; a backup and an active file may be     *)
(* there from the start, so that three appends can rotate twice.           *)
(***************************************************************************)
EXTENDS History

CONSTANTS w1, w2, r1, o1, o2

=============================================================================
