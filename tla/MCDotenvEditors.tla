--------------------------- MODULE MCDotenvEditors ---------------------------
(***************************************************************************)
(* A small instance of DotenvEditors, with the record of DotenvTemporaries:*)
(* two processes and two foreign files, so that the destination can exist  *)
(* and be replaced once.                                                   *)
(***************************************************************************)
EXTENDS DotenvTemporaries, TLC

CONSTANTS p1, p2, A, v, f1, f2

Symmetry == Permutations(Procs) \cup Permutations(Foreign)

=============================================================================
