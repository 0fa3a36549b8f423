---------------------------- MODULE MCDotenvFile ----------------------------
(***************************************************************************)
(* A small instance of DotenvFile for TLC: two processes, one foreign      *)
(* file, one name with two values.                                         *)
(***************************************************************************)
EXTENDS DotenvFile

CONSTANTS p1, p2, A, v, w, f1

=============================================================================
