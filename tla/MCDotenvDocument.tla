-------------------------- MODULE MCDotenvDocument --------------------------
(***************************************************************************)
(* Small instances of DotenvDocument for TLC.                              *)
(***************************************************************************)
EXTENDS DotenvDocument

CONSTANTS A, B, v

=============================================================================
