------------------------------ MODULE MCKeychain ------------------------------
(***************************************************************************)
(* A small instance of Keychain: one service with two accounts; which of   *)
(* the two references a new item gets makes no difference.                 *)
(***************************************************************************)
EXTENDS Keychain, TLC

CONSTANTS p1, p2, s, a, b, x, y

SomeJobs == {j \in JobType : j.kind = "add" => j.item.ref.copy = 1}

Symmetry == Permutations(Procs) \cup Permutations(Accounts) \cup Permutations(Secrets)

=============================================================================
