------------------------------- MODULE MCConfig -------------------------------
(***************************************************************************)
(* Small instances of Config for TLC: one command of each kind the code    *)
(* tells apart.                                                            *)
(***************************************************************************)
EXTENDS Config, TLC

CONSTANTS p1, p2, f1, f2

Job(kind, approval, history) ==
    [kind |-> kind, approval |-> approval, history |-> history]

SomeJobs ==
    { Job("request", "keep", "keep"), Job("reset", "keep", "keep"),
      Job("update", "always", "keep"), Job("update", "off", "keep"),
      Job("update", "keep", "off") }

SomeTexts ==
    { EmptyText, Broken, [approval |-> "always", history |-> "absent"] }

Symmetry == Permutations(Procs)

=============================================================================
