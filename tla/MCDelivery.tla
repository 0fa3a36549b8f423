----------------------------- MODULE MCDelivery -----------------------------
(***************************************************************************)
(* A small instance of Delivery: two directories, two names, one request   *)
(* of each kind the code tells apart.                                      *)
(***************************************************************************)
EXTENDS Delivery

CONSTANTS A, B, v, d1, d2

Plain(action, names) ==
    [action |-> action, names |-> names, force |-> FALSE, noInput |-> FALSE,
     many |-> FALSE, allow |-> {}]

SomeJobs ==
    { Plain("set", {A, B}),
      [Plain("set", {A}) EXCEPT !.force = TRUE, !.allow = {"tracked"}],
      [Plain("set", {A}) EXCEPT !.many = TRUE],
      Plain("run", {A, B}),
      [Plain("run", {B}) EXCEPT !.noInput = TRUE] }

SomeDocs == {Blank, [Blank EXCEPT ![A] = v]}

=============================================================================
