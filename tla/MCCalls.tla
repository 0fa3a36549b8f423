------------------------------- MODULE MCCalls -------------------------------
(***************************************************************************)
(* What a request does for itself, on small instances: the look at Git,    *)
(* the walk to the requesting application and the hidden prompt, and the   *)
(* pure algorithms of MCValues.  They share no state, so one of them runs  *)
(* and the others have not begun.                                          *)
(***************************************************************************)
EXTENDS GitStatus, Requester, HiddenPrompt, MCValues, TLC

CONSTANTS launchd, ainv, a, b, c, d1, d2, top

(* d1 is below top, d2 elsewhere. *)
Parents == [d \in {d1, d2, top} |-> IF d = d1 THEN <<d1, top>> ELSE <<d>>]

(* Nothing names one of the other processes. *)
Symmetry == Permutations({a, b, c})

(* A call of which AnswerWasTrueOnce says no more need not be followed: what has     *)
(* changed since it began, or since the path was resolved, stays changed.            *)
Promised == ~early /\ "tree" \notin since /\ Cardinality(since) < 2

valueVars == <<given, input>>

(* An algorithm is given its input beside one state of the calls, whichever. *)
CallsInit ==
    /\ GitInit /\ RequesterInit /\ PromptInit
    /\ \/ given = "nothing" /\ input = <<>>
       \/ through = d1 /\ Init

CallsNext ==
    \/ /\ given = "nothing"
       /\ UNCHANGED valueVars
       /\ \/ /\ rpc = "idle" /\ tpc = "idle"
             /\ GitNext /\ UNCHANGED <<requesterVars, promptVars>>
          \/ /\ gpc = "idle" /\ tpc = "idle"
             /\ RequesterNext /\ UNCHANGED <<gitVars, promptVars>>
          \/ /\ gpc = "idle" /\ rpc = "idle"
             /\ PromptNext /\ UNCHANGED <<gitVars, requesterVars>>
    \/ /\ given # "nothing"
       /\ Next /\ UNCHANGED <<gitVars, requesterVars, promptVars>>

CallsSpec == CallsInit /\ [][CallsNext]_<<gitVars, requesterVars, promptVars, valueVars>>

=============================================================================
