---------------------------- MODULE DotenvStore ----------------------------
(***************************************************************************)
(* What `ainv set` promises about one destination: a store whose document  *)
(* changes only by whole requests, each applied at one instant to the      *)
(* document of that instant.  A request that ends with an error may have   *)
(* been applied or not (a call can still fail after the rename), but       *)
(* never in part and never twice; one that is reported as done is durable. *)
(***************************************************************************)
EXTENDS DotenvView

CONSTANT Procs      \* the `ainv set` invocations

VARIABLES
    doc,        \* what a reader of the destination finds now
    durable,    \* the documents a power loss may leave
    status,     \* status[p]: how far the request of p is
    request     \* request[p]: what p was asked to do, once it was

storeVars == <<doc, durable, status, request>>

Statuses == {"idle", "active", "applied", "committed", "stopped"}

StoreTypeOK ==
    /\ doc \in Docs
    /\ durable \in SUBSET Docs
    /\ status \in [Procs -> Statuses]
    /\ request \in [Procs -> Requests]

StoreInit ==
    /\ doc \in Docs
    /\ durable = {doc}
    /\ status = [p \in Procs |-> "idle"]
    /\ request \in [Procs -> Requests]

Invoke(p) ==
    /\ status[p] = "idle"
    /\ status' = [status EXCEPT ![p] = "active"]
    /\ UNCHANGED <<doc, durable, request>>

(* The whole request takes effect, on the document that is there now. *)
Apply(p) ==
    /\ status[p] = "active"
    /\ Acceptable(doc, request[p])
    /\ doc' = Updated(doc, request[p])
    /\ durable' = durable \cup {doc'}
    /\ status' = [status EXCEPT ![p] = "applied"]
    /\ UNCHANGED request

(* What is written so far is made durable; an error may still keep it unreported. *)
Flush(p) ==
    /\ status[p] = "applied"
    /\ durable' = {doc}
    /\ UNCHANGED <<doc, status, request>>

(* The caller is told, after everything written so far is durable. *)
Report(p) ==
    /\ status[p] = "applied"
    /\ durable' = {doc}
    /\ status' = [status EXCEPT ![p] = "committed"]
    /\ UNCHANGED <<doc, request>>

(* An error, an interrupt or a kill: what was applied stays applied. *)
GiveUp(p) ==
    /\ status[p] \in {"active", "applied"}
    /\ status' = [status EXCEPT ![p] = "stopped"]
    /\ UNCHANGED <<doc, durable, request>>

StorePowerLoss ==
    /\ doc' \in durable
    /\ durable' = {doc'}
    /\ status' = [p \in Procs |->
                    IF status[p] \in {"active", "applied"} THEN "stopped" ELSE status[p]]
    /\ UNCHANGED request

StoreNext ==
    \/ \E p \in Procs : Invoke(p) \/ Apply(p) \/ Flush(p) \/ Report(p) \/ GiveUp(p)
    \/ StorePowerLoss

StoreSpec == StoreInit /\ [][StoreNext]_storeVars

-----------------------------------------------------------------------------
(* A value reported as set stays, over power losses too, until another request      *)
(* replaces it, which takes --force unless the value set was the empty one          *)
(* (mutate_dotenv_many returned, so _atomic_replace had synced the directory).      *)
CommittedSurvives ==
    \A p \in Procs : status[p] = "committed" =>
        \A n \in Targets(request[p]), d \in durable :
            \/ d[n] = request[p].values[n]
            \/ \E q \in Procs \ {p} :
                 /\ status[q] # "idle"
                 /\ n \in Targets(request[q])
                 /\ d[n] = request[q].values[n]
                 /\ request[q].force \/ \E r \in Procs \ {q} :
                      n \in Targets(request[r]) /\ request[r].values[n] = Empty

=============================================================================
