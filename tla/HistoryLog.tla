----------------------------- MODULE HistoryLog -----------------------------
(***************************************************************************)
(* What the activity history promises: a log of at most one record per     *)
(* request, in the order in which they were appended, that may forget its  *)
(* oldest records and no others.  An append that fails may have happened,  *)
(* or may show up later (a record whose newline was never written becomes  *)
(* readable when the next append repairs the line).  A power loss may undo *)
(* appends nobody was told have succeeded, and the latest forgetting.      *)
(***************************************************************************)
EXTENDS Sequences, SequencesExt, Naturals, Subsequences

CONSTANTS
    Writers,    \* the requests, and the records they append
    Earlier     \* the requests whose records may be there already

VARIABLES
    log,        \* the readable records, oldest first
    ever,       \* the records that have been readable, in the same order
    status      \* status[w]: "active", then "committed" or "stopped"

logVars == <<log, ever, status>>

LogInit ==
    /\ log \in Seq(Earlier) /\ IsInjective(log)
    /\ ever = log
    /\ status = [w \in Writers |-> "active"]

AppendRecord(w) ==
    /\ ~Contains(ever, w)
    /\ status[w] # "committed"
    /\ log' = Append(log, w)
    /\ ever' = Append(ever, w)
    /\ UNCHANGED status

Confirm(w) ==
    /\ status[w] = "active" /\ Contains(ever, w)
    /\ status' = [status EXCEPT ![w] = "committed"]
    /\ UNCHANGED <<log, ever>>

GiveUpAppend(w) ==
    /\ status[w] = "active"
    /\ status' = [status EXCEPT ![w] = "stopped"]
    /\ UNCHANGED <<log, ever>>

ForgetOldest ==
    /\ \E k \in 1..(Len(log) + 1) : log' = SubSeq(log, k, Len(log))
    /\ UNCHANGED <<ever, status>>

(* Requests under way end; the log comes back as one it was, or an earlier one. *)
LogPowerLoss ==
    /\ \E ended \in SUBSET {w \in Writers : status[w] = "active"} :
         status' = [w \in Writers |-> IF w \in ended THEN "stopped" ELSE status[w]]
    /\ LET lost == Range(ever) \ Range(ever')
       IN  /\ lost \subseteq {w \in Writers : status[w] # "committed"}
           /\ ever' = Without(ever, lost)
           /\ \E k \in 1..(Len(ever) - Len(log) + 1) :
                log' = Without(SubSeq(ever, k, Len(ever)), lost)

LogNext ==
    \/ \E w \in Writers : AppendRecord(w) \/ Confirm(w) \/ GiveUpAppend(w)
    \/ ForgetOldest
    \/ LogPowerLoss

LogSpec == LogInit /\ [][LogNext]_logVars

=============================================================================
