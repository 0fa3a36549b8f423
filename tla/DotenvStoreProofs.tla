-------------------------- MODULE DotenvStoreProofs --------------------------
(***************************************************************************)
(* Theorems about DotenvStore: what it promises holds for any number of    *)
(* requests, names and values.                                             *)
(***************************************************************************)
EXTENDS DotenvStore, TLAPS

(* What document d may hold for a name p has set: p's value, or that of another     *)
(* request that was entitled to replace it.                                         *)
Kept(p, n, d) ==
    \/ d[n] = request[p].values[n]
    \/ \E q \in Procs \ {p} :
         /\ status[q] # "idle"
         /\ n \in Targets(request[q])
         /\ d[n] = request[q].values[n]
         /\ request[q].force \/ \E r \in Procs \ {q} :
              n \in Targets(request[r]) /\ request[r].values[n] = Empty

(* CommittedSurvives, and the same of the current document from the instant a       *)
(* request is applied: nothing is yet known of the durable ones then.               *)
StoreInv ==
    /\ StoreTypeOK
    /\ doc \in durable
    /\ \A p \in Procs : \A n \in Targets(request[p]) :
         /\ status[p] = "applied" => Kept(p, n, doc)
         /\ status[p] = "committed" => \A d \in durable : Kept(p, n, d)

(* A request applied to a document gives a document. *)
LEMMA StoreUpdatedType ==
    ASSUME NEW d \in Docs, NEW r \in Requests
    PROVE  Updated(d, r) \in Docs
<1>1. PICK S \in SUBSET Names : r.values \in [S -> Values \cup {Empty}]
  BY DEF Requests, Assignments
<1>2. ASSUME NEW n \in Names
      PROVE  (IF n \in Targets(r) THEN r.values[n] ELSE d[n]) \in Marks
  BY <1>1, <1>2 DEF Docs, Marks, Targets
<1> QED BY <1>2 DEF Updated, Docs

(* A target is a name, and its value is populated or the empty one. *)
LEMMA TargetValue ==
    ASSUME NEW r \in Requests, NEW n \in Targets(r)
    PROVE  n \in Names /\ r.values[n] \in Values \cup {Empty}
<1>1. PICK S \in SUBSET Names : r.values \in [S -> Values \cup {Empty}]
  BY DEF Requests, Assignments
<1> QED BY <1>1 DEF Targets

(* What was kept of a request stays kept when another one is applied. *)
LEMMA ApplyKeeps ==
    ASSUME StoreTypeOK, NEW q \in Procs, Apply(q),
           NEW p \in Procs, p # q, NEW n \in Targets(request[p]), Kept(p, n, doc)
    PROVE  Kept(p, n, doc)'
<1> DEFINE new == Updated(doc, request[q])
<1>1. doc' = new /\ request' = request /\ status'[q] # "idle"
        /\ \A s \in Procs : status[s] # "idle" => status'[s] # "idle"
  BY DEF Apply, StoreTypeOK
<1>2. request[p] \in Requests /\ request[q] \in Requests /\ n \in Names
  BY TargetValue DEF StoreTypeOK
<1>3. CASE n \notin Targets(request[q])
  <2>1. new[n] = doc[n]
    BY <1>2, <1>3 DEF Updated
  <2> QED BY <1>1, <2>1 DEF Kept
<1>4. CASE n \in Targets(request[q])
  <2>1. new[n] = request[q].values[n]
    BY <1>2, <1>4 DEF Updated
  <2>2. CASE request[q].force
    BY <1>1, <1>4, <2>1, <2>2 DEF Kept
  <2>3. CASE ~request[q].force
    <3>1. doc[n] \in {Absent, Empty}
      BY <1>4, <2>3 DEF Apply, Acceptable
    <3>2. CASE doc[n] = request[p].values[n]
      <4>1. request[p].values[n] = Empty
        BY <1>2, <3>1, <3>2, TargetValue, MarksAssumption
      <4> QED BY <1>1, <1>4, <2>1, <4>1 DEF Kept
    <3>3. ASSUME NEW s \in Procs \ {p}, status[s] # "idle", n \in Targets(request[s]),
                 doc[n] = request[s].values[n],
                 request[s].force \/ \E r \in Procs \ {s} :
                     n \in Targets(request[r]) /\ request[r].values[n] = Empty
          PROVE  Kept(p, n, doc)'
      <4>1. CASE s = q
        BY <1>1, <1>4, <2>1, <3>3, <4>1 DEF Kept
      <4>2. CASE s # q
        <5>1. request[s] \in Requests
          BY DEF StoreTypeOK
        <5>2. request[s].values[n] = Empty
          BY <3>1, <3>3, <5>1, TargetValue, MarksAssumption
        <5> QED BY <1>1, <1>4, <2>1, <3>3, <4>2, <5>2 DEF Kept
      <4> QED BY <4>1, <4>2
    <3> QED BY <3>2, <3>3 DEF Kept
  <2> QED BY <2>2, <2>3
<1> QED BY <1>3, <1>4

(* No step of the store leaves the invariant. *)
LEMMA StoreInvStep == StoreInv /\ [StoreNext]_storeVars => StoreInv'
<1> SUFFICES ASSUME StoreInv, [StoreNext]_storeVars PROVE StoreInv'
  OBVIOUS
<1> USE DEF StoreInv
<1>1. ASSUME NEW q \in Procs, Invoke(q) PROVE StoreInv'
  BY <1>1 DEF Invoke, StoreTypeOK, Statuses, Kept
<1>2. ASSUME NEW q \in Procs, Apply(q) PROVE StoreInv'
  <2>1. StoreTypeOK' /\ doc' \in durable'
    BY <1>2, StoreUpdatedType DEF Apply, StoreTypeOK, Statuses
  <2>2. ASSUME NEW p \in Procs, NEW n \in Targets(request[p]), status'[p] = "applied"
        PROVE  Kept(p, n, doc)'
    <3>1. CASE p = q
      <4>1. n \in Names
        BY TargetValue DEF StoreTypeOK
      <4> QED BY <1>2, <3>1, <4>1 DEF Apply, Kept, Updated
    <3>2. CASE p # q
      <4>1. status[p] = "applied"
        BY <1>2, <2>2, <3>2 DEF Apply, StoreTypeOK
      <4> QED BY <1>2, <3>2, <4>1, ApplyKeeps
    <3> QED BY <3>1, <3>2
  <2>3. ASSUME NEW p \in Procs, NEW n \in Targets(request[p]), status'[p] = "committed",
               NEW d \in durable'
        PROVE  Kept(p, n, d)'
    <3>1. p # q /\ status[p] = "committed"
      BY <1>2, <2>3 DEF Apply, StoreTypeOK
    <3>2. CASE d = doc'
      BY <1>2, <3>1, <3>2, ApplyKeeps DEF Kept
    <3>3. CASE d \in durable
      BY <1>2, <3>1, <3>3 DEF Apply, Kept, StoreTypeOK
    <3> QED BY <1>2, <3>2, <3>3 DEF Apply
  <2> QED BY <1>2, <2>1, <2>2, <2>3 DEF Apply
<1>3. ASSUME NEW q \in Procs, Report(q) PROVE StoreInv'
  BY <1>3 DEF Report, StoreTypeOK, Statuses, Kept
<1>4. ASSUME NEW q \in Procs, GiveUp(q) PROVE StoreInv'
  BY <1>4 DEF GiveUp, StoreTypeOK, Statuses, Kept
<1>5. ASSUME StorePowerLoss PROVE StoreInv'
  BY <1>5 DEF StorePowerLoss, StoreTypeOK, Statuses, Kept
<1>6. ASSUME NEW q \in Procs, Flush(q) PROVE StoreInv'
  BY <1>6 DEF Flush, StoreTypeOK, Kept
<1>7. CASE UNCHANGED storeVars
  BY <1>7 DEF storeVars, StoreTypeOK, Kept
<1> QED BY <1>1, <1>2, <1>3, <1>4, <1>5, <1>6, <1>7 DEF StoreNext

(* The invariant holds at the start. *)
LEMMA StoreInvInit == StoreInit => StoreInv
  BY DEF StoreInit, StoreInv, StoreTypeOK, Statuses

(* It says of the durable documents what the property says. *)
LEMMA StoreInvSuffices == StoreInv => CommittedSurvives
  BY DEF StoreInv, CommittedSurvives, Kept

(* A value reported as set survives power losses and is replaced only by a request    *)
(* that may (what mutate_dotenv_many has done when it returns).                       *)
THEOREM CommittedSurvivesHolds == StoreSpec => []CommittedSurvives
  BY StoreInvInit, StoreInvStep, StoreInvSuffices, PTL DEF StoreSpec

=============================================================================
