-------------------------- MODULE DotenvFileProofs --------------------------
(***************************************************************************)
(* Theorems about DotenvFile, for every set of processes, names, values    *)
(* and foreign files and every choice of faults; about DotenvEditors:      *)
(* which changes of programs that ignore the lock can be lost, and what a  *)
(* process may publish beside them; and about DotenvTemporaries: where a   *)
(* temporary file may stay behind.                                         *)
(***************************************************************************)
EXTENDS DotenvTemporaries, TLAPS

(* A request applied to a document gives a document. *)
LEMMA UpdatedType ==
    ASSUME NEW d \in Docs, NEW r \in Requests
    PROVE  Updated(d, r) \in Docs
<1>1. PICK S \in SUBSET Names : r.values \in [S -> Values \cup {Empty}]
  BY DEF Requests, Assignments
<1>2. ASSUME NEW n \in Names
      PROVE  (IF n \in Targets(r) THEN r.values[n] ELSE d[n]) \in Marks
  BY <1>1, <1>2 DEF Docs, Marks, Targets
<1> QED BY <1>2 DEF Updated, Docs

(* The documents the model starts from are documents. *)
LEMMA BlankType == Blank \in Docs /\ Garbled \in Docs
  BY DEF Blank, Garbled, Docs, Marks

(* Whatever the name refers to, a reader finds a document. *)
LEMMA ContentsType ==
    ASSUME TypeOK, NEW f \in Files \cup {NoFile}
    PROVE  Contents(f) \in Docs
  BY BlankType DEF TypeOK, Contents

(* Every variable keeps its type (the state of the two passes and of the directory). *)
LEMMA TypeInit == Init => TypeOK
  BY BlankType DEF Init, TypeOK, Files, Calls, Outcomes, Section

(* No step leaves the types: one case per system call of the two passes. *)
LEMMA TypeStep == TypeOK /\ [Next]_vars => TypeOK'
<1> SUFFICES ASSUME TypeOK, [Next]_vars PROVE TypeOK'
  OBVIOUS
<1> USE DEF TypeOK, Calls, Section, Reading, Writing, Outcomes, Goto, Decide, Forget,
            Clearing, Leave, disk, local
<1>1. ASSUME NEW p \in Procs, Begin(p) PROVE TypeOK'
  BY <1>1 DEF Begin
<1>2. ASSUME NEW p \in Procs, Lock(p) PROVE TypeOK'
  BY <1>2 DEF Lock
<1>3. ASSUME NEW p \in Procs, Stat(p) PROVE TypeOK'
  BY <1>3, BlankType DEF Stat
<1>4. ASSUME NEW p \in Procs, Open(p) PROVE TypeOK'
  BY <1>4, ContentsType DEF Open
<1>5. ASSUME NEW p \in Procs, Validate(p) PROVE TypeOK'
  BY <1>5 DEF Validate
<1>6. ASSUME NEW p \in Procs, Refuse(p) PROVE TypeOK'
  BY <1>6 DEF Refuse
<1>7. ASSUME NEW p \in Procs, Create(p) PROVE TypeOK'
  BY <1>7 DEF Create
<1>8. ASSUME NEW p \in Procs, Write(p) PROVE TypeOK'
  <2>1. Updated(buf[p], request[p]) \in Docs
    BY UpdatedType
  <2> QED BY <1>8, <2>1 DEF Write
<1>9. ASSUME NEW p \in Procs, Sync(p) PROVE TypeOK'
  BY <1>9 DEF Sync, Files
<1>10. ASSUME NEW p \in Procs, Recheck(p) PROVE TypeOK'
  BY <1>10 DEF Recheck
<1>11. ASSUME NEW p \in Procs, Rename(p) PROVE TypeOK'
  BY <1>11 DEF Rename, Files
<1>12. ASSUME NEW p \in Procs, DirSync(p) PROVE TypeOK'
  BY <1>12 DEF DirSync
<1>13. ASSUME NEW p \in Procs, Cleanup(p) PROVE TypeOK'
  BY <1>13 DEF Cleanup
<1>14. ASSUME NEW p \in Procs, Unlock(p) PROVE TypeOK'
  BY <1>14, BlankType DEF Unlock
<1>15. ASSUME NEW p \in Procs, Resolve(p) PROVE TypeOK'
  BY <1>15 DEF Resolve
<1>16. ASSUME NEW p \in Procs, FailOutside(p) PROVE TypeOK'
  BY <1>16 DEF FailOutside
<1>17. ASSUME NEW p \in Procs, FailInside(p) PROVE TypeOK'
  BY <1>17 DEF FailInside
<1>18. ASSUME NEW p \in Procs, Kill(p) PROVE TypeOK'
  BY <1>18, BlankType DEF Kill
<1>19. ASSUME PowerLoss PROVE TypeOK'
  <2>1. data' \in [Files -> Docs]
    BY <1>19, BlankType DEF PowerLoss
  <2>2. outcome' \in [Procs -> Outcomes] /\ pc' \in [Procs -> Calls]
    BY <1>19 DEF PowerLoss
  <2>3. seen' \in [Procs -> Files \cup {NoFile}] /\ buf' \in [Procs -> Docs]
    BY <1>19, BlankType DEF PowerLoss
  <2>4. temps' \in SUBSET Procs
    BY <1>19 DEF PowerLoss
  <2>5. /\ entry' \in Files \cup {NoFile}
        /\ onDisk' \in SUBSET (Files \cup {NoFile})
        /\ lock' \in Procs \cup {Free}
    BY <1>19 DEF PowerLoss
  <2> QED BY <1>19, <2>1, <2>2, <2>3, <2>4, <2>5 DEF PowerLoss
<1>20. ASSUME UNCHANGED vars PROVE TypeOK'
  BY <1>20 DEF vars
<1>21. ASSUME NEW p \in Procs, Close(p) PROVE TypeOK'
  BY <1>21 DEF Close
<1>22. ASSUME NEW p \in Procs, Reclose(p) PROVE TypeOK'
  BY <1>22 DEF Reclose
<1>23. ASSUME NEW p \in Procs, InterruptCreate(p) PROVE TypeOK'
  BY <1>23 DEF InterruptCreate
<1>24. ASSUME NEW p \in Procs, FailUnlock(p) PROVE TypeOK'
  BY <1>24, BlankType DEF FailUnlock
<1> QED
  BY <1>1, <1>2, <1>3, <1>4, <1>5, <1>6, <1>7, <1>8, <1>9, <1>10, <1>11, <1>12, <1>13,
     <1>14, <1>15, <1>16, <1>17, <1>18, <1>19, <1>20, <1>21, <1>22, <1>23, <1>24
     DEF Next, Step, Fail, Finished

(* The model is well typed in every reachable state. *)
THEOREM TypeCorrect == Spec => []TypeOK
  BY TypeInit, TypeStep, PTL DEF Spec

-----------------------------------------------------------------------------
(* The inductive invariant. *)
LEMMA InvInit == Init => IInv
<1> SUFFICES ASSUME Init PROVE IInv
  OBVIOUS
<1>1. TypeOK
  BY TypeInit
<1>2. LockDiscipline /\ ReadIsCurrent /\ Progress
  BY FilesAssumption
     DEF Init, LockDiscipline, ReadIsCurrent, Progress, Applied, Section, Reading, Writing,
         Clearing
<1>3. PowerLossLeavesWholeFile /\ entry \in onDisk
  BY DEF Init, PowerLossLeavesWholeFile
<1> QED BY <1>1, <1>2, <1>3 DEF IInv

(* No step leaves the inductive invariant: one case per system call. *)
LEMMA InvStep == IInv /\ [Next]_vars => IInv'
<1> SUFFICES ASSUME IInv, [Next]_vars PROVE IInv'
  OBVIOUS
<1>t. TypeOK /\ TypeOK'
  BY TypeStep DEF IInv
<1> USE FilesAssumption
    DEF IInv, LockDiscipline, ReadIsCurrent, PowerLossLeavesWholeFile, Progress, TypeOK,
        Files, Contents, Calls, Section, Reading, Writing, Outcomes,
        Clearing, Applied, Goto, Decide, Forget, Leave, disk, local
<1>1. ASSUME NEW p \in Procs, Begin(p) PROVE IInv'
  BY <1>t, <1>1 DEF Begin
<1>2. ASSUME NEW p \in Procs, Lock(p) PROVE IInv'
  BY <1>t, <1>2 DEF Lock
<1>3. ASSUME NEW p \in Procs, Stat(p) PROVE IInv'
  BY <1>t, <1>3 DEF Stat
<1>4. ASSUME NEW p \in Procs, Open(p) PROVE IInv'
  BY <1>t, <1>4 DEF Open
<1>5. ASSUME NEW p \in Procs, Validate(p) PROVE IInv'
  BY <1>t, <1>5 DEF Validate
<1>6. ASSUME NEW p \in Procs, Refuse(p) PROVE IInv'
  BY <1>t, <1>6 DEF Refuse
<1>7. ASSUME NEW p \in Procs, Create(p) PROVE IInv'
  BY <1>t, <1>7 DEF Create
<1>8. ASSUME NEW p \in Procs, Write(p) PROVE IInv'
  BY <1>t, <1>8 DEF Write
<1>9. ASSUME NEW p \in Procs, Sync(p) PROVE IInv'
  BY <1>t, <1>9 DEF Sync
<1>10. ASSUME NEW p \in Procs, Recheck(p) PROVE IInv'
  BY <1>t, <1>10 DEF Recheck
<1>11. ASSUME NEW p \in Procs, Rename(p) PROVE IInv'
  BY <1>t, <1>11 DEF Rename
<1>12. ASSUME NEW p \in Procs, DirSync(p) PROVE IInv'
  BY <1>t, <1>12 DEF DirSync
<1>13. ASSUME NEW p \in Procs, Cleanup(p) PROVE IInv'
  BY <1>t, <1>13 DEF Cleanup
<1>14. ASSUME NEW p \in Procs, Unlock(p) PROVE IInv'
  BY <1>t, <1>14 DEF Unlock
<1>15. ASSUME NEW p \in Procs, Resolve(p) PROVE IInv'
  BY <1>t, <1>15 DEF Resolve
<1>16. ASSUME NEW p \in Procs, FailOutside(p) PROVE IInv'
  BY <1>t, <1>16 DEF FailOutside
<1>17. ASSUME NEW p \in Procs, FailInside(p) PROVE IInv'
  BY <1>t, <1>17 DEF FailInside
<1>18. ASSUME NEW p \in Procs, Kill(p) PROVE IInv'
  BY <1>t, <1>18 DEF Kill
<1>19. ASSUME PowerLoss PROVE IInv'
  BY <1>t, <1>19 DEF PowerLoss
<1>20. ASSUME UNCHANGED vars PROVE IInv'
  BY <1>20 DEF vars
<1>21. ASSUME NEW p \in Procs, Close(p) PROVE IInv'
  BY <1>t, <1>21 DEF Close
<1>22. ASSUME NEW p \in Procs, Reclose(p) PROVE IInv'
  BY <1>t, <1>22 DEF Reclose
<1>23. ASSUME NEW p \in Procs, InterruptCreate(p) PROVE IInv'
  BY <1>t, <1>23 DEF InterruptCreate
<1>24. ASSUME NEW p \in Procs, FailUnlock(p) PROVE IInv'
  BY <1>t, <1>24 DEF FailUnlock
<1> QED
  BY <1>1, <1>2, <1>3, <1>4, <1>5, <1>6, <1>7, <1>8, <1>9, <1>10, <1>11, <1>12, <1>13, <1>14, <1>15, <1>16, <1>17, <1>18, <1>19, <1>20,
     <1>21, <1>22, <1>23, <1>24
     DEF Next, Step, Fail, Finished

(* What each call of the two passes relies on holds whenever it is made           *)
(* (_directory_lock, _read_destination, _atomic_replace).                         *)
THEOREM InvCorrect == Spec => []IInv
  BY InvInit, InvStep, PTL DEF Spec

(* One process at a time is inside the section, and nobody holds the lock while the *)
(* credentials are resolved (_directory_lock).                                       *)
THEOREM LockDisciplineHolds == Spec => []LockDiscipline
  BY InvCorrect, PTL DEF IInv

(* A cooperating process never computes from a stale read of the destination         *)
(* (_read_destination under the directory lock).                                     *)
THEOREM ReadIsCurrentHolds == Spec => []ReadIsCurrent
  BY InvCorrect, PTL DEF IInv

(* A power loss at any instant leaves a destination whose content is on disk         *)
(* (the order of the calls in _atomic_replace).                                      *)
THEOREM PowerLossHolds == Spec => []PowerLossLeavesWholeFile
  BY InvCorrect, PTL DEF IInv

-----------------------------------------------------------------------------
(* Only a rename and a power loss change what a reader of the destination finds,     *)
(* or what may be found after a power loss.                                          *)
LEMMA QuietSteps ==
    ASSUME IInv, NEW p \in Procs,
           \/ Begin(p) \/ Lock(p) \/ Stat(p) \/ Open(p) \/ Validate(p) \/ Refuse(p)
           \/ Create(p) \/ Write(p) \/ Sync(p) \/ Close(p) \/ Recheck(p)
           \/ Reclose(p) \/ Cleanup(p) \/ Unlock(p) \/ Resolve(p) \/ FailOutside(p)
           \/ FailInside(p) \/ InterruptCreate(p) \/ FailUnlock(p) \/ Kill(p)
    PROVE  /\ entry' = entry /\ onDisk' = onDisk
           /\ \A f \in onDisk : Contents(f)' = Contents(f)
<1> USE FilesAssumption DEF IInv, TypeOK, Files, Contents, disk, local
<1>1. ASSUME Write(p)
      PROVE  /\ entry' = entry /\ onDisk' = onDisk
             /\ \A f \in onDisk : Contents(f)' = Contents(f)
  <2>1. p \notin onDisk
    BY <1>1 DEF Write, Progress, Applied, Writing, Clearing
  <2> QED BY <1>1, <2>1 DEF Write
<1>2. ASSUME ~Write(p) PROVE entry' = entry /\ onDisk' = onDisk /\ data' = data
  BY <1>2 DEF Begin, Lock, Stat, Open, Validate, Refuse, Create, Sync, Close, Recheck,
              Reclose, Cleanup, Unlock, Resolve, FailOutside, FailInside, InterruptCreate,
              FailUnlock, Kill
<1> QED BY <1>1, <1>2

(* A rename publishes the request of its process, applied to what was there. *)
LEMMA RenameApplies ==
    ASSUME IInv, NEW p \in Procs, Rename(p)
    PROVE  /\ Acceptable(Contents(entry), request[p])
           /\ Contents(entry)' = Updated(Contents(entry), request[p])
           /\ onDisk' = onDisk \cup {entry'}
           /\ \A f \in onDisk' : Contents(f)' = Contents(f)
<1> USE FilesAssumption DEF IInv, TypeOK, Files, Contents
<1>1. buf[p] = Contents(entry) /\ Acceptable(buf[p], request[p])
  BY DEF Rename, ReadIsCurrent, Progress, Writing
<1>2. data[p] = Updated(buf[p], request[p]) /\ data' = data /\ entry' = p /\ p # NoFile
  BY DEF Rename, Progress
<1> QED BY <1>1, <1>2 DEF Rename

(* A power loss brings back one of the documents that may be found after it. *)
LEMMA PowerLossRestores ==
    ASSUME IInv, PowerLoss
    PROVE  /\ entry' \in onDisk /\ onDisk' = {entry'}
           /\ \A f \in onDisk : Contents(f)' = Contents(f)
  BY FilesAssumption DEF IInv, TypeOK, Files, Contents, PowerLoss, PowerLossLeavesWholeFile

(* A populated assignment is never replaced without --force, whenever it was          *)
(* populated (the second _validate_target, under the lock of the mutation).           *)
LEMMA PopulatedStep ==
    ASSUME IInv, [Next]_vars, NEW n \in Names, Populated(Contents(entry)[n])
    PROVE  \/ Contents(entry)'[n] = Contents(entry)[n]
           \/ \E p \in Procs :
                /\ pc[p] = "rename" /\ pc'[p] = "dirsync"
                /\ request[p].force /\ n \in Targets(request[p])
           \/ onDisk # {entry} /\ onDisk' = {entry'} /\ entry' \in onDisk \ {entry}
<1> DEFINE Kept == Contents(entry)'[n] = Contents(entry)[n]
<1>0. entry \in onDisk
  BY DEF IInv
<1>1. ASSUME NEW p \in Procs, Rename(p), ~Kept
      PROVE  /\ pc[p] = "rename" /\ pc'[p] = "dirsync"
             /\ request[p].force /\ n \in Targets(request[p])
  <2>1. n \in Targets(request[p])
    BY <1>1, RenameApplies DEF Updated
  <2>2. Contents(entry)[n] \notin {Absent, Empty}
    BY MarksAssumption DEF Populated
  <2>3. request[p].force
    BY <1>1, <2>1, <2>2, RenameApplies DEF Acceptable
  <2>4. pc[p] = "rename" /\ pc'[p] = "dirsync"
    BY <1>1 DEF Rename, Goto, IInv, TypeOK
  <2> QED BY <2>1, <2>3, <2>4
<1>2. ASSUME NEW p \in Procs, DirSync(p) PROVE Kept
  BY <1>2 DEF DirSync, Contents
<1>3. ASSUME PowerLoss, ~Kept
      PROVE  onDisk # {entry} /\ onDisk' = {entry'} /\ entry' \in onDisk \ {entry}
  BY <1>0, <1>3, PowerLossRestores DEF Contents
<1>4. ASSUME UNCHANGED vars PROVE Kept
  BY <1>4 DEF vars, Contents
<1>5. ASSUME NEW p \in Procs, Begin(p) \/ Step(p) \/ Fail(p), ~Rename(p), ~DirSync(p)
      PROVE  Kept
  <2>1. entry' = entry /\ Contents(entry)' = Contents(entry)
    BY <1>0, <1>5, QuietSteps DEF Step, Fail, Contents
  <2> QED BY <2>1
<1> QED
  BY <1>1, <1>2, <1>3, <1>4, <1>5 DEF Next, Step, Finished

(* A populated assignment changes only by a rename of a process given --force, or    *)
(* by a power loss that undoes an unreported rename (_validate_target).              *)
THEOREM PopulatedKeptHolds == Spec => PopulatedKept
<1> DEFINE A ==
      \A n \in Names :
         Populated(Contents(entry)[n]) =>
            \/ Contents(entry)'[n] = Contents(entry)[n]
            \/ \E p \in Procs :
                 /\ pc[p] = "rename" /\ pc'[p] = "dirsync"
                 /\ request[p].force /\ n \in Targets(request[p])
            \/ onDisk # {entry} /\ onDisk' = {entry'} /\ entry' \in onDisk \ {entry}
<1>1. IInv /\ [Next]_vars => [A]_vars
  BY PopulatedStep
<1> QED BY <1>1, InvCorrect, PTL DEF Spec, PopulatedKept

-----------------------------------------------------------------------------
(* The refinement: every step is a step of DotenvStore, or changes nothing in it.    *)
Status == [p \in Procs |-> StatusOf(p)]

Durable == {Contents(f) : f \in onDisk}

(* Both modules speak of the same documents and requests. *)
LEMMA SameView ==
    /\ Store!Docs = Docs /\ Store!Requests = Requests
    /\ \A d, r : Store!Acceptable(d, r) = Acceptable(d, r)
    /\ \A d, r : Store!Updated(d, r) = Updated(d, r)
  BY DEF Store!Docs, Docs, Store!Marks, Marks, Store!Requests, Requests,
         Store!Assignments, Assignments, Store!Acceptable, Acceptable,
         Store!Updated, Updated, Store!Targets, Targets

(* The first states of the processes are first states of the store. *)
LEMMA StoreInits == Init => Store!StoreInit
<1> SUFFICES ASSUME Init PROVE Store!StoreInit
  OBVIOUS
<1>1. TypeOK
  BY TypeInit
<1>2. Contents(entry) \in Docs
  BY <1>1, ContentsType DEF TypeOK
<1>3. Status = [p \in Procs |-> "idle"]
  BY DEF Init, Status, StatusOf
<1>4. Durable = {Contents(entry)}
  BY DEF Init, Durable
<1> QED BY <1>1, <1>2, <1>3, <1>4, SameView DEF Store!StoreInit, Status, Durable, Init

(* The documents a power loss may leave, when no step touches them. *)
LEMMA SameDurable ==
    ASSUME onDisk' = onDisk, \A f \in onDisk : Contents(f)' = Contents(f)
    PROVE  Durable' = Durable
  BY DEF Durable

(* The status of one process, when its step is the only one. *)
LEMMA OneStatus ==
    ASSUME TypeOK, NEW p \in Procs,
           \A q \in Procs \ {p} :
               pc'[q] = pc[q] /\ outcome'[q] = outcome[q] /\ phase'[q] = phase[q]
    PROVE  Status' = [Status EXCEPT ![p] = StatusOf(p)']
<1>1. ASSUME NEW q \in Procs \ {p} PROVE StatusOf(q)' = StatusOf(q)
  BY <1>1 DEF StatusOf, Applied
<1> QED BY <1>1 DEF Status

(* What a step that leaves the destination alone does to the abstract state. *)
LEMMA QuietStore ==
    ASSUME IInv, NEW p \in Procs,
           \/ Begin(p) \/ Lock(p) \/ Stat(p) \/ Open(p) \/ Validate(p) \/ Refuse(p)
           \/ Create(p) \/ Write(p) \/ Sync(p) \/ Close(p) \/ Recheck(p)
           \/ Reclose(p) \/ Cleanup(p) \/ Unlock(p) \/ Resolve(p) \/ FailOutside(p)
           \/ FailInside(p) \/ InterruptCreate(p) \/ FailUnlock(p) \/ Kill(p)
    PROVE  /\ Contents(entry)' = Contents(entry) /\ Durable' = Durable
           /\ Status' = [Status EXCEPT ![p] = StatusOf(p)']
           /\ request' = request
<1>1. /\ entry' = entry /\ onDisk' = onDisk
      /\ \A f \in onDisk : Contents(f)' = Contents(f)
  BY QuietSteps
<1>2. entry \in onDisk
  BY DEF IInv
<1>3. Contents(entry)' = Contents(entry)
  BY <1>1, <1>2 DEF Contents
<1>4. \A q \in Procs \ {p} :
        pc'[q] = pc[q] /\ outcome'[q] = outcome[q] /\ phase'[q] = phase[q]
  BY DEF IInv, TypeOK, Goto, Decide, Leave, local, Begin, Lock, Stat, Open, Validate, Refuse,
         Create, Write, Sync, Close, Recheck, Reclose, Cleanup, Unlock, Resolve, FailOutside,
         FailInside, InterruptCreate, FailUnlock, Kill
<1>5. request' = request
  BY DEF local, Begin, Lock, Stat, Open, Validate, Refuse, Create, Write, Sync, Close,
         Recheck, Reclose, Cleanup, Unlock, Resolve, FailOutside, FailInside,
         InterruptCreate, FailUnlock, Kill
<1>6. TypeOK
  BY DEF IInv
<1> QED BY <1>1, <1>3, <1>4, <1>5, <1>6, SameDurable, OneStatus

(* The steps that DotenvStore does not see. *)
LEMMA StillSteps ==
    ASSUME IInv, NEW p \in Procs,
           \/ Lock(p) \/ Stat(p) \/ Open(p) \/ Validate(p) \/ Create(p) \/ Write(p)
           \/ Sync(p) \/ Close(p) \/ Reclose(p) \/ Cleanup(p) \/ Resolve(p)
           \/ Unlock(p) /\ ~Applied(p)
    PROVE  UNCHANGED Store!storeVars
<1>1. StatusOf(p)' = StatusOf(p)
  BY DEF IInv, TypeOK, Progress, Applied, StatusOf, Writing, Clearing, Goto, Decide, Leave,
         local, Lock, Stat, Open, Validate, Create, Write, Sync, Close, Reclose, Cleanup,
         Unlock, Resolve
<1>2. Status' = Status
  BY <1>1, QuietStore DEF Status
<1> QED BY <1>2, QuietStore DEF Store!storeVars, Status, Durable

(* The steps that end a request with an error, or were about to. *)
LEMMA FailingSteps ==
    ASSUME IInv, NEW p \in Procs,
           \/ Refuse(p) \/ Recheck(p) \/ FailOutside(p) \/ FailInside(p)
           \/ InterruptCreate(p) \/ FailUnlock(p) \/ Kill(p)
    PROVE  Store!GiveUp(p) \/ UNCHANGED Store!storeVars
<1>1. \/ StatusOf(p) \in {"active", "applied"} /\ StatusOf(p)' = "stopped"
      \/ StatusOf(p)' = StatusOf(p)
  BY DEF IInv, TypeOK, Progress, Applied, StatusOf, Outcomes, Reading, Writing, Clearing,
         Goto, Decide, Refuse, Recheck, FailOutside, FailInside, InterruptCreate, FailUnlock,
         Kill
<1>2. CASE StatusOf(p)' = StatusOf(p)
  <2>1. Status' = Status
    BY <1>2, QuietStore DEF Status
  <2> QED BY <2>1, QuietStore DEF Store!storeVars, Status, Durable
<1>3. CASE StatusOf(p) \in {"active", "applied"} /\ StatusOf(p)' = "stopped"
  BY <1>3, QuietStore DEF Store!GiveUp, Status, Durable
<1> QED BY <1>1, <1>2, <1>3

(* The start of a command is the invocation of its request. *)
LEMMA BeginInvokes ==
    ASSUME IInv, NEW p \in Procs, Begin(p)
    PROVE  Store!Invoke(p)
<1>1. StatusOf(p) = "idle" /\ StatusOf(p)' = "active"
  BY DEF IInv, TypeOK, Progress, Applied, StatusOf, Outcomes, Clearing, Goto, Begin
<1> QED BY <1>1, QuietStore DEF Store!Invoke, Status, Durable

(* The rename is the instant at which the request is applied. *)
LEMMA RenameIsApply ==
    ASSUME IInv, NEW p \in Procs, Rename(p)
    PROVE  Store!Apply(p)
<1>1. StatusOf(p) = "active" /\ StatusOf(p)' = "applied"
  BY DEF IInv, TypeOK, Progress, Applied, StatusOf, Outcomes, Writing, Clearing, Goto, Rename
<1>2. \A q \in Procs \ {p} :
        pc'[q] = pc[q] /\ outcome'[q] = outcome[q] /\ phase'[q] = phase[q]
  BY DEF IInv, TypeOK, Goto, local, Rename
<1>3. Status' = [Status EXCEPT ![p] = "applied"]
  BY <1>1, <1>2, OneStatus DEF IInv
<1>4. Durable' = Durable \cup {Contents(entry)'}
  BY RenameApplies DEF Durable, Contents
<1>5. request' = request
  BY DEF Rename, local
<1> QED
  BY <1>1, <1>3, <1>4, <1>5, RenameApplies, SameView DEF Store!Apply, Status, Durable

(* The directory's fsync is the instant at which the request is durable. *)
LEMMA DirSyncIsFlush ==
    ASSUME IInv, NEW p \in Procs, DirSync(p)
    PROVE  Store!Flush(p)
<1>1. StatusOf(p) = "applied" /\ StatusOf(p)' = "applied"
  BY DEF IInv, TypeOK, Progress, Applied, StatusOf, Outcomes, Writing, Clearing, Goto, local,
         DirSync
<1>2. \A q \in Procs \ {p} :
        pc'[q] = pc[q] /\ outcome'[q] = outcome[q] /\ phase'[q] = phase[q]
  BY DEF IInv, TypeOK, Goto, local, DirSync
<1>3. Status' = Status
  BY <1>1, <1>2, OneStatus DEF IInv, Status
<1>4. Contents(entry)' = Contents(entry) /\ Durable' = {Contents(entry)}
  BY DEF DirSync, Contents, Durable
<1>5. request' = request
  BY DEF DirSync, local
<1> QED BY <1>1, <1>3, <1>4, <1>5 DEF Store!Flush, Status, Durable

(* The return of the mutation reports the request, which is durable by then. *)
LEMMA UnlockIsReport ==
    ASSUME IInv, NEW p \in Procs, Unlock(p), Applied(p)
    PROVE  Store!Report(p)
<1>1. StatusOf(p) = "applied" /\ StatusOf(p)' = "committed"
  BY DEF IInv, TypeOK, Applied, StatusOf, Outcomes, Goto, Decide, Leave, Unlock
<1>2. onDisk = {entry}
  BY DEF IInv, Progress, Unlock
<1>3. Durable' = {Contents(entry)}
  BY <1>2, QuietStore DEF Durable
<1> QED BY <1>1, <1>3, QuietStore DEF Store!Report, Status, Durable

(* A power loss of the file system is a power loss of the store. *)
LEMMA PowerLossIsPowerLoss ==
    ASSUME IInv, PowerLoss
    PROVE  Store!StorePowerLoss
<1>1. Contents(entry)' \in Durable /\ Durable' = {Contents(entry)'}
  BY PowerLossRestores DEF Durable, Contents
<1>2. ASSUME NEW p \in Procs
      PROVE  StatusOf(p)' = IF StatusOf(p) \in {"active", "applied"}
                            THEN "stopped" ELSE StatusOf(p)
  BY <1>2 DEF IInv, TypeOK, Progress, Applied, StatusOf, Outcomes, PowerLoss
<1>3. request' = request
  BY DEF PowerLoss
<1> QED BY <1>1, <1>2, <1>3 DEF Store!StorePowerLoss, Status, Durable

(* Every step of the processes is a step of the store, or none. *)
LEMMA StoreStep == IInv /\ [Next]_vars => [Store!StoreNext]_(Store!storeVars)
<1> SUFFICES ASSUME IInv, [Next]_vars
             PROVE  Store!StoreNext \/ UNCHANGED Store!storeVars
  OBVIOUS
<1>1. ASSUME NEW p \in Procs, Begin(p) \/ Step(p) \/ Fail(p)
      PROVE  \/ Store!Invoke(p) \/ Store!Apply(p) \/ Store!Flush(p) \/ Store!Report(p)
             \/ Store!GiveUp(p)
             \/ UNCHANGED Store!storeVars
  BY <1>1, BeginInvokes, RenameIsApply, DirSyncIsFlush, UnlockIsReport, FailingSteps, StillSteps
     DEF Step, Fail
<1>2. ASSUME UNCHANGED vars PROVE UNCHANGED Store!storeVars
  BY <1>2 DEF vars, Store!storeVars, Contents, StatusOf, Applied
<1> QED BY <1>1, <1>2, PowerLossIsPowerLoss DEF Next, Finished, Store!StoreNext

(* The system calls of `ainv set` implement the atomic, durable store (set_command,   *)
(* mutate_dotenv_many, _atomic_replace).                                              *)
THEOREM StoreImplemented == Spec => ImplementsStore
  BY StoreInits, StoreStep, InvCorrect, PTL DEF Spec, ImplementsStore, Store!StoreSpec

(* The theorems of DotenvStore, about the store that the files implement. *)
Promise == INSTANCE DotenvStoreProofs WITH
    doc <- Contents(entry),
    durable <- {Contents(f) : f \in onDisk},
    status <- [p \in Procs |-> StatusOf(p)]

(* A value reported as set survives power losses and is replaced only by a request    *)
(* entitled to, in the destination file itself (set_command after                     *)
(* mutate_dotenv_many returned).                                                      *)
THEOREM CommittedSurvivesInFile == Spec => []CommittedSurvives
<1>1. Store!StoreInit => Promise!StoreInv
  <2>1. Store!StoreInit => Promise!StoreInit
    BY DEF Store!StoreInit, Promise!StoreInit, Store!Docs, Promise!Docs, Store!Marks,
           Promise!Marks, Store!Requests, Promise!Requests, Store!Assignments,
           Promise!Assignments
  <2> QED BY <2>1, MarksAssumption, Promise!StoreInvInit
<1>2. Promise!StoreInv /\ [Store!StoreNext]_(Store!storeVars) => Promise!StoreInv'
  <2>1. [Store!StoreNext]_(Store!storeVars) => [Promise!StoreNext]_(Promise!storeVars)
    BY DEF Store!StoreNext, Promise!StoreNext, Store!storeVars, Promise!storeVars,
           Store!Invoke, Promise!Invoke, Store!Apply, Promise!Apply,
           Store!Flush, Promise!Flush, Store!Report, Promise!Report, Store!GiveUp, Promise!GiveUp,
           Store!StorePowerLoss, Promise!StorePowerLoss,
           Store!Acceptable, Promise!Acceptable, Store!Updated, Promise!Updated,
           Store!Targets, Promise!Targets
  <2> QED BY <2>1, MarksAssumption, Promise!StoreInvStep
<1>3. Promise!StoreInv => CommittedSurvives
  BY MarksAssumption, Promise!StoreInvSuffices
     DEF CommittedSurvives, Store!CommittedSurvives, Promise!CommittedSurvives,
         Store!Targets, Promise!Targets
<1> QED
  BY <1>1, <1>2, <1>3, StoreImplemented, PTL DEF ImplementsStore, Store!StoreSpec

-----------------------------------------------------------------------------
(* DotenvEditors: beside programs that do not take the lock.                         *)

(* The state that the actions change at one process or one file. *)
Functions ==
    /\ pc \in [Procs -> Calls] /\ outcome \in [Procs -> Outcomes]
    /\ seen \in [Procs -> Files \cup {NoFile}]
    /\ phase \in [Procs -> {"preflight", "mutate"}]
    /\ DOMAIN buf = Procs /\ DOMAIN data = Files
    /\ entry \in Files \cup {NoFile} /\ temps \subseteq Procs

(* Who has read the destination and not yet replaced it. *)
HasRead(p) == pc[p] \in {"validate"} \cup Writing

(* A file nobody has seen yet is nowhere. *)
Unused == spare \subseteq Foreign /\ entry \notin spare /\ \A p \in Procs : seen[p] \notin spare

(* What a process has established for its next calls. *)
Prepared(p) ==
    /\ pc[p] \in Writing => Acceptable(buf[p], request[p])
    /\ pc[p] \in Writing \ {"create"} => p \in temps
    /\ pc[p] \in {"close", "recheck", "rename"} => p \in synced
    /\ pc[p] \in Writing \cup {"dirsync"} => phase[p] = "mutate"
    /\ entry = p => Applied(p) \/ outcome[p] # "none"
    /\ outcome[p] # "none" => pc[p] \in Clearing \cup {"unlock", "done"}
    /\ outcome[p] = "killed" => pc[p] = "done"
    /\ seen[p] # p

(* What a process knows of the destination, but for the changes it cannot notice. *)
Knows(p) ==
    /\ HasRead(p) => p \in edited \/ buf[p] = Contents(seen[p])
    /\ pc[p] = "rename" => p \in moved \/ Unchanged(p)

(* The inductive invariant. *)
EditorsInv ==
    /\ Functions /\ LockDiscipline /\ Unused
    /\ \A p \in Procs : Prepared(p) /\ Knows(p)

-----------------------------------------------------------------------------
LEMMA EditorsInit == EditorInit => EditorsInv
<1> SUFFICES ASSUME EditorInit PROVE EditorsInv
  OBVIOUS
<1> USE FilesAssumption DEF EditorInit, Init
<1>1. Functions
  BY DEF Functions, Files, Calls, Outcomes
<1>2. LockDiscipline
  BY DEF LockDiscipline, Section, Reading, Writing, Clearing
<1>3. Unused
  BY DEF Unused
<1>4. \A p \in Procs : Prepared(p) /\ Knows(p)
  BY DEF Prepared, Applied, Knows, HasRead, Writing, Clearing
<1> QED BY <1>1, <1>2, <1>3, <1>4 DEF EditorsInv

-----------------------------------------------------------------------------
(* A call of one process: it leaves the others alone, and the lock to who holds it.   *)
Call(p) == Begin(p) \/ Step(p) \/ Fail(p)

LEMMA CallsAreLocal ==
    ASSUME EditorsInv, NEW p \in Procs, Call(p)
    PROVE  /\ Functions' /\ LockDiscipline'
           /\ \A q \in Procs \ {p} :
                /\ pc'[q] = pc[q] /\ outcome'[q] = outcome[q] /\ seen'[q] = seen[q]
                /\ buf'[q] = buf[q] /\ phase'[q] = phase[q]
           /\ request' = request /\ unsafe' = unsafe
           /\ \A q \in Procs \ {p} : q \in temps <=> q \in temps'
           /\ synced \subseteq synced'
           /\ entry' = entry \/ (pc[p] = "rename" /\ pc'[p] = "dirsync" /\ entry' = p)
           /\ \A f \in Files \ {p} : data'[f] = data[f]
           /\ pc[p] # "write" => data' = data
           /\ \A q \in Procs \ {p} : HasRead(q) => pc[p] \notin Section
<1> USE FilesAssumption
    DEF EditorsInv, Functions, LockDiscipline, Calls, Section, Reading, Writing, Clearing,
        Outcomes, Goto, Decide, Forget, Leave, disk, local, HasRead
<1>1. CASE Begin(p)
  BY <1>1 DEF Begin
<1>2. CASE Lock(p)
  BY <1>2 DEF Lock
<1>3. CASE Stat(p)
  BY <1>3 DEF Stat
<1>4. CASE Open(p)
  BY <1>4 DEF Open
<1>5. CASE Validate(p)
  BY <1>5 DEF Validate
<1>6. CASE Refuse(p)
  BY <1>6 DEF Refuse
<1>7. CASE Create(p) \/ Sync(p) \/ Close(p) \/ DirSync(p)
  BY <1>7 DEF Create, Sync, Close, DirSync
<1>8. CASE Write(p)
  BY <1>8 DEF Write, Files
<1>9. CASE Recheck(p)
  BY <1>9 DEF Recheck
<1>10. CASE Rename(p)
  BY <1>10 DEF Rename, Files
<1>11. CASE Reclose(p) \/ Cleanup(p)
  BY <1>11 DEF Reclose, Cleanup
<1>12. CASE Unlock(p)
  BY <1>12 DEF Unlock
<1>13. CASE Resolve(p)
  BY <1>13 DEF Resolve
<1>14. CASE FailOutside(p) \/ FailInside(p) \/ InterruptCreate(p) \/ FailUnlock(p)
  BY <1>14 DEF FailOutside, FailInside, InterruptCreate, FailUnlock
<1>15. CASE Kill(p)
  BY <1>15 DEF Kill
<1> QED
  BY <1>1, <1>2, <1>3, <1>4, <1>5, <1>6, <1>7, <1>8, <1>9, <1>10, <1>11, <1>12, <1>13, <1>14, <1>15
  DEF Call, Step, Fail

(* The process that makes the call: what it has established, and what it knows.       *)
LEMMA CallerKnows ==
    ASSUME EditorsInv, NEW p \in Procs, Call(p),
           moved' = moved \cap Rechecked',
           edited' = {q \in edited : pc'[q] \in {"validate"} \cup Writing}
    PROVE  Prepared(p)' /\ Knows(p)' /\ seen'[p] \in {seen[p], NoFile, entry}
<1> USE FilesAssumption
    DEF EditorsInv, Functions, Prepared, Knows, Unchanged, HasRead, Rechecked, Contents,
        Calls, Section, Reading, Writing, Clearing, Applied, Goto, Decide, Forget, Leave,
        disk, local
<1>0. p \in Files /\ p # NoFile
  BY DEF Files
<1>1. CASE Begin(p)
  BY <1>0, <1>1 DEF Begin
<1>2. CASE Lock(p)
  BY <1>0, <1>2 DEF Lock
<1>3. CASE Stat(p)
  BY <1>0, <1>3 DEF Stat
<1>4. CASE Open(p)
  BY <1>0, <1>4 DEF Open
<1>5. CASE Validate(p)
  BY <1>0, <1>5 DEF Validate
<1>6. CASE Refuse(p)
  BY <1>0, <1>6 DEF Refuse
<1>7. CASE Create(p) \/ Sync(p) \/ Close(p) \/ DirSync(p)
  BY <1>0, <1>7 DEF Create, Sync, Close, DirSync
<1>8. CASE Write(p)
  BY <1>0, <1>8 DEF Write
<1>9. CASE Recheck(p)
  BY <1>0, <1>9 DEF Recheck
<1>10. CASE Rename(p)
  BY <1>0, <1>10 DEF Rename
<1>11. CASE Reclose(p) \/ Cleanup(p)
  BY <1>0, <1>11 DEF Reclose, Cleanup
<1>12. CASE Unlock(p)
  BY <1>0, <1>12 DEF Unlock
<1>13. CASE Resolve(p)
  BY <1>0, <1>13 DEF Resolve
<1>14. CASE FailOutside(p) \/ FailInside(p) \/ InterruptCreate(p) \/ FailUnlock(p)
  BY <1>0, <1>14 DEF FailOutside, FailInside, InterruptCreate, FailUnlock
<1>15. CASE Kill(p)
  BY <1>0, <1>15 DEF Kill
<1> QED
  BY <1>1, <1>2, <1>3, <1>4, <1>5, <1>6, <1>7, <1>8, <1>9, <1>10, <1>11, <1>12, <1>13, <1>14, <1>15
  DEF Call, Step, Fail

(* What a call of p leaves to the others.                                             *)
LEMMA OthersKnow ==
    ASSUME EditorsInv, NEW p \in Procs, Call(p), NEW q \in Procs, q # p,
           moved' = moved \cap Rechecked',
           edited' = {r \in edited : pc'[r] \in {"validate"} \cup Writing}
    PROVE  Prepared(q)' /\ Knows(q)'
<1>1. /\ pc'[q] = pc[q] /\ outcome'[q] = outcome[q] /\ seen'[q] = seen[q] /\ buf'[q] = buf[q]
      /\ phase'[q] = phase[q]
      /\ q \in temps <=> q \in temps'
      /\ synced \subseteq synced' /\ request' = request /\ unsafe' = unsafe
      /\ entry' = entry \/ (pc[p] = "rename" /\ entry' = p)
      /\ HasRead(q) => pc[p] \notin Section
      /\ pc[p] # "write" => data' = data
  BY CallsAreLocal
<1>2. Prepared(q) /\ Knows(q)
  BY DEF EditorsInv
<1>3. Prepared(q)'
  BY <1>1, <1>2 DEF Prepared, Applied
<1>4. (HasRead(q)' <=> HasRead(q)) /\ (pc'[q] = "rename" => HasRead(q))
  BY <1>1 DEF HasRead, Writing
<1>5. CASE ~HasRead(q)
  BY <1>3, <1>4, <1>5 DEF Knows
<1>6. CASE HasRead(q)
  <2>1. entry' = entry /\ data' = data
    BY <1>1, <1>6 DEF Section, Writing
  <2>2. Contents(seen[q])' = Contents(seen[q])
    BY <1>1, <2>1 DEF Contents
  <2>3. q \in edited => q \in edited'
    BY <1>4, <1>6 DEF HasRead
  <2>4. pc'[q] = "rename" => q \in moved' \/ Unchanged(q)'
    BY <1>1, <1>2, <2>1 DEF Knows, Unchanged, Rechecked
  <2>5. buf'[q] = buf[q] /\ (q \in edited \/ buf[q] = Contents(seen[q]))
    BY <1>1, <1>2, <1>6 DEF Knows
  <2> QED BY <1>3, <2>2, <2>3, <2>4, <2>5 DEF Knows
<1> QED BY <1>5, <1>6

-----------------------------------------------------------------------------
(* A change by an editor: it touches no process.                                      *)
Edit == (\E f \in Foreign : EditorSaves(f)) \/ EditorRemoves \/ EditorWrites \/ EditorLinks

LEMMA EditStep == ASSUME EditorsInv, Edit PROVE EditorsInv'
<1> USE FilesAssumption DEF local
<1>1. UNCHANGED <<lock, pc, phase, seen, buf, request, outcome, temps, synced>>
  BY DEF Edit, EditorSaves, EditorRemoves, EditorWrites, EditorLinks
<1>2. /\ Functions /\ LockDiscipline /\ Unused
      /\ \A p \in Procs : Prepared(p) /\ Knows(p)
  BY DEF EditorsInv
<1>3. LockDiscipline'
  BY <1>1, <1>2 DEF LockDiscipline
<1>4. /\ entry' \in Foreign \cup {NoFile, entry}
      /\ Functions' /\ Unused'
  BY <1>1, <1>2 DEF Edit, EditorSaves, EditorRemoves, EditorWrites, EditorLinks, Functions,
                    Unused, Files
<1>5. \A p \in Procs : Prepared(p)'
  BY <1>1, <1>2, <1>4, FilesAssumption DEF Prepared, Applied
<1>6. ASSUME NEW p \in Procs PROVE Knows(p)'
  <2>1. Knows(p) /\ seen[p] \in Files \cup {NoFile} /\ seen[p] \notin spare
    BY <1>2 DEF Functions, Unused
  <2>2. (HasRead(p)' <=> HasRead(p)) /\ buf'[p] = buf[p] /\ seen'[p] = seen[p]
    BY <1>1 DEF HasRead
  <2>3. ASSUME Contents(seen[p])' = Contents(seen[p]), edited \subseteq edited',
               pc'[p] = "rename" => p \in moved' \/ Unchanged(p)'
        PROVE  Knows(p)'
    BY <2>1, <2>2, <2>3 DEF Knows
  <2>4. ASSUME NEW f \in Foreign, EditorSaves(f) PROVE Knows(p)'
    <3>1. Contents(seen[p])' = Contents(seen[p])
      BY <1>2, <2>1, <2>2, <2>4 DEF EditorSaves, Contents, Functions
    <3>2. (pc'[p] = "rename" => p \in moved') /\ edited' = edited
      BY <1>1, <2>4 DEF EditorSaves, Rechecked
    <3> QED BY <2>3, <3>1, <3>2
  <2>5. CASE EditorRemoves
    <3>1. Contents(seen[p])' = Contents(seen[p])
      BY <2>2, <2>5 DEF EditorRemoves, Contents
    <3>2. (pc'[p] = "rename" => p \in moved') /\ edited' = edited
      BY <1>1, <2>5 DEF EditorRemoves, Rechecked
    <3> QED BY <2>3, <3>1, <3>2
  <2>6. CASE EditorLinks
    <3>1. Contents(seen[p])' = Contents(seen[p])
      BY <2>2, <2>6 DEF EditorLinks, Contents
    <3>2. (pc'[p] = "rename" => p \in moved') /\ edited' = edited
      BY <1>1, <2>6 DEF EditorLinks, Rechecked
    <3> QED BY <2>3, <3>1, <3>2
  <2>7. CASE EditorWrites
    <3>1. edited \subseteq edited' /\ (pc'[p] = "rename" => p \in moved' \/ Unchanged(p)')
      BY <1>1, <2>1, <2>7 DEF EditorWrites, Knows, Unchanged
    <3>2. CASE seen[p] = entry
      <4>1. HasRead(p) => p \in edited'
        BY <2>7, <3>2 DEF EditorWrites, HaveRead, HasRead
      <4> QED BY <2>2, <3>1, <4>1 DEF Knows
    <3>3. CASE seen[p] # entry
      <4>1. Contents(seen[p])' = Contents(seen[p])
        BY <1>2, <2>1, <2>2, <2>7, <3>3 DEF EditorWrites, Contents, Functions
      <4> QED BY <2>3, <3>1, <4>1
    <3> QED BY <3>2, <3>3
  <2> QED BY <2>4, <2>5, <2>6, <2>7 DEF Edit
<1> QED BY <1>3, <1>4, <1>5, <1>6 DEF EditorsInv

LEMMA EditorsStep == EditorsInv /\ [EditorNext]_<<vars, editorVars>> => EditorsInv'
<1> SUFFICES ASSUME EditorsInv, [EditorNext]_<<vars, editorVars>> PROVE EditorsInv'
  OBVIOUS
<1>1. ASSUME NEW p \in Procs, Call(p), moved' = moved \cap Rechecked',
             edited' = {q \in edited : pc'[q] \in {"validate"} \cup Writing},
             UNCHANGED spare
      PROVE  EditorsInv'
  <2>1. /\ Functions' /\ LockDiscipline'
        /\ \A q \in Procs \ {p} : seen'[q] = seen[q]
        /\ entry' = entry \/ entry' = p
    BY <1>1, CallsAreLocal
  <2>2. Prepared(p)' /\ Knows(p)' /\ seen'[p] \in {seen[p], NoFile, entry}
    BY <1>1, CallerKnows
  <2>3. \A q \in Procs \ {p} : Prepared(q)' /\ Knows(q)'
    BY <1>1, OthersKnow
  <2>4. Unused'
    BY <1>1, <2>1, <2>2, FilesAssumption DEF EditorsInv, Unused
  <2> QED BY <2>1, <2>2, <2>3, <2>4 DEF EditorsInv
<1>2. CASE Edit
  BY <1>2, EditStep
<1>3. CASE UNCHANGED <<vars, editorVars>>
  BY <1>3 DEF EditorsInv, Functions, LockDiscipline, Unused, Prepared, Applied, Knows,
              HasRead, Unchanged, Contents, vars, editorVars
<1> QED BY <1>1, <1>2, <1>3 DEF EditorNext, Call, Edit, Finished

LEMMA EditorsInvariant == EditorSpec => []EditorsInv
BY EditorsInit, EditorsStep, PTL DEF EditorSpec

-----------------------------------------------------------------------------
(* Only a replacement after the recheck, or an edit in place after the read, can be   *)
(* lost to a program that does not take the lock (_destination_is_unchanged).         *)
THEOREM LateChangesOnly == EditorSpec => []OnlyLateChangesAreLost
<1>1. EditorsInv => OnlyLateChangesAreLost
  BY DEF EditorsInv, OnlyLateChangesAreLost, Rechecked, Knows, HasRead, Writing, Unchanged
<1> QED BY <1>1, EditorsInvariant, PTL

(* What a process makes of the destination is its own temporary file, whole, synced   *)
(* and accepted, also beside programs that do not take the lock (_atomic_replace).    *)
THEOREM RenamesPublish == EditorSpec => OnlyRenamesPublish
<1> DEFINE Published ==
      \A p \in Procs :
         (pc'[p] # pc[p] /\ Contents(entry)' # Contents(entry)) =>
            /\ entry' = p /\ p \in temps /\ p \in synced
            /\ outcome[p] = "none" /\ Acceptable(buf[p], request[p])
<1>1. EditorsInv /\ [EditorNext]_<<vars, editorVars>> => [Published]_vars
  <2> SUFFICES ASSUME EditorsInv, EditorNext, NEW p \in Procs, pc'[p] # pc[p],
                      Contents(entry)' # Contents(entry)
               PROVE  /\ entry' = p /\ p \in temps /\ p \in synced
                      /\ outcome[p] = "none" /\ Acceptable(buf[p], request[p])
    BY DEF vars, editorVars
  <2>1. Call(p)
    <3>1. ~Edit /\ ~Finished
      BY DEF Edit, EditorSaves, EditorRemoves, EditorWrites, EditorLinks, Finished, vars
    <3>2. PICK q \in Procs : Call(q)
      BY <3>1 DEF EditorNext, Edit, Call
    <3> QED BY <3>2, CallsAreLocal
  <2>2. Prepared(p) /\ Functions
    BY DEF EditorsInv
  <2>3. entry' # entry
    <3>1. SUFFICES ASSUME entry' = entry PROVE FALSE
      OBVIOUS
    <3>2. data' # data /\ entry # NoFile /\ pc[p] = "write"
      BY <2>1, <3>1, CallsAreLocal DEF Contents
    <3>3. entry # p
      BY <2>2, <3>2 DEF Prepared, Applied, Clearing
    <3>4. data'[entry] = data[entry]
      BY <2>1, <2>2, <3>2, <3>3, CallsAreLocal DEF Functions
    <3> QED BY <3>1, <3>4 DEF Contents
  <2>4. pc[p] = "rename" /\ entry' = p
    BY <2>1, <2>3, CallsAreLocal
  <2> QED BY <2>2, <2>4 DEF Prepared, Writing, Clearing
<1> QED BY <1>1, EditorsInvariant, PTL DEF EditorSpec, OnlyRenamesPublish

-----------------------------------------------------------------------------
(* DotenvTemporaries: the temporary files.                                           *)

(* Where the temporary file of p may be: with its maker, or left behind for a reason. *)
Excused(p) ==
    \/ pc[p] \in Writing \cup Clearing
    \/ outcome[p] = "killed"
    \/ p \in broken

(* A call of one process leaves no temporary file but for one of the reasons. *)
LEMMA CallsClearUp ==
    ASSUME EditorsInv, NEW p \in Procs, Call(p), NEW q \in temps',
           \A r \in temps : Excused(r), broken' = broken \cup {r \in Procs : Breaks(r)}
    PROVE  Excused(q)'
<1>0. q \in Procs
  BY CallsAreLocal DEF Functions
<1>1. CASE q # p
  <2>1. q \in temps /\ pc'[q] = pc[q] /\ outcome'[q] = outcome[q]
    BY <1>0, <1>1, CallsAreLocal
  <2> QED BY <2>1 DEF Excused
<1>2. CASE q = p
  <2>0. p \in temps => Excused(p)
    OBVIOUS
  <2> USE DEF EditorsInv, Functions, Prepared, Excused, Reading, Writing, Clearing, Goto,
              Decide, Leave, disk, local
  <2>1. CASE Begin(p) \/ Lock(p) \/ Resolve(p)
    BY <1>2, <2>0, <2>1 DEF Begin, Lock, Resolve
  <2>2. CASE Stat(p) \/ Open(p) \/ Validate(p) \/ Refuse(p)
    BY <1>2, <2>0, <2>2 DEF Stat, Open, Validate, Refuse
  <2>3. CASE Create(p) \/ Write(p) \/ Sync(p) \/ Close(p)
    BY <1>2, <2>0, <2>3 DEF Create, Write, Sync, Close
  <2>4. CASE Recheck(p)
    BY <1>2, <2>0, <2>4 DEF Recheck
  <2>5. CASE Rename(p)
    BY <1>2, <2>5 DEF Rename
  <2>6. CASE DirSync(p) \/ Reclose(p) \/ Cleanup(p)
    BY <1>2, <2>0, <2>6 DEF DirSync, Reclose, Cleanup
  <2>7. CASE Unlock(p)
    BY <1>2, <2>0, <2>7 DEF Unlock
  <2>8. CASE FailOutside(p) \/ FailUnlock(p) \/ Kill(p)
    BY <1>2, <2>0, <2>8 DEF FailOutside, FailUnlock, Kill
  <2>9. CASE InterruptCreate(p)
    <3>1. Breaks(p)
      BY <2>9 DEF Breaks, InterruptCreate
    <3> QED BY <1>2, <3>1
  <2>10. CASE FailInside(p) /\ pc[p] \in Clearing \cup {"create", "close"}
    <3>1. Breaks(p)
      BY <2>10 DEF Breaks
    <3> QED BY <1>2, <3>1
  <2>11. CASE FailInside(p) /\ pc[p] \in {"write", "sync", "recheck", "rename"}
    BY <1>2, <2>11 DEF FailInside
  <2>12. CASE FailInside(p) /\ pc[p] \in Reading \cup {"dirsync"}
    BY <1>2, <2>0, <2>12 DEF FailInside
  <2> QED
    BY <2>1, <2>2, <2>3, <2>4, <2>5, <2>6, <2>7, <2>8, <2>9, <2>10, <2>11, <2>12
    DEF Call, Step, Fail, FailInside
<1> QED BY <1>1, <1>2

(* A temporary file stays behind only where the process was killed, Ctrl-C hit its   *)
(* creation, or the close or the clean-up itself broke: a failing write, fsync,      *)
(* recheck or rename is cleaned up after (the `finally` of _atomic_replace).         *)
THEOREM NoPlaintextLeftHolds == TemporariesSpec => []NoPlaintextLeft
<1>1. TemporariesInit => NoPlaintextLeft
  BY DEF TemporariesInit, EditorInit, Init, NoPlaintextLeft
<1>2. EditorsInv /\ NoPlaintextLeft /\ [TemporariesNext]_temporariesVars
        => NoPlaintextLeft'
  <2> SUFFICES ASSUME EditorsInv, NoPlaintextLeft, [TemporariesNext]_temporariesVars,
                      NEW q \in temps'
               PROVE  Excused(q)'
    BY DEF NoPlaintextLeft, Excused
  <2>0. \A p \in temps : Excused(p)
    BY DEF NoPlaintextLeft, Excused
  <2>1. ASSUME NEW p \in Procs, Call(p), TemporariesNext PROVE Excused(q)'
    BY <2>0, <2>1, CallsClearUp DEF TemporariesNext
  <2>2. CASE Edit /\ TemporariesNext
    <3>1. UNCHANGED <<pc, outcome, temps>>
      BY <2>2 DEF Edit, EditorSaves, EditorRemoves, EditorWrites, EditorLinks
    <3>2. broken \subseteq broken'
      BY <2>2 DEF TemporariesNext
    <3> QED BY <2>0, <3>1, <3>2 DEF Excused
  <2>3. CASE UNCHANGED vars /\ broken \subseteq broken'
    BY <2>0, <2>3 DEF Excused, vars
  <2> QED
    BY <2>1, <2>2, <2>3 DEF TemporariesNext, temporariesVars, EditorNext, Edit, Call, Finished
<1>3. TemporariesSpec => EditorSpec
  <2>1. TemporariesInit => EditorInit
    BY DEF TemporariesInit
  <2>2. [TemporariesNext]_temporariesVars => [EditorNext]_<<vars, editorVars>>
    BY DEF TemporariesNext, temporariesVars, vars, editorVars
  <2> QED BY <2>1, <2>2, PTL DEF TemporariesSpec, EditorSpec
<1> QED BY <1>1, <1>2, <1>3, EditorsInvariant, PTL DEF TemporariesSpec

=============================================================================
