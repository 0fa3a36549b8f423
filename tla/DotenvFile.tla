----------------------------- MODULE DotenvFile -----------------------------
(***************************************************************************)
(* `ainv set` processes writing one dotenv file: the two passes over the   *)
(* destination (validate_dotenv_destinations, then mutate_dotenv_many once *)
(* the credentials are resolved), each under the directory lock, with one  *)
(* step per system call, so that processes interleave, fail, are killed    *)
(* and lose power between any two calls.                                   *)
(*                                                                         *)
(* A file is a directory-independent object (an inode).  A process writes  *)
(* at most one temporary file, so that file is named after the process.    *)
(***************************************************************************)
EXTENDS DotenvView

CONSTANTS
    Procs,      \* the `ainv set` invocations
    Foreign,    \* files ainv did not write
    NoFile,     \* the destination does not exist
    Free,       \* nobody holds the directory lock
    Faults      \* which of "kill", "power" and "interrupt" (in os.open) may happen

ASSUME FilesAssumption ==
    /\ NoFile \notin Procs \cup Foreign
    /\ Free \notin Procs
    /\ Procs \cap Foreign = {}

Files == Procs \cup Foreign

VARIABLES
    entry,      \* the file the destination's name refers to, or NoFile
    onDisk,     \* what that name may refer to after a power loss
    data,       \* data[f]: the document f holds
    synced,     \* the files whose content survives a power loss
    unsafe,     \* the files that are not regular, single-linked and the user's own
    temps,      \* the processes whose temporary file is in the directory
    lock,       \* the process that holds the directory lock, or Free
    phase,      \* phase[p]: "preflight" or "mutate"
    pc,         \* pc[p]: the system call p is about to make
    seen,       \* seen[p]: the file p's stat of the destination returned
    buf,        \* buf[p]: the document p read
    request,    \* request[p]: p's names, --force, and what the credentials resolve to
    outcome     \* outcome[p]: "none" until p's exit is decided

disk == <<entry, onDisk, data, synced, unsafe, temps>>
local == <<phase, seen, buf, request>>
vars == <<entry, onDisk, data, synced, unsafe, temps, lock, phase, pc, seen, buf,
          request, outcome>>

(* Before the rename, the calls whose failure leaves the destination alone. *)
Reading == {"stat", "open", "validate"}
Writing == {"create", "write", "sync", "close", "recheck", "rename"}

(* The two calls of the `finally` of _atomic_replace: the close of a descriptor *)
(* that is still open, then the unlink of the temporary file.                   *)
Clearing == {"reclose", "cleanup"}

(* The body of `with _directory_lock(...)`, and its `finally`. *)
Section == Reading \cup Writing \cup Clearing \cup {"dirsync", "unlock"}

Calls == {"idle", "lock", "resolve", "done"} \cup Section

Outcomes == {"none", "committed", "failed", "killed"}

TypeOK ==
    /\ entry \in Files \cup {NoFile}
    /\ onDisk \in SUBSET (Files \cup {NoFile})
    /\ data \in [Files -> Docs]
    /\ synced \in SUBSET Files
    /\ unsafe \in SUBSET Files
    /\ temps \in SUBSET Procs
    /\ lock \in Procs \cup {Free}
    /\ phase \in [Procs -> {"preflight", "mutate"}]
    /\ pc \in [Procs -> Calls]
    /\ seen \in [Procs -> Files \cup {NoFile}]
    /\ buf \in [Procs -> Docs]
    /\ request \in [Procs -> Requests]
    /\ outcome \in [Procs -> Outcomes]

Contents(f) == IF f = NoFile THEN Blank ELSE data[f]

Init ==
    /\ entry \in Foreign \cup {NoFile}
    /\ onDisk = {entry}
    /\ data \in {d \in [Files -> Docs] : \A f \in Files \ {entry} : d[f] = Garbled}
    /\ synced = Foreign
    /\ unsafe \in SUBSET ({entry} \cap Foreign)
    /\ temps = {}
    /\ lock = Free
    /\ phase = [p \in Procs |-> "preflight"]
    /\ pc = [p \in Procs |-> "idle"]
    /\ seen = [p \in Procs |-> NoFile]
    /\ buf = [p \in Procs |-> Blank]
    /\ request \in [Procs -> Requests]
    /\ outcome = [p \in Procs |-> "none"]

-----------------------------------------------------------------------------
Goto(p, to) == pc' = [pc EXCEPT ![p] = to]

Decide(p, how) == outcome' = [outcome EXCEPT ![p] = how]

(* What a pass read is in local variables, gone when the pass ends. *)
Forget(p) ==
    /\ seen' = [seen EXCEPT ![p] = NoFile]
    /\ buf' = [buf EXCEPT ![p] = Blank]

(* The command starts; its bindings are parsed without touching the directory. *)
Begin(p) ==
    /\ pc[p] = "idle"
    /\ Goto(p, "lock")
    /\ UNCHANGED <<disk, lock, local, outcome>>

(* Wrong on purpose: a shared lock, which several processes hold at once. *)
LockShared(p) ==
    /\ pc[p] = "lock"
    /\ lock' = p
    /\ Goto(p, "stat")
    /\ UNCHANGED <<disk, local, outcome>>

(* Wrong on purpose: the mutation trusts the preflight and does not read again. *)
LockWithoutReread(p) ==
    /\ pc[p] = "lock"
    /\ lock = Free
    /\ lock' = p
    /\ Goto(p, IF phase[p] = "mutate" THEN "create" ELSE "stat")
    /\ UNCHANGED <<disk, local, outcome>>

(* flock(LOCK_EX) on the directory blocks until nobody holds it. *)
Lock(p) ==
    /\ pc[p] = "lock"
    /\ lock = Free
    /\ lock' = p
    /\ Goto(p, "stat")
    /\ UNCHANGED <<disk, local, outcome>>

(* A missing destination reads as an empty document; an unsafe one is refused. *)
Stat(p) ==
    /\ pc[p] = "stat"
    /\ entry \notin unsafe
    /\ seen' = [seen EXCEPT ![p] = entry]
    /\ IF entry = NoFile
       THEN /\ buf' = [buf EXCEPT ![p] = Blank]
            /\ Goto(p, "validate")
       ELSE /\ Goto(p, "open")
            /\ UNCHANGED buf
    /\ UNCHANGED <<disk, lock, phase, request, outcome>>

(* open(O_NOFOLLOW), fstat against the listed inode, and read. *)
Open(p) ==
    /\ pc[p] = "open"
    /\ entry = seen[p]
    /\ entry \notin unsafe
    /\ buf' = [buf EXCEPT ![p] = Contents(entry)]
    /\ Goto(p, "validate")
    /\ UNCHANGED <<disk, lock, phase, seen, request, outcome>>

(* Wrong on purpose: only the preflight validates the targets. *)
ValidateOnce(p) ==
    /\ pc[p] = "validate"
    /\ phase[p] = "preflight" => Acceptable(buf[p], request[p])
    /\ Goto(p, IF phase[p] = "preflight" THEN "unlock" ELSE "create")
    /\ UNCHANGED <<disk, lock, local, outcome>>

(* The preflight stops here and gives the lock back; the mutation goes on to write. *)
Validate(p) ==
    /\ pc[p] = "validate"
    /\ Acceptable(buf[p], request[p])
    /\ Goto(p, IF phase[p] = "preflight" THEN "unlock" ELSE "create")
    /\ UNCHANGED <<disk, lock, local, outcome>>

(* Any check above that does not hold: an error that leaves the section. *)
Refuse(p) ==
    /\ \/ pc[p] = "stat" /\ entry \in unsafe
       \/ pc[p] = "open" /\ (entry # seen[p] \/ entry \in unsafe)
       \/ pc[p] = "validate" /\ ~Acceptable(buf[p], request[p])
    /\ Goto(p, "unlock")
    /\ Decide(p, "failed")
    /\ UNCHANGED <<disk, lock, local>>

(* open(O_CREAT | O_EXCL) of a randomly named temporary file, and fchmod. *)
Create(p) ==
    /\ pc[p] = "create"
    /\ temps' = temps \cup {p}
    /\ Goto(p, "write")
    /\ UNCHANGED <<entry, onDisk, data, synced, unsafe, lock, local, outcome>>

Write(p) ==
    /\ pc[p] = "write"
    /\ data' = [data EXCEPT ![p] = Updated(buf[p], request[p])]
    /\ Goto(p, "sync")
    /\ UNCHANGED <<entry, onDisk, synced, unsafe, temps, lock, local, outcome>>

(* Wrong on purpose: the data is left to the kernel. *)
SyncSkipped(p) ==
    /\ pc[p] = "sync"
    /\ Goto(p, "close")
    /\ UNCHANGED <<disk, lock, local, outcome>>

(* fsync of the temporary file, before its name can become the destination's. *)
Sync(p) ==
    /\ pc[p] = "sync"
    /\ synced' = synced \cup {p}
    /\ Goto(p, "close")
    /\ UNCHANGED <<entry, onDisk, data, unsafe, temps, lock, local, outcome>>

(* os.close of the temporary file: from here on no descriptor is left to close. *)
Close(p) ==
    /\ pc[p] = "close"
    /\ Goto(p, "recheck")
    /\ UNCHANGED <<disk, lock, local, outcome>>

(* Wrong on purpose: a destination that was missing is not looked at again. *)
UnchangedIfRead(p) == seen[p] = NoFile \/ (entry = seen[p] /\ entry \notin unsafe)

(* _destination_is_unchanged: still missing, or still the same safe inode. *)
Unchanged(p) == entry = seen[p] /\ entry \notin unsafe

Recheck(p) ==
    /\ pc[p] = "recheck"
    /\ IF Unchanged(p)
       THEN Goto(p, "rename") /\ UNCHANGED outcome
       ELSE Goto(p, "cleanup") /\ Decide(p, "failed")
    /\ UNCHANGED <<disk, lock, local>>

(* os.replace: atomic for readers, durable only once the directory is synced. *)
Rename(p) ==
    /\ pc[p] = "rename"
    /\ entry' = p
    /\ onDisk' = onDisk \cup {p}
    /\ temps' = temps \ {p}
    /\ Goto(p, "dirsync")
    /\ UNCHANGED <<data, synced, unsafe, lock, local, outcome>>

(* Wrong on purpose: success is reported without syncing the directory. *)
DirSyncSkipped(p) ==
    /\ pc[p] = "dirsync"
    /\ Goto(p, "unlock")
    /\ UNCHANGED <<disk, lock, local, outcome>>

DirSync(p) ==
    /\ pc[p] = "dirsync"
    /\ onDisk' = {entry}
    /\ Goto(p, "unlock")
    /\ UNCHANGED <<entry, data, synced, unsafe, temps, lock, local, outcome>>

(* The `finally` of _atomic_replace after an error before or in the close. *)
Reclose(p) ==
    /\ pc[p] = "reclose"
    /\ Goto(p, "cleanup")
    /\ UNCHANGED <<disk, lock, local, outcome>>

Cleanup(p) ==
    /\ pc[p] = "cleanup"
    /\ temps' = temps \ {p}
    /\ Goto(p, "unlock")
    /\ UNCHANGED <<entry, onDisk, data, synced, unsafe, lock, local, outcome>>

(* The preflight goes on to resolve; a mutation that returns is reported as done. *)
Leave(p) ==
    IF outcome[p] = "none" /\ phase[p] = "preflight"
    THEN Goto(p, "resolve") /\ UNCHANGED outcome
    ELSE /\ Goto(p, "done")
         /\ IF outcome[p] = "none" THEN Decide(p, "committed") ELSE UNCHANGED outcome

(* Wrong on purpose: an error leaves the section without giving the lock back. *)
UnlockOnSuccessOnly(p) ==
    /\ pc[p] = "unlock"
    /\ lock' = IF outcome[p] = "failed" THEN lock ELSE Free
    /\ Leave(p)
    /\ Forget(p)
    /\ UNCHANGED <<disk, phase, request>>

(* The `finally` of _directory_lock, whether the body returned or raised. *)
Unlock(p) ==
    /\ pc[p] = "unlock"
    /\ lock' = Free
    /\ Leave(p)
    /\ Forget(p)
    /\ UNCHANGED <<disk, phase, request>>

(* Between the passes, without the lock: Git policy, approval, provider lookups. *)
Resolve(p) ==
    /\ pc[p] = "resolve"
    /\ phase' = [phase EXCEPT ![p] = "mutate"]
    /\ Goto(p, "lock")
    /\ UNCHANGED <<disk, lock, seen, buf, request, outcome>>

(* A system call fails or Ctrl-C arrives: outside the lock the command just ends, *)
(* inside it the error runs the `finally` blocks that are open at that point.     *)
FailOutside(p) ==
    /\ pc[p] \in {"lock", "resolve"}
    /\ Goto(p, "done")
    /\ Decide(p, "failed")
    /\ UNCHANGED <<disk, lock, local>>

(* Wrong on purpose: a write error does not remove the temporary file. *)
FailWithoutCleanup(p) ==
    /\ pc[p] \in Reading \cup Writing \cup Clearing \cup {"dirsync"}
    /\ Goto(p, "unlock")
    /\ Decide(p, "failed")
    /\ UNCHANGED <<disk, lock, local>>

(* The last case is the clean-up that does not happen: a close that fails has given *)
(* the descriptor back all the same, so that the second close, in the `finally`,    *)
(* raises before the unlink; that close or the unlink fails itself; or Ctrl-C.      *)
FailInside(p) ==
    /\ \/ pc[p] \in Reading \cup {"create", "dirsync"} /\ Goto(p, "unlock")
       \/ pc[p] \in {"write", "sync", "close"} /\ Goto(p, "reclose")
       \/ pc[p] \in {"recheck", "rename"} /\ Goto(p, "cleanup")
       \/ pc[p] \in Clearing \cup {"close"} /\ Goto(p, "unlock")
    /\ Decide(p, "failed")
    /\ UNCHANGED <<disk, lock, local>>

(* Ctrl-C when os.open has made the file, but its name is not yet in a variable. *)
InterruptCreate(p) ==
    /\ "interrupt" \in Faults
    /\ pc[p] = "create"
    /\ temps' = temps \cup {p}
    /\ Goto(p, "unlock")
    /\ Decide(p, "failed")
    /\ UNCHANGED <<entry, onDisk, data, synced, unsafe, lock, local>>

(* LOCK_UN or the close after it fails: the lock is given back, at the latest when *)
(* the command exits, but what was written is not reported as done.                *)
FailUnlock(p) ==
    /\ pc[p] = "unlock"
    /\ lock' = Free
    /\ Goto(p, "done")
    /\ Decide(p, "failed")
    /\ Forget(p)
    /\ UNCHANGED <<disk, phase, request>>

-----------------------------------------------------------------------------
(* SIGKILL: no `finally` runs; the kernel closes the descriptor and drops the lock. *)
Kill(p) ==
    /\ "kill" \in Faults
    /\ pc[p] \notin {"idle", "done"}
    /\ lock' = IF lock = p THEN Free ELSE lock
    /\ Goto(p, "done")
    /\ Decide(p, "killed")
    /\ Forget(p)
    /\ UNCHANGED <<disk, phase, request>>

(* Every process that is running dies; the name comes back as one of the entries  *)
(* a rename may have left, a temporary name may be lost or come back with it, and *)
(* a file that was never synced comes back with anything in it.                   *)
PowerLoss ==
    /\ "power" \in Faults
    /\ entry' \in onDisk
    /\ onDisk' = {entry'}
    /\ data' = [f \in Files |-> IF f \in synced THEN data[f] ELSE Garbled]
    /\ temps' \in SUBSET (temps \cup ((onDisk \cap Procs) \ {entry'}))
    /\ lock' = Free
    /\ pc' = [p \in Procs |-> IF pc[p] = "idle" THEN "idle" ELSE "done"]
    /\ outcome' = [p \in Procs |->
                     IF pc[p] \in {"idle", "done"} THEN outcome[p] ELSE "killed"]
    /\ seen' = [p \in Procs |-> NoFile]
    /\ buf' = [p \in Procs |-> Blank]
    /\ UNCHANGED <<synced, unsafe, phase, request>>

Finished ==
    /\ \A p \in Procs : pc[p] = "done"
    /\ UNCHANGED vars

(* The steps the program takes by itself; failures and kills are the environment's. *)
Step(p) ==
    \/ Lock(p) \/ Stat(p) \/ Open(p) \/ Validate(p) \/ Refuse(p)
    \/ Create(p) \/ Write(p) \/ Sync(p) \/ Close(p) \/ Recheck(p) \/ Rename(p)
    \/ DirSync(p) \/ Reclose(p) \/ Cleanup(p) \/ Unlock(p) \/ Resolve(p)

Fail(p) ==
    FailOutside(p) \/ FailInside(p) \/ InterruptCreate(p) \/ FailUnlock(p) \/ Kill(p)

Next ==
    \/ \E p \in Procs : Begin(p) \/ Step(p) \/ Fail(p)
    \/ PowerLoss
    \/ Finished

Spec == Init /\ [][Next]_vars

(* A process that can make its next call makes it.  The person who answers the  *)
(* approval dialog and the Keychain are part of Resolve: they answer eventually. *)
FairSpec == Spec /\ \A p \in Procs : WF_vars(Step(p))

-----------------------------------------------------------------------------
Populated(mark) == mark \in Values

(* The directory lock is held exactly by the process inside the section, so at most *)
(* one process is between its stat of the destination and its last fsync, and       *)
(* nobody holds the lock while a person or the Keychain is asked (_directory_lock). *)
LockDiscipline ==
    \A p \in Procs : lock = p <=> pc[p] \in Section

(* From the read to the rename the document a process computes from is still the    *)
(* destination's: a cooperating process never works on a stale read.                *)
ReadIsCurrent ==
    \A p \in Procs :
        pc[p] \in {"validate"} \cup Writing =>
            seen[p] = entry /\ buf[p] = Contents(entry)

(* Whenever the power goes, the name comes back as a file whose content is on disk: *)
(* _atomic_replace syncs the temporary file before the rename makes it reachable.   *)
PowerLossLeavesWholeFile == onDisk \subseteq synced \cup {NoFile}

(* The rename is done, and the command is still to end. *)
Applied(p) ==
    /\ outcome[p] = "none"
    /\ pc[p] = "dirsync" \/ (pc[p] = "unlock" /\ phase[p] = "mutate")

(* What each call of a process has established for the calls after it: with the       *)
(* invariants above, enough to be inductive.                                          *)
Progress ==
    \A p \in Procs :
        /\ pc[p] \in Writing => Acceptable(buf[p], request[p])
        /\ pc[p] \in Writing \cup {"dirsync"} => phase[p] = "mutate"
        /\ pc[p] \in {"sync", "close", "recheck", "rename"} =>
               data[p] = Updated(buf[p], request[p])
        /\ pc[p] \in {"close", "recheck", "rename"} => p \in synced
        /\ p \in onDisk => Applied(p) \/ outcome[p] # "none"
        /\ Applied(p) /\ pc[p] = "unlock" => onDisk = {entry}
        /\ outcome[p] # "none" => pc[p] \in Clearing \cup {"unlock", "done"}
        /\ pc[p] \in Clearing \cup {"done"} => outcome[p] # "none"
        /\ outcome[p] \in {"committed", "killed"} => pc[p] = "done"

IInv ==
    /\ TypeOK
    /\ LockDiscipline
    /\ ReadIsCurrent
    /\ PowerLossLeavesWholeFile
    /\ entry \in onDisk
    /\ Progress

(* A populated assignment changes only by a rename of a process that was given      *)
(* --force and targets that name, also when it was populated between the preflight  *)
(* and the mutation; or a power loss undoes a rename nobody was told is durable.    *)
PopulatedKept ==
    [][\A n \in Names :
         Populated(Contents(entry)[n]) =>
            \/ Contents(entry)'[n] = Contents(entry)[n]
            \/ \E p \in Procs :
                 /\ pc[p] = "rename" /\ pc'[p] = "dirsync"
                 /\ request[p].force /\ n \in Targets(request[p])
            \/ onDisk # {entry} /\ onDisk' = {entry'} /\ entry' \in onDisk \ {entry}]_vars

(* Every command that starts ends, whatever the others do and whichever of its      *)
(* calls fail: no failure path keeps the directory lock (_directory_lock).          *)
Termination ==
    \A p \in Procs : pc[p] # "idle" ~> pc[p] = "done"

(* How far the request of p is, as DotenvStore counts.                              *)
StatusOf(p) ==
    IF outcome[p] = "committed" THEN "committed"
    ELSE IF outcome[p] # "none" THEN "stopped"
    ELSE IF pc[p] = "idle" THEN "idle"
    ELSE IF Applied(p) THEN "applied"
    ELSE "active"

Store == INSTANCE DotenvStore WITH
    doc <- Contents(entry),
    durable <- {Contents(f) : f \in onDisk},
    status <- [p \in Procs |-> StatusOf(p)]

(* What the processes do to the destination is what DotenvStore promises: whole     *)
(* requests, each applied at its rename to the document of that instant.            *)
ImplementsStore == Store!StoreSpec

(* A value `ainv set` reported as set stays in the file, over power losses too, until *)
(* another command replaces it, which takes --force unless that value was the empty   *)
(* one (the directory fsync before mutate_dotenv_many returns).                       *)
CommittedSurvives == Store!CommittedSurvives

=============================================================================
