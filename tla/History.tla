------------------------------- MODULE History -------------------------------
(***************************************************************************)
(* The activity history of src/ainv/history.py: history.jsonl, its one     *)
(* rotated backup, the directory lock that is only tried, never waited     *)
(* for, processes that fail or are killed between any two calls, and a     *)
(* machine that loses power.                                               *)
(*                                                                         *)
(* A file is the sequence of what was written to it: the text of a record, *)
(* a cut-off piece of one, a newline.  Each counts one unit of size, so a  *)
(* record with its newline has size 2.  A new file is named after the      *)
(* request that creates it, an old one after the last record it holds.     *)
(***************************************************************************)
EXTENDS Sequences, SequencesExt, Integers, Subsequences

CONSTANTS
    Writers,    \* requests that append their record (append_history)
    Readers,    \* `ainv history` commands (read_history)
    Older,      \* the last request recorded before a rotation
    Newer,      \* and one recorded after it
    Missing,    \* a file that does not exist
    MaxBytes,   \* MAX_HISTORY_BYTES, in units
    Attempts,   \* how often the lock is tried: six times in the code
    Stuck       \* a process that may stop being scheduled, or Missing

RecordSize == 2

Procs == Writers \cup Readers

(* The requests that were recorded before this instance starts. *)
Earlier == {Older, Newer}

Files == Writers \cup Earlier

ASSUME HistoryAssumption ==
    /\ MaxBytes \in Nat /\ MaxBytes > RecordSize
    /\ Attempts \in Nat \ {0}
    /\ Writers \cap Readers = {}
    /\ Older # Newer /\ Earlier \cap Procs = {}
    /\ Missing \notin Files

VARIABLES
    dir,        \* the directory: which files are history.jsonl and history.jsonl.1
    onDisk,     \* the directories a power loss may bring back
    text,       \* text[f]: what file f holds
    safe,       \* safe[f]: how much of it every power loss leaves
    holders,    \* the processes that hold the directory lock
    pc,         \* pc[p]: the next call of p
    tries,      \* tries[p]: how often p has tried the lock
    read,       \* read[r]: the records reader r has collected
    outcome,    \* outcome[p]: "none", "ok", or "stopped" by an error or a kill
    ever        \* history: the records that have been readable, in their order

files == <<dir, onDisk, text, safe>>
procs == <<holders, pc, tries, read, outcome>>
vars == <<files, procs, ever>>

Text(w) == [kind |-> "text", by |-> w]
Cut == [kind |-> "cut", by |-> Missing]
Newline == [kind |-> "newline", by |-> Missing]

Tokens == {Text(w) : w \in Files} \cup {Cut, Newline}

Dirs == [current : Files \cup {Missing}, backup : Files \cup {Missing}]

Content(f) == IF f = Missing THEN <<>> ELSE text[f]

(* The positions of the valid lines: a whole record, between two newlines. *)
LinesAt(t) ==
    {i \in 1..(Len(t) - 1) :
        /\ t[i].kind = "text" /\ t[i + 1] = Newline
        /\ i > 1 => t[i - 1] = Newline}

(* _read_file: the records of the valid lines, in order; every other line is skipped. *)
Records(t) == Picked([i \in DOMAIN t |-> t[i].by], LinesAt(t))

Readable == Records(Content(dir.backup)) \o Records(Content(dir.current))

Writing == {"stat", "unlink", "replace", "rotated", "open", "repair", "write", "sync",
            "dirsync"}
Reading == {"backup", "current"}

HistoryTypeOK ==
    /\ dir \in Dirs /\ onDisk \in SUBSET Dirs
    /\ text \in [Files -> Seq(Tokens)] /\ safe \in [Files -> Nat]
    /\ holders \in SUBSET Procs
    /\ pc \in [Procs -> {"lock", "close", "done"} \cup Writing \cup Reading]
    /\ tries \in [Procs -> 0..Attempts]
    /\ outcome \in [Procs -> {"none", "ok", "stopped"}]

Init ==
    /\ dir \in {d \in Dirs : d.backup \in {Missing, Older} /\ d.current \in {Missing, Newer}}
    /\ onDisk = {dir}
    /\ \E tail \in IF dir.current = Newer THEN {<<>>, <<Cut>>} ELSE {<<>>} :
         text = [f \in Files |->
                   IF f \in Writers THEN <<>>
                   ELSE <<Text(f), Newline>> \o IF f = Newer THEN tail ELSE <<>>]
    /\ safe = [f \in Files |-> Len(text[f])]
    /\ holders = {}
    /\ pc = [p \in Procs |-> "lock"]
    /\ tries = [p \in Procs |-> 0]
    /\ read = [r \in Readers |-> <<>>]
    /\ outcome = [p \in Procs |-> "none"]
    /\ ever = Readable

-----------------------------------------------------------------------------
Goto(p, to) == pc' = [pc EXCEPT ![p] = to]

Decide(p, how) == outcome' = [outcome EXCEPT ![p] = how]

(* A change of the directory: on disk from the next fsync of the directory on. *)
Relink(d) == dir' = d /\ onDisk' = onDisk \cup {d}

Extend(f, tokens) == text' = [text EXCEPT ![f] = @ \o tokens]

(* Wrong on purpose: a reader does not care who writes. *)
AvailableToReaders(p) == p \in Readers \/ holders = {}

(* A writer's lock excludes everyone, a reader's excludes writers. *)
Available(p) == IF p \in Writers THEN holders = {} ELSE holders \cap Writers = {}

(* Wrong on purpose: the lock is waited for. *)
LockWaits(p) ==
    /\ pc[p] = "lock" /\ Available(p)
    /\ holders' = holders \cup {p}
    /\ Goto(p, IF p \in Writers THEN "stat" ELSE "backup")
    /\ UNCHANGED <<files, tries, read, outcome>>

(* _acquire_directory_lock: LOCK_NB, a short sleep after each refusal but the last. *)
TryLock(p) ==
    /\ pc[p] = "lock"
    /\ tries' = [tries EXCEPT ![p] = @ + 1]
    /\ IF Available(p)
       THEN /\ holders' = holders \cup {p}
            /\ Goto(p, IF p \in Writers THEN "stat" ELSE "backup")
            /\ UNCHANGED outcome
       ELSE /\ IF tries[p] + 1 = Attempts
               THEN Goto(p, "close") /\ Decide(p, "stopped")
               ELSE UNCHANGED <<pc, outcome>>
            /\ UNCHANGED holders
    /\ UNCHANGED <<files, read>>

(* Wrong on purpose: nothing is reserved for the repair of the tail. *)
TooLongUnreserved ==
    dir.current # Missing /\ Len(Content(dir.current)) + RecordSize > MaxBytes

(* One unit is reserved for the newline that repairs a partial tail. *)
TooLong ==
    dir.current # Missing /\ Len(Content(dir.current)) + RecordSize + 1 > MaxBytes

Stat(w) ==
    /\ pc[w] = "stat"
    /\ Goto(w, IF ~TooLong THEN "open"
               ELSE IF dir.backup # Missing THEN "unlink" ELSE "replace")
    /\ UNCHANGED <<files, holders, tries, read, outcome>>

Unlink(w) ==
    /\ pc[w] = "unlink"
    /\ Relink([dir EXCEPT !.backup = Missing])
    /\ Goto(w, "replace")
    /\ UNCHANGED <<text, safe, holders, tries, read, outcome>>

Replace(w) ==
    /\ pc[w] = "replace"
    /\ Relink([current |-> Missing, backup |-> dir.current])
    /\ Goto(w, "rotated")
    /\ UNCHANGED <<text, safe, holders, tries, read, outcome>>

SyncRotation(w) ==
    /\ pc[w] = "rotated"
    /\ onDisk' = {dir}
    /\ Goto(w, "open")
    /\ UNCHANGED <<dir, text, safe, holders, tries, read, outcome>>

(* _open_history_file creates it when it was missing or has been rotated away. *)
Open(w) ==
    /\ pc[w] = "open"
    /\ IF dir.current = Missing
       THEN Relink([dir EXCEPT !.current = w])
       ELSE UNCHANGED <<dir, onDisk>>
    /\ Goto(w, "repair")
    /\ UNCHANGED <<text, safe, holders, tries, read, outcome>>

(* A tail without a newline gets one, so that it cannot swallow the new record. *)
Repair(w) ==
    /\ pc[w] = "repair"
    /\ LET t == Content(dir.current)
       IN  IF t # <<>> /\ Last(t) # Newline
           THEN Extend(dir.current, <<Newline>>) ELSE UNCHANGED text
    /\ Goto(w, "write")
    /\ UNCHANGED <<dir, onDisk, safe, holders, tries, read, outcome>>

Write(w) ==
    /\ pc[w] = "write"
    /\ Extend(dir.current, <<Text(w), Newline>>)
    /\ Goto(w, "sync")
    /\ UNCHANGED <<dir, onDisk, safe, holders, tries, read, outcome>>

(* write(2) stops in the middle: no space, or the process is killed. *)
WriteCut(w) ==
    /\ pc[w] = "write"
    /\ \E t \in {Text(w), Cut} : Extend(dir.current, <<t>>)
    /\ \/ Goto(w, "close") /\ Decide(w, "stopped") /\ UNCHANGED holders
       \/ Goto(w, "done") /\ Decide(w, "stopped") /\ holders' = holders \ {w}
    /\ UNCHANGED <<dir, onDisk, safe, tries, read>>

(* Wrong on purpose: the data is left to the kernel. *)
SyncSkipped(w) ==
    /\ pc[w] = "sync"
    /\ Goto(w, "dirsync")
    /\ UNCHANGED <<files, holders, tries, read, outcome>>

Sync(w) ==
    /\ pc[w] = "sync"
    /\ safe' = [safe EXCEPT ![dir.current] = Len(text[dir.current])]
    /\ Goto(w, "dirsync")
    /\ UNCHANGED <<dir, onDisk, text, holders, tries, read, outcome>>

(* Wrong on purpose: success is reported without syncing the directory. *)
DirSyncSkipped(w) ==
    /\ pc[w] = "dirsync"
    /\ Goto(w, "close")
    /\ Decide(w, "ok")
    /\ UNCHANGED <<files, holders, tries, read>>

DirSync(w) ==
    /\ pc[w] = "dirsync"
    /\ onDisk' = {dir}
    /\ Goto(w, "close")
    /\ Decide(w, "ok")
    /\ UNCHANGED <<dir, text, safe, holders, tries, read>>

ReadBackup(r) ==
    /\ pc[r] = "backup"
    /\ read' = [read EXCEPT ![r] = Records(Content(dir.backup))]
    /\ Goto(r, "current")
    /\ UNCHANGED <<files, holders, tries, outcome>>

ReadCurrent(r) ==
    /\ pc[r] = "current"
    /\ read' = [read EXCEPT ![r] = @ \o Records(Content(dir.current))]
    /\ Goto(r, "close")
    /\ Decide(r, "ok")
    /\ UNCHANGED <<files, holders, tries>>

(* What a reader collected is gone when it returns or dies. *)
Return(P) == read' = [r \in Readers |-> IF r \in P THEN <<>> ELSE read[r]]

(* The `finally`: closing the directory descriptor releases the lock, if it was held. *)
Close(p) ==
    /\ pc[p] = "close"
    /\ holders' = holders \ {p}
    /\ Goto(p, "done")
    /\ Return({p})
    /\ UNCHANGED <<files, tries, outcome>>

Fail(p) ==
    /\ pc[p] \in {"lock"} \cup Writing \cup Reading
    /\ Goto(p, "close")
    /\ Decide(p, "stopped")
    /\ UNCHANGED <<files, holders, tries, read>>

Verdict(p) == IF outcome[p] = "ok" THEN "ok" ELSE "stopped"

Kill(p) ==
    /\ pc[p] # "done"
    /\ holders' = holders \ {p}
    /\ Goto(p, "done")
    /\ Decide(p, Verdict(p))
    /\ Return({p})
    /\ UNCHANGED <<files, tries>>

(* What a power loss makes of a file: some length not below what was synced, and any *)
(* token that was not synced may be garbage.                                         *)
Survivors(f) ==
    IF f = Missing THEN {<<>>}
    ELSE {[i \in 1..k |-> IF i \in bad THEN Cut ELSE text[f][i]] :
             k \in safe[f]..Len(text[f]), bad \in SUBSET ((safe[f] + 1)..Len(text[f]))}

Running == {p \in Procs : pc[p] # "done" /\ tries[p] > 0}

(* Every process that has begun dies; requests that come later find the directory of *)
(* the last fsync, or a later one: changes of a directory reach the disk in order.   *)
PowerLoss ==
    /\ Running # {}
    /\ dir' \in onDisk
    /\ onDisk' = {dir'}
    /\ \E c \in Survivors(dir'.current), b \in Survivors(dir'.backup) :
         text' = [f \in Files |-> IF f = dir'.current THEN c
                                  ELSE IF f = dir'.backup THEN b ELSE text[f]]
    /\ safe' = [f \in Files |-> Len(text'[f])]
    /\ holders' = {}
    /\ pc' = [p \in Procs |-> IF p \in Running THEN "done" ELSE pc[p]]
    /\ outcome' = [p \in Procs |-> IF p \in Running THEN Verdict(p) ELSE outcome[p]]
    /\ Return(Running)
    /\ UNCHANGED tries

Finished == (\A p \in Procs : pc[p] = "done") /\ UNCHANGED vars

WriterStep(w) ==
    \/ TryLock(w) \/ Stat(w) \/ Unlink(w) \/ Replace(w) \/ SyncRotation(w) \/ Open(w)
    \/ Repair(w) \/ Write(w) \/ Sync(w) \/ DirSync(w) \/ Close(w)

ReaderStep(r) == TryLock(r) \/ ReadBackup(r) \/ ReadCurrent(r) \/ Close(r)

Step ==
    \/ \E w \in Writers : WriterStep(w) \/ WriteCut(w)
    \/ \E r \in Readers : ReaderStep(r)
    \/ \E p \in Procs : Fail(p) \/ Kill(p)

(* Recorded by an earlier request, or by one whose append_history has returned. *)
Settled(w) == w \in Earlier \/ outcome[w] = "ok"

(* The records that become readable are remembered behind those that were (both are  *)
(* bound, so that TLC computes them once). *)
Remember(known) ==
    \E now \in {Readable'}, old \in {known} : ever' = old \o Without(now, Range(old))

(* What a power loss took is not remembered, nor what was forgotten without ever      *)
(* having been confirmed: it may have been taken, too.                                *)
Outlasting ==
    Without(ever, {w \in Range(ever) : /\ w \notin Range(Readable')
                                       /\ w \in Range(Readable) \/ ~Settled(w)})

Next ==
    \/ Step /\ Remember(ever)
    \/ PowerLoss /\ Remember(Outlasting)
    \/ Finished

Spec == Init /\ [][Next]_vars

(* Every process but Stuck makes its next call: Stuck may stop anywhere, also while   *)
(* it holds the lock.                                                                 *)
FairSpec ==
    /\ Spec
    /\ \A p \in Procs \ {Stuck} :
         WF_vars((IF p \in Writers THEN WriterStep(p) ELSE ReaderStep(p)) /\ Remember(ever))

-----------------------------------------------------------------------------
(* The cap on the active file and its backup, however the tails were torn and however *)
(* often a repair added a byte (MAX_HISTORY_BYTES).                                   *)
SizeBound == \A f \in {dir.current, dir.backup} : Len(Content(f)) <= MaxBytes

(* What `ainv history` returns is the log of one instant: no rotation and no append   *)
(* falls between the reads of the two files (read_history's shared lock).             *)
ReadIsConsistent ==
    \A r \in Readers : pc[r] = "close" /\ outcome[r] = "ok" => read[r] = Readable

(* A step forgets only records of the backup: those of the active file stay readable  *)
(* through a rotation and a crash in the middle of it, and a power loss takes none    *)
(* whose append has returned (the fsyncs of append_history).                          *)
ActiveRecordsStay ==
    [][\A w \in Range(Records(Content(dir.current))) :
          Contains(Readable', w) \/ (PowerLoss /\ ~Settled(w))]_vars

(* The files implement the log: one record per request, in the order of the appends,  *)
(* the oldest forgotten first (append_history, read_history).                         *)
Log == INSTANCE HistoryLog WITH
    log <- Readable,
    status <- [w \in Writers |->
                 IF outcome[w] = "none" THEN "active"
                 ELSE IF outcome[w] = "ok" THEN "committed" ELSE "stopped"]

ImplementsLog == Log!LogSpec

(* Whatever the others do, and though one process may stop for ever with the lock in  *)
(* its hands, every append and every read ends: history never holds up a delivery.    *)
NeverBlocked == \A p \in Procs \ {Stuck} : <>(pc[p] = "done")

=============================================================================
