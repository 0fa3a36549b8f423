----------------------------- MODULE HistoryProofs -----------------------------
(***************************************************************************)
(* Theorems about History: the types, the lock, the bound of the files,    *)
(* what a reader returns, what a rotation and a power loss leave, and that *)
(* the files implement the log, whatever the cap, the number of requests   *)
(* and of readers, and wherever processes die and the machine loses power. *)
(***************************************************************************)
EXTENDS History, FiniteSetTheorems, TLAPS

(* The lock: a writer that holds it holds it alone, and only who holds it goes on.    *)
Lock(p) ==
    /\ pc[p] = "lock" => tries[p] < Attempts
    /\ p \in holders => tries[p] > 0 /\ pc[p] \notin {"lock", "done"}
    /\ p \in holders /\ p \in Writers => holders = {p}
    /\ pc[p] \in Writing => p \in Writers /\ p \in holders
    /\ pc[p] \in Reading => p \in Readers /\ p \in holders
    /\ pc[p] = "close" /\ outcome[p] = "ok" => p \in holders
    /\ outcome[p] = "ok" => pc[p] \in {"close", "done"}

(* The file of a writer that has not created one is nowhere, and empty.               *)
NotYet(w) ==
    pc[w] \in {"lock", "stat", "unlink", "replace", "rotated", "open"} =>
        text[w] = <<>> /\ \A d \in onDisk \cup {dir} : w \notin {d.current, d.backup}

(* How much a writer finds, so that its record and the repair fit.                    *)
Room(w) ==
    /\ pc[w] \in {"open", "repair"} => Len(Content(dir.current)) + RecordSize + 1 <= MaxBytes
    /\ pc[w] = "write" => Len(Content(dir.current)) + RecordSize <= MaxBytes
    /\ pc[w] \in {"unlink", "replace", "repair", "write", "sync"} => dir.current # Missing
    /\ pc[w] = "rotated" => dir.current = Missing

(* What a reader has collected is what the files say.                                 *)
Collected(r) ==
    /\ pc[r] = "current" => read[r] = Records(Content(dir.backup))
    /\ pc[r] = "close" /\ outcome[r] = "ok" => read[r] = Readable

(* The inductive invariant. *)
HistoryInv ==
    /\ HistoryTypeOK /\ dir \in onDisk
    /\ read = [r \in Readers |-> read[r]]
    /\ \A f \in Files : Len(text[f]) <= MaxBytes
    /\ \A p \in Procs : Lock(p)
    /\ \A w \in Writers : NotYet(w) /\ Room(w)
    /\ \A r \in Readers : Collected(r)

-----------------------------------------------------------------------------
(* The tokens a writer appends.                                                       *)
LEMMA TokenTypes ==
    /\ Cut \in Tokens /\ Newline \in Tokens
    /\ \A w \in Files : Text(w) \in Tokens
    /\ \A w \in Files : <<Text(w), Newline>> \in Seq(Tokens) /\ Len(<<Text(w), Newline>>) = 2
    /\ \A t \in Tokens : <<t>> \in Seq(Tokens) /\ Len(<<t>>) = 1
    /\ <<>> \in Seq(Tokens) /\ Len(<<>>) = 0
<1>1. Cut \in Tokens /\ Newline \in Tokens /\ \A w \in Files : Text(w) \in Tokens
  BY DEF Tokens
<1> HIDE DEF Tokens, Cut, Newline, Text
<1> QED BY <1>1

(* An append makes a file as much longer as what is appended.                         *)
LEMMA Extended ==
    ASSUME HistoryTypeOK, NEW f \in Files, NEW s \in Seq(Tokens), Extend(f, s)
    PROVE  /\ text' \in [Files -> Seq(Tokens)]
           /\ \A g \in Files : Len(text'[g]) = IF g = f THEN Len(text[f]) + Len(s) ELSE Len(text[g])
           /\ \A g \in Files : g # f => text'[g] = text[g]
<1>1. text \in [Files -> Seq(Tokens)]
  BY DEF HistoryTypeOK
<1>2. text[f] \o s \in Seq(Tokens) /\ Len(text[f] \o s) = Len(text[f]) + Len(s)
  BY <1>1
<1> QED BY <1>1, <1>2 DEF Extend

LEMMA HistoryInit == Init => HistoryInv
<1> SUFFICES ASSUME Init PROVE HistoryInv
  OBVIOUS
<1> USE HistoryAssumption
<1>1. dir \in Dirs /\ dir.backup \in {Missing, Older} /\ dir.current \in {Missing, Newer}
  BY DEF Init
<1>2. /\ text \in [Files -> Seq(Tokens)]
      /\ \A f \in Files : Len(text[f]) <= 3
      /\ \A w \in Writers : text[w] = <<>>
  <2>1. PICK tail \in {<<>>, <<Cut>>} :
          text = [f \in Files |->
                   IF f \in Writers THEN <<>>
                   ELSE <<Text(f), Newline>> \o IF f = Newer THEN tail ELSE <<>>]
    BY DEF Init
  <2>2. tail \in Seq(Tokens) /\ Len(tail) <= 1
    <3>1. <<Cut>> \in Seq(Tokens) /\ Len(<<Cut>>) = 1
      BY TokenTypes
    <3>2. <<>> \in Seq(Tokens) /\ Len(<<>>) = 0
      BY TokenTypes
    <3>3. CASE tail = <<>>
      BY <3>2, <3>3
    <3>4. CASE tail = <<Cut>>
      BY <3>1, <3>4
    <3>5. tail = <<>> \/ tail = <<Cut>>
      BY <2>1
    <3> HIDE DEF Tokens, Cut
    <3> QED BY <3>3, <3>4, <3>5
  <2>3. \A f \in Files : LET t == <<Text(f), Newline>> \o IF f = Newer THEN tail ELSE <<>>
                         IN  t \in Seq(Tokens) /\ Len(t) <= 3
    BY <2>2, TokenTypes
  <2> QED BY <2>1, <2>3, TokenTypes DEF Files
<1>3. safe \in [Files -> Nat]
  BY <1>2 DEF Init
<1>4. HistoryTypeOK
  BY <1>1, <1>2, <1>3 DEF Init, HistoryTypeOK
<1>5. \A f \in Files : Len(text[f]) <= MaxBytes
  BY <1>2 DEF RecordSize
<1>6. \A p \in Procs : Lock(p)
  BY DEF Init, Lock, Writing, Reading
<1>7. \A w \in Writers : NotYet(w) /\ Room(w)
  <2>1. \A w \in Writers : w \notin Earlier /\ w # Missing
    BY DEF Procs, Files
  <2> QED BY <1>1, <1>2, <2>1 DEF Init, NotYet, Room, Procs, Earlier
<1>8. \A r \in Readers : Collected(r)
  BY DEF Init, Collected, Procs
<1> QED BY <1>4, <1>5, <1>6, <1>7, <1>8 DEF Init, HistoryInv

(* A power loss leaves the files within what they were.                               *)
LEMMA Survived ==
    ASSUME HistoryTypeOK, PowerLoss
    PROVE  /\ text' \in [Files -> Seq(Tokens)]
           /\ \A f \in Files : Len(text'[f]) <= Len(text[f])
           /\ \A f \in Files : f \notin {dir'.current, dir'.backup} => text'[f] = text[f]
<1>1. PICK c \in Survivors(dir'.current), b \in Survivors(dir'.backup) :
         text' = [f \in Files |-> IF f = dir'.current THEN c
                                  ELSE IF f = dir'.backup THEN b ELSE text[f]]
  BY DEF PowerLoss
<1>2. ASSUME NEW f \in Files, NEW s \in Survivors(f)
      PROVE  s \in Seq(Tokens) /\ Len(s) <= Len(text[f])
  <2>1. f # Missing /\ text[f] \in Seq(Tokens) /\ safe[f] \in Nat
    BY HistoryAssumption DEF HistoryTypeOK
  <2>2. PICK k \in safe[f]..Len(text[f]), bad \in SUBSET ((safe[f] + 1)..Len(text[f])) :
           s = [i \in 1..k |-> IF i \in bad THEN Cut ELSE text[f][i]]
    BY <2>1 DEF Survivors
  <2>3. k \in Nat /\ k <= Len(text[f])
    BY <2>1
  <2>4. \A i \in 1..k : (IF i \in bad THEN Cut ELSE text[f][i]) \in Tokens
    BY <2>1, <2>3, TokenTypes
  <2> HIDE DEF Tokens, Cut
  <2> QED BY <2>2, <2>3, <2>4
<1>3. \A f \in Files : text[f] \in Seq(Tokens) /\ Len(text[f]) \in Nat
  BY DEF HistoryTypeOK
<1> QED BY <1>1, <1>2, <1>3

(* A process that runs was not idle, and one that holds the lock runs.                *)
LEMMA TypeStep == HistoryInv /\ [Next]_vars => HistoryTypeOK'
<1> SUFFICES ASSUME HistoryInv, [Next]_vars PROVE HistoryTypeOK'
  OBVIOUS
<1> USE HistoryAssumption DEF HistoryInv, HistoryTypeOK, files, Goto, Decide, Writing, Reading, Procs
<1>1. ASSUME NEW p \in Procs, TryLock(p) PROVE HistoryTypeOK'
  <2>1. tries[p] + 1 \in 0..Attempts
    BY <1>1 DEF TryLock, Lock
  <2> QED BY <1>1, <2>1 DEF TryLock
<1>2. ASSUME NEW w \in Writers, Stat(w) PROVE HistoryTypeOK'
  BY <1>2 DEF Stat
<1>3. ASSUME NEW w \in Writers, Unlink(w) \/ Replace(w) \/ SyncRotation(w) \/ DirSync(w) PROVE HistoryTypeOK'
  <2>1. dir' \in Dirs /\ onDisk' \in SUBSET Dirs
    BY <1>3 DEF Unlink, Replace, SyncRotation, DirSync, Relink, Dirs
  <2> QED BY <1>3, <2>1 DEF Unlink, Replace, SyncRotation, DirSync
<1>4. ASSUME NEW w \in Writers, Open(w) PROVE HistoryTypeOK'
  <2>1. w \in Files
    BY DEF Files
  <2>2. [dir EXCEPT !.current = w] \in Dirs
    BY <2>1 DEF Dirs
  <2>3. dir' \in Dirs /\ onDisk' \in SUBSET Dirs
    BY <1>4, <2>2 DEF Open, Relink
  <2> QED BY <1>4, <2>3 DEF Open
<1>5. ASSUME NEW w \in Writers, Repair(w) \/ Write(w) \/ WriteCut(w) PROVE HistoryTypeOK'
  <2>1. dir.current \in Files /\ w \in Files
    BY <1>5 DEF Repair, Write, WriteCut, Room, Dirs, Files
  <2>2. text' \in [Files -> Seq(Tokens)]
    BY <1>5, <2>1, TokenTypes, Extended DEF Repair, Write, WriteCut
  <2> QED BY <1>5, <2>2 DEF Repair, Write, WriteCut
<1>6. ASSUME NEW w \in Writers, Sync(w) PROVE HistoryTypeOK'
  <2>1. dir.current \in Files
    BY <1>6 DEF Sync, Room, Dirs
  <2>2. safe' \in [Files -> Nat]
    BY <1>6, <2>1 DEF Sync
  <2> QED BY <1>6, <2>2 DEF Sync
<1>7. ASSUME NEW r \in Readers, ReadBackup(r) \/ ReadCurrent(r) PROVE HistoryTypeOK'
  BY <1>7 DEF ReadBackup, ReadCurrent
<1>8. ASSUME NEW p \in Procs, Close(p) \/ Fail(p) \/ Kill(p) PROVE HistoryTypeOK'
  BY <1>8 DEF Close, Fail, Kill, Verdict
<1>9. ASSUME PowerLoss PROVE HistoryTypeOK'
  <2>1. text' \in [Files -> Seq(Tokens)]
    BY <1>9, Survived
  <2>2. safe' \in [Files -> Nat]
    BY <1>9, <2>1 DEF PowerLoss
  <2> QED BY <1>9, <2>1, <2>2 DEF PowerLoss, Verdict
<1>10. CASE UNCHANGED vars
  BY <1>10 DEF vars, procs
<1> QED
  BY <1>1, <1>2, <1>3, <1>4, <1>5, <1>6, <1>7, <1>8, <1>9, <1>10
  DEF Next, Step, WriterStep, ReaderStep, Finished

(* The lock: one step per action that touches it.                                     *)
LEMMA LockStep ==
    ASSUME HistoryInv, [Next]_vars, NEW q \in Procs PROVE Lock(q)'
<1> USE HistoryAssumption DEF HistoryInv, HistoryTypeOK, files, Goto, Decide, Writing, Reading, Procs, Lock
<1>1. ASSUME NEW p \in Procs, TryLock(p) PROVE Lock(q)'
  BY <1>1 DEF TryLock, Available
<1>2. ASSUME NEW w \in Writers,
             Stat(w) \/ Unlink(w) \/ Replace(w) \/ SyncRotation(w) \/ Open(w) \/ Repair(w) \/ Write(w)
               \/ Sync(w) \/ DirSync(w)
      PROVE  Lock(q)'
  <2>1. /\ pc[w] \in Writing /\ UNCHANGED <<holders, tries>>
        /\ \/ outcome' = outcome /\ \E to \in Writing : pc' = [pc EXCEPT ![w] = to]
           \/ /\ pc' = [pc EXCEPT ![w] = "close"]
              /\ outcome' = [outcome EXCEPT ![w] = "ok"]
    BY <1>2 DEF Stat, Unlink, Replace, SyncRotation, Open, Repair, Write, Sync, DirSync
  <2> QED BY <2>1
<1>3. ASSUME NEW w \in Writers, WriteCut(w) PROVE Lock(q)'
  BY <1>3 DEF WriteCut
<1>4. ASSUME NEW r \in Readers, ReadBackup(r) \/ ReadCurrent(r) PROVE Lock(q)'
  BY <1>4 DEF ReadBackup, ReadCurrent
<1>5. ASSUME NEW p \in Procs, Close(p) \/ Fail(p) \/ Kill(p) PROVE Lock(q)'
  BY <1>5 DEF Close, Fail, Kill, Verdict
<1>6. ASSUME PowerLoss PROVE Lock(q)'
  BY <1>6 DEF PowerLoss, Running, Verdict
<1>7. CASE UNCHANGED vars
  BY <1>7 DEF vars, procs
<1> QED
  BY <1>1, <1>2, <1>3, <1>4, <1>5, <1>6, <1>7 DEF Next, Step, WriterStep, ReaderStep, Finished

(* Who is between stat and the last fsync is alone there, and nobody reads.           *)
LEMMA Alone ==
    ASSUME HistoryInv, NEW w \in Writers, pc[w] \in Writing
    PROVE  \A q \in Procs \ {w} : pc[q] \notin Writing \cup Reading
BY DEF HistoryInv, Lock, Procs

(* A step that leaves the files alone.                                                *)
LEMMA FilesAlone ==
    ASSUME UNCHANGED <<dir, text>>
    PROVE  /\ Content(dir.current)' = Content(dir.current) /\ Content(dir.backup)' = Content(dir.backup)
           /\ Readable' = Readable
<1>1. dir' = dir /\ text' = text
  OBVIOUS
<1>2. Content(dir.current)' = Content(dir.current)
  BY <1>1 DEF Content
<1>3. Content(dir.backup)' = Content(dir.backup)
  BY <1>1 DEF Content
<1>4. Readable' = Readable
  BY <1>2, <1>3 DEF Readable
<1> QED BY <1>2, <1>3, <1>4

(* What the steps below need of the files.                                            *)
LEMMA FileTypes ==
    ASSUME HistoryTypeOK
    PROVE  /\ \A q \in Writers : q \in Files /\ q # Missing
           /\ \A f \in Files : text[f] \in Seq(Tokens) /\ Len(text[f]) \in Nat
           /\ dir.current \in Files \cup {Missing} /\ dir.backup \in Files \cup {Missing}
           /\ Len(Content(dir.current)) \in Nat
<1>1. \A f \in Files : text[f] \in Seq(Tokens) /\ Len(text[f]) \in Nat
  BY DEF HistoryTypeOK
<1>2. dir.current \in Files \cup {Missing} /\ dir.backup \in Files \cup {Missing}
  BY DEF HistoryTypeOK, Dirs
<1>3. \A q \in Writers : q \in Files /\ q # Missing
  BY HistoryAssumption DEF Files
<1>4. Len(Content(dir.current)) \in Nat
  BY <1>1, <1>2 DEF Content
<1> QED BY <1>1, <1>2, <1>3, <1>4

(* What a writer at work leaves of the files: their length, those of writers to come, *)
(* and the room that is left.                                                         *)
FilesInv ==
    /\ dir \in onDisk
    /\ \A f \in Files : Len(text[f]) <= MaxBytes
    /\ \A q \in Writers : NotYet(q) /\ Room(q)

(* An append of at most one token as a repair, of at most two as a write, fits.       *)
LEMMA AppendFits ==
    ASSUME HistoryInv, NEW w \in Writers, NEW s \in Seq(Tokens),
           Extend(dir.current, s), UNCHANGED <<dir, onDisk>>,
           \A q \in Writers \ {w} : pc'[q] = pc[q],
           \/ pc[w] = "repair" /\ pc'[w] = "write" /\ Len(s) <= 1
           \/ pc[w] = "write" /\ pc'[w] \in {"sync", "close", "done"} /\ Len(s) <= 2
    PROVE  FilesInv'
<1>1. HistoryTypeOK /\ Room(w) /\ dir \in onDisk /\ MaxBytes \in Nat
  BY HistoryAssumption DEF HistoryInv
<1>2. dir.current \in Files /\ dir.current # Missing
  BY <1>1, FileTypes DEF Room
<1>3. /\ \A g \in Files : Len(text'[g]) =
            IF g = dir.current THEN Len(text[dir.current]) + Len(s) ELSE Len(text[g])
      /\ \A g \in Files : g # dir.current => text'[g] = text[g]
  BY <1>1, <1>2, Extended
<1>4. Content(dir.current) = text[dir.current] /\ Content(dir.current)' = text'[dir.current]
  BY <1>2 DEF Content
<1>5. \A q \in Writers \ {w} : pc[q] \notin Writing
  BY Alone DEF Writing, Procs
<1>6. Len(s) \in Nat /\ Len(text[dir.current]) \in Nat
  BY <1>1, <1>2, FileTypes
<1>7. /\ pc[w] = "repair" => Len(text[dir.current]) + 3 <= MaxBytes
      /\ pc[w] = "write" => Len(text[dir.current]) + 2 <= MaxBytes
  BY <1>1, <1>4, <1>6 DEF Room, RecordSize
<1>8. /\ Len(text'[dir.current]) <= MaxBytes
      /\ pc'[w] = "write" => Len(text'[dir.current]) + 2 <= MaxBytes
  BY <1>1, <1>2, <1>3, <1>6, <1>7
<1>9. \A f \in Files : Len(text'[f]) <= MaxBytes
  BY <1>3, <1>8 DEF HistoryInv
<1>10. Room(w)'
  BY <1>2, <1>4, <1>8 DEF Room, RecordSize
<1>11. \A q \in Writers \ {w} : Room(q)'
  BY <1>5 DEF Room, Writing
<1>12. ASSUME NEW q \in Writers PROVE NotYet(q)'
  <2>1. NotYet(q) /\ q \in Files
    BY <1>1, FileTypes DEF HistoryInv
  <2>2. CASE q = w
    BY <2>2 DEF NotYet
  <2>3. CASE q # w
    BY <1>1, <1>2, <1>3, <2>1, <2>3 DEF NotYet
  <2> QED BY <2>2, <2>3
<1> QED BY <1>1, <1>9, <1>10, <1>11, <1>12 DEF FilesInv

(* A step that leaves the files and the writers that have something to say alone.     *)
LEMMA Untouched ==
    ASSUME HistoryInv, UNCHANGED files,
           \A q \in Writers : pc'[q] = pc[q] \/ pc'[q] \in {"stat", "backup", "dirsync", "close", "done"},
           \A q \in Writers : pc'[q] = "stat" => pc[q] \in {"lock", "stat"}
    PROVE  FilesInv'
<1>1. UNCHANGED <<dir, onDisk, text>> /\ Content(dir.current)' = Content(dir.current)
  BY FilesAlone DEF files
<1>2. dir' \in onDisk' /\ \A f \in Files : Len(text'[f]) <= MaxBytes
  BY <1>1 DEF HistoryInv
<1>3. ASSUME NEW q \in Writers PROVE NotYet(q)' /\ Room(q)'
  <2>1. NotYet(q) /\ Room(q)
    BY DEF HistoryInv
  <2> QED BY <1>1, <2>1 DEF NotYet, Room
<1> QED BY <1>2, <1>3 DEF FilesInv

(* The files: one step per action that changes them.                                  *)
LEMMA FilesStep == HistoryInv /\ [Next]_vars => FilesInv'
<1> SUFFICES ASSUME HistoryInv, [Next]_vars PROVE FilesInv'
  OBVIOUS
<1> USE DEF Goto, Decide
<1>0. /\ HistoryTypeOK /\ dir \in onDisk /\ MaxBytes \in Nat /\ MaxBytes >= 3
      /\ \A f \in Files : Len(text[f]) <= MaxBytes
      /\ \A q \in Writers : NotYet(q) /\ Room(q) /\ q \in Procs
      /\ pc \in [Procs -> {"lock", "close", "done"} \cup Writing \cup Reading]
  BY HistoryAssumption DEF HistoryInv, HistoryTypeOK, RecordSize, Procs
<1>1. ASSUME NEW p \in Procs, TryLock(p) \/ Close(p) \/ Fail(p) \/ Kill(p) PROVE FilesInv'
  <2>1. /\ UNCHANGED files
        /\ \A q \in Procs : pc'[q] = pc[q] \/ pc'[q] \in {"stat", "backup", "close", "done"}
        /\ \A q \in Procs : pc'[q] = "stat" => pc[q] \in {"lock", "stat"}
    BY <1>0, <1>1 DEF TryLock, Close, Fail, Kill
  <2> QED BY <1>0, <2>1, Untouched
<1>2. ASSUME NEW w \in Writers, Stat(w) PROVE FilesInv'
  <2>1. /\ UNCHANGED <<dir, onDisk, text>> /\ pc[w] = "stat"
        /\ pc' = [pc EXCEPT ![w] = IF ~TooLong THEN "open"
                                  ELSE IF dir.backup # Missing THEN "unlink" ELSE "replace"]
    BY <1>2 DEF Stat, files
  <2>2. Content(dir.current)' = Content(dir.current)
    BY <2>1, FilesAlone
  <2>3. ~TooLong => Len(Content(dir.current)) + RecordSize + 1 <= MaxBytes
    <3>1. Len(Content(dir.current)) \in Nat
      BY <1>0, FileTypes
    <3>2. CASE dir.current = Missing
      <4>1. Len(Content(dir.current)) = 0
        BY <3>2 DEF Content
      <4> QED BY <1>0, <4>1 DEF RecordSize
    <3>3. CASE dir.current # Missing
      BY <1>0, <3>1, <3>3 DEF TooLong, RecordSize
    <3> QED BY <3>2, <3>3
  <2>4. TooLong => dir.current # Missing
    BY DEF TooLong
  <2>5. ASSUME NEW q \in Writers PROVE NotYet(q)' /\ Room(q)'
    <3>1. NotYet(q) /\ Room(q) /\ q \in Procs
      BY <1>0
    <3> HIDE DEF TooLong, RecordSize
    <3>2. NotYet(q)'
      BY <1>0, <2>1, <3>1 DEF NotYet
    <3>3. Room(q)'
      BY <1>0, <2>1, <2>2, <2>3, <2>4, <3>1 DEF Room
    <3> QED BY <3>2, <3>3
  <2> QED BY <1>0, <2>1, <2>5 DEF FilesInv
<1>3. ASSUME NEW w \in Writers, Unlink(w) \/ Replace(w) \/ SyncRotation(w) PROVE FilesInv'
  <2>1. /\ UNCHANGED text /\ dir' \in onDisk'
        /\ \A d \in onDisk' \cup {dir'} : {d.current, d.backup} \subseteq {Missing}
              \cup UNION {{e.current, e.backup} : e \in onDisk \cup {dir}}
    BY <1>0, <1>3 DEF Unlink, Replace, SyncRotation, Relink, HistoryTypeOK, Dirs
  <2>2. /\ pc[w] \in {"unlink", "replace", "rotated"} /\ \A q \in Writers \ {w} : pc'[q] = pc[q]
        /\ pc[w] \in Writing
    BY <1>0, <1>3 DEF Unlink, Replace, SyncRotation, Writing
  <2>3. \A q \in Writers \ {w} : pc[q] \notin Writing
    BY <1>0, <2>2, Alone
  <2>4. ASSUME NEW q \in Writers PROVE NotYet(q)'
    <3>1. q \in Files /\ q # Missing /\ NotYet(q)
      BY <1>0, FileTypes
    <3>2. pc[q] \in {"lock", "stat", "unlink", "replace", "rotated", "open"} =>
             \A d \in onDisk' \cup {dir'} : q \notin {d.current, d.backup}
      BY <2>1, <3>1 DEF NotYet
    <3> QED BY <2>1, <2>2, <3>1, <3>2 DEF NotYet
  <2>5. \A q \in Writers \ {w} : Room(q)'
    BY <2>2, <2>3 DEF Room, Writing
  <2>6. Room(w)'
    <3>1. CASE Unlink(w)
      BY <1>0, <3>1 DEF Unlink, Relink, Room, HistoryTypeOK, Dirs
    <3>2. CASE Replace(w)
      BY <1>0, <3>2 DEF Replace, Relink, Room
    <3>3. CASE SyncRotation(w)
      <4>1. dir' = dir /\ dir.current = Missing /\ pc'[w] = "open"
        BY <1>0, <3>3 DEF SyncRotation, Room
      <4>2. Len(Content(dir.current)') = 0
        BY <4>1 DEF Content
      <4> QED BY <1>0, <4>1, <4>2 DEF Room, RecordSize
    <3> QED BY <1>3, <3>1, <3>2, <3>3
  <2> QED BY <1>0, <2>1, <2>4, <2>5, <2>6 DEF FilesInv
<1>4. ASSUME NEW w \in Writers, Open(w) PROVE FilesInv'
  <2>1. /\ UNCHANGED text /\ dir' \in onDisk' /\ w \in Files /\ w # Missing
        /\ \A d \in onDisk' \cup {dir'} : {d.current, d.backup} \subseteq {w}
              \cup UNION {{e.current, e.backup} : e \in onDisk \cup {dir}}
    BY <1>0, <1>4, FileTypes DEF Open, Relink, HistoryTypeOK, Dirs
  <2>2. /\ pc[w] = "open" /\ pc'[w] = "repair" /\ \A q \in Writers \ {w} : pc'[q] = pc[q]
        /\ pc[w] \in Writing
    BY <1>0, <1>4 DEF Open, Writing
  <2>3. \A q \in Writers \ {w} : pc[q] \notin Writing
    BY <1>0, <2>2, Alone
  <2>4. ASSUME NEW q \in Writers PROVE NotYet(q)'
    <3>1. NotYet(q)
      BY <1>0
    <3>2. CASE q = w
      BY <2>2, <3>2 DEF NotYet
    <3>3. CASE q # w
      <4>1. pc[q] \in {"lock", "stat", "unlink", "replace", "rotated", "open"} =>
               \A d \in onDisk' \cup {dir'} : q \notin {d.current, d.backup}
        BY <2>1, <3>1, <3>3 DEF NotYet
      <4> QED BY <2>1, <2>2, <3>1, <3>3, <4>1 DEF NotYet
    <3> QED BY <3>2, <3>3
  <2>5. \A q \in Writers \ {w} : Room(q)'
    BY <2>2, <2>3 DEF Room, Writing
  <2>6. dir'.current # Missing /\ Len(Content(dir.current)') = Len(Content(dir.current))
    <3>1. CASE dir.current = Missing
      <4>1. dir'.current = w /\ text'[w] = <<>>
        BY <1>0, <1>4, <2>2, <3>1 DEF Open, Relink, HistoryTypeOK, Dirs, NotYet
      <4> QED BY <2>1, <3>1, <4>1 DEF Content
    <3>2. CASE dir.current # Missing
      BY <1>4, <3>2, FilesAlone DEF Open
    <3> QED BY <3>1, <3>2
  <2>7. Room(w)'
    BY <1>0, <2>2, <2>6 DEF Room
  <2> QED BY <1>0, <2>1, <2>4, <2>5, <2>7 DEF FilesInv
<1>5. ASSUME NEW w \in Writers, Repair(w) PROVE FilesInv'
  <2>1. /\ pc[w] = "repair" /\ pc'[w] = "write" /\ \A q \in Writers \ {w} : pc'[q] = pc[q]
        /\ UNCHANGED <<dir, onDisk>>
        /\ Extend(dir.current, <<Newline>>) \/ UNCHANGED text
    BY <1>0, <1>5 DEF Repair
  <2>2. CASE Extend(dir.current, <<Newline>>)
    <3>1. <<Newline>> \in Seq(Tokens) /\ Len(<<Newline>>) <= 1
      BY TokenTypes
    <3> QED BY <2>1, <2>2, <3>1, AppendFits
  <2>3. CASE UNCHANGED text
    <3>1. Content(dir.current)' = Content(dir.current) /\ Len(Content(dir.current)) \in Nat
      BY <1>0, <2>1, <2>3, FilesAlone, FileTypes
    <3>2. ASSUME NEW q \in Writers PROVE NotYet(q)' /\ Room(q)'
      <4>1. NotYet(q) /\ Room(q)
        BY <1>0
      <4> QED BY <1>0, <2>1, <2>3, <3>1, <4>1 DEF NotYet, Room, RecordSize
    <3> QED BY <1>0, <2>1, <2>3, <3>2 DEF FilesInv
  <2> QED BY <2>1, <2>2, <2>3
<1>6. ASSUME NEW w \in Writers, Write(w) PROVE FilesInv'
  <2>1. /\ pc[w] = "write" /\ pc'[w] = "sync" /\ \A q \in Writers \ {w} : pc'[q] = pc[q]
        /\ UNCHANGED <<dir, onDisk>> /\ Extend(dir.current, <<Text(w), Newline>>)
    BY <1>0, <1>6 DEF Write
  <2>2. <<Text(w), Newline>> \in Seq(Tokens) /\ Len(<<Text(w), Newline>>) <= 2
    BY <1>0, FileTypes, TokenTypes
  <2> QED BY <2>1, <2>2, AppendFits
<1>7. ASSUME NEW w \in Writers, WriteCut(w) PROVE FilesInv'
  <2>1. PICK t \in {Text(w), Cut} : Extend(dir.current, <<t>>)
    BY <1>7 DEF WriteCut
  <2>2. t \in Tokens
    BY <1>0, FileTypes, TokenTypes
  <2>3. <<t>> \in Seq(Tokens) /\ Len(<<t>>) <= 2
    BY <2>2, TokenTypes
  <2>4. /\ pc[w] = "write" /\ UNCHANGED <<dir, onDisk>> /\ pc'[w] \in {"close", "done"}
        /\ \A q \in Writers \ {w} : pc'[q] = pc[q]
    BY <1>0, <1>7 DEF WriteCut
  <2> QED BY <2>1, <2>3, <2>4, AppendFits
<1>8. ASSUME NEW w \in Writers, Sync(w) PROVE FilesInv'
  <2>1. UNCHANGED <<dir, onDisk, text>> /\ Content(dir.current)' = Content(dir.current)
    BY <1>8, FilesAlone DEF Sync
  <2>2. ASSUME NEW q \in Writers PROVE NotYet(q)' /\ Room(q)'
    BY <1>0, <1>8, <2>1 DEF Sync, NotYet, Room
  <2> QED BY <1>0, <2>1, <2>2 DEF FilesInv
<1>9. ASSUME NEW w \in Writers, DirSync(w) PROVE FilesInv'
  <2>1. UNCHANGED <<dir, text>> /\ onDisk' = {dir} /\ Content(dir.current)' = Content(dir.current)
    BY <1>9, FilesAlone DEF DirSync
  <2>2. ASSUME NEW q \in Writers PROVE NotYet(q)' /\ Room(q)'
    BY <1>0, <1>9, <2>1 DEF DirSync, NotYet, Room
  <2> QED BY <1>0, <2>1, <2>2 DEF FilesInv
<1>10. ASSUME NEW r \in Readers, ReadBackup(r) \/ ReadCurrent(r) PROVE FilesInv'
  <2>1. /\ UNCHANGED files /\ \A q \in Procs : pc'[q] = pc[q] \/ pc'[q] \in {"current", "close"}
        /\ pc[r] \in Reading /\ r \in Procs
    BY <1>0, <1>10 DEF ReadBackup, ReadCurrent, Reading, Procs
  <2>2. \A q \in Writers : pc'[q] # "current"
    BY <1>0, <1>10, HistoryAssumption DEF ReadBackup, ReadCurrent, HistoryInv, Lock, Reading, Procs
  <2> QED BY <1>0, <2>1, <2>2, Untouched
<1>11. ASSUME PowerLoss PROVE FilesInv'
  <2>1. dir' \in onDisk /\ onDisk' = {dir'} /\ \A f \in Files : Len(text'[f]) \in Nat
    BY <1>0, <1>11, Survived DEF PowerLoss
  <2>2. \A f \in Files : Len(text'[f]) <= MaxBytes
    BY <1>0, <1>11, <2>1, FileTypes, Survived
  <2>3. \A q \in Writers : pc'[q] \in {"lock", "close", "done"} /\ (pc'[q] = "lock" => pc[q] = "lock")
    BY <1>0, <1>11 DEF PowerLoss, Running, HistoryInv, Lock, Writing, Reading
  <2>4. ASSUME NEW q \in Writers PROVE NotYet(q)' /\ Room(q)'
    <3>1. NotYet(q) /\ q \in Files
      BY <1>0, FileTypes
    <3> QED BY <1>0, <1>11, <2>1, <2>3, <3>1, Survived DEF NotYet, Room
  <2> QED BY <2>1, <2>2, <2>4 DEF FilesInv
<1>12. CASE UNCHANGED vars
  BY <1>12, Untouched DEF vars, procs
<1> QED
  BY <1>1, <1>2, <1>3, <1>4, <1>5, <1>6, <1>7, <1>8, <1>9, <1>10, <1>11, <1>12
  DEF Next, Step, WriterStep, ReaderStep, Finished, Procs

(* The readers: who has read one of the files, or both, keeps the writers out.        *)
LEMMA CollectedStep ==
    ASSUME HistoryInv, [Next]_vars
    PROVE  /\ read' = [r \in Readers |-> read'[r]]
           /\ \A r \in Readers : Collected(r)'
<1> DEFINE Goal == /\ read' = [r \in Readers |-> read'[r]]
                   /\ \A r \in Readers : Collected(r)'
<1> USE DEF Goto, Decide
<1>0. /\ read = [r \in Readers |-> read[r]]
      /\ \A r \in Readers : Collected(r) /\ Lock(r) /\ r \in Procs
      /\ \A w \in Writers : Lock(w) /\ w \in Procs
      /\ Readers \cap Writers = {}
      /\ pc \in [Procs -> {"lock", "close", "done"} \cup Writing \cup Reading]
      /\ outcome \in [Procs -> {"none", "ok", "stopped"}]
  BY HistoryAssumption DEF HistoryInv, HistoryTypeOK, Procs
<1>1. ASSUME NEW p \in Procs, TryLock(p) \/ Fail(p) PROVE Goal
  <2>1. /\ UNCHANGED files /\ read' = read /\ \A q \in Procs \ {p} : pc'[q] = pc[q] /\ outcome'[q] = outcome[q]
        /\ pc'[p] # "current"
        /\ pc'[p] = "close" => outcome'[p] = "stopped"
    BY <1>0, <1>1 DEF TryLock, Fail
  <2>2. Content(dir.backup)' = Content(dir.backup) /\ Readable' = Readable
    BY <2>1, FilesAlone DEF files
  <2> QED BY <1>0, <2>1, <2>2 DEF Collected
<1>2. ASSUME NEW p \in Procs, Close(p) \/ Kill(p) PROVE Goal
  <2>1. /\ UNCHANGED files /\ \A q \in Procs \ {p} : pc'[q] = pc[q] /\ outcome'[q] = outcome[q]
        /\ pc'[p] = "done" /\ Return({p})
    BY <1>0, <1>2 DEF Close, Kill
  <2>2. Content(dir.backup)' = Content(dir.backup) /\ Readable' = Readable
    BY <2>1, FilesAlone DEF files
  <2> QED BY <1>0, <2>1, <2>2 DEF Collected, Return
<1>3. ASSUME NEW w \in Writers,
             \/ Stat(w) \/ Unlink(w) \/ Replace(w) \/ SyncRotation(w) \/ Open(w) \/ Repair(w)
             \/ Write(w) \/ WriteCut(w) \/ Sync(w) \/ DirSync(w)
      PROVE  Goal
  <2>1. /\ read' = read /\ \A q \in Procs \ {w} : pc'[q] = pc[q] /\ outcome'[q] = outcome[q]
        /\ pc[w] \in Writing
    BY <1>0, <1>3
    DEF Stat, Unlink, Replace, SyncRotation, Open, Repair, Write, WriteCut, Sync, DirSync, Writing
  <2>2. \A r \in Readers : r \notin holders
    BY <1>0, <2>1 DEF Lock
  <2>3. ASSUME NEW r \in Readers
        PROVE  ~(pc[r] = "current") /\ ~(pc[r] = "close" /\ outcome[r] = "ok")
    BY <1>0, <2>2 DEF Lock, Reading
  <2> QED BY <1>0, <2>1, <2>3 DEF Collected
<1>4. ASSUME NEW p \in Readers, ReadBackup(p) PROVE Goal
  <2>1. /\ UNCHANGED files /\ \A q \in Procs \ {p} : pc'[q] = pc[q] /\ outcome'[q] = outcome[q]
        /\ pc'[p] = "current" /\ read' = [read EXCEPT ![p] = Records(Content(dir.backup))]
    BY <1>0, <1>4 DEF ReadBackup
  <2>2. Content(dir.backup)' = Content(dir.backup) /\ Readable' = Readable
    BY <2>1, FilesAlone DEF files
  <2> QED BY <1>0, <2>1, <2>2 DEF Collected
<1>5. ASSUME NEW p \in Readers, ReadCurrent(p) PROVE Goal
  <2>1. /\ UNCHANGED files /\ \A q \in Procs \ {p} : pc'[q] = pc[q] /\ outcome'[q] = outcome[q]
        /\ pc[p] = "current" /\ pc'[p] = "close"
        /\ read' = [read EXCEPT ![p] = @ \o Records(Content(dir.current))]
    BY <1>0, <1>5 DEF ReadCurrent
  <2>2. Content(dir.backup)' = Content(dir.backup) /\ Readable' = Readable
    BY <2>1, FilesAlone DEF files
  <2>3. read[p] = Records(Content(dir.backup))
    BY <1>0, <2>1 DEF Collected
  <2>4. read'[p] = Readable
    BY <1>0, <2>1, <2>3 DEF Readable
  <2> QED BY <1>0, <2>1, <2>2, <2>4 DEF Collected
<1>6. ASSUME PowerLoss PROVE Goal
  <2>1. /\ Return(Running) /\ pc' = [p \in Procs |-> IF p \in Running THEN "done" ELSE pc[p]]
        /\ outcome' = [p \in Procs |-> IF p \in Running THEN Verdict(p) ELSE outcome[p]]
    BY <1>6 DEF PowerLoss
  <2>2. ASSUME NEW r \in Readers
        PROVE  ~(pc'[r] = "current") /\ ~(pc'[r] = "close" /\ outcome'[r] = "ok")
    BY <1>0, <2>1 DEF Lock, Reading, Running
  <2> QED BY <2>1, <2>2 DEF Collected, Return
<1>7. CASE UNCHANGED vars
  <2>1. UNCHANGED <<dir, text, pc, read, outcome>>
    BY <1>7 DEF vars, files, procs
  <2>2. Content(dir.backup)' = Content(dir.backup) /\ Readable' = Readable
    BY <2>1, FilesAlone
  <2> QED BY <1>0, <2>1, <2>2 DEF Collected
<1> QED
  BY <1>1, <1>2, <1>3, <1>4, <1>5, <1>6, <1>7
  DEF Next, Step, WriterStep, ReaderStep, Finished, Procs

LEMMA HistoryStep == HistoryInv /\ [Next]_vars => HistoryInv'
<1> SUFFICES ASSUME HistoryInv, [Next]_vars PROVE HistoryInv'
  OBVIOUS
<1>1. HistoryTypeOK'
  BY TypeStep
<1>2. \A p \in Procs : Lock(p)'
  BY LockStep
<1>3. FilesInv'
  BY FilesStep
<1>4. read' = [r \in Readers |-> read'[r]] /\ \A r \in Readers : Collected(r)'
  BY CollectedStep
<1> QED BY <1>1, <1>2, <1>3, <1>4 DEF HistoryInv, FilesInv

LEMMA HistoryInvariant == Spec => []HistoryInv
BY HistoryInit, HistoryStep, PTL DEF Spec

-----------------------------------------------------------------------------
(* Every variable keeps its type, through every crash and power loss.                 *)
THEOREM HistoryTypeCorrect == Spec => []HistoryTypeOK
BY HistoryInvariant, PTL DEF HistoryInv

(* The active file and its backup never exceed the cap (_repair_and_append and        *)
(* _rotate_if_needed), whatever was torn, repaired or cut off before.                 *)
THEOREM SizeBounded == Spec => []SizeBound
<1>1. HistoryInv => SizeBound
  <2> SUFFICES ASSUME HistoryInv PROVE SizeBound
    OBVIOUS
  <2>1. /\ dir.current \in Files \cup {Missing} /\ dir.backup \in Files \cup {Missing}
        /\ \A f \in Files : Len(text[f]) <= MaxBytes
        /\ MaxBytes \in Nat
    BY HistoryAssumption, FileTypes DEF HistoryInv
  <2>2. \A f \in Files \cup {Missing} : Len(Content(f)) <= MaxBytes
    BY <2>1 DEF Content
  <2> QED BY <2>1, <2>2 DEF SizeBound
<1> QED BY <1>1, HistoryInvariant, PTL

(* A process alone with the files while it writes them, and readers that share them   *)
(* with nobody who writes (_acquire_directory_lock): what was proved of the lock.     *)
Exclusive ==
    \A w \in Writers, p \in Procs :
        pc[w] \in Writing /\ p # w => pc[p] \notin Writing \cup Reading

(* Two requests never rotate, repair or append at the same time, and no reader is     *)
(* between its two files while one does (the flock of _acquire_directory_lock).       *)
THEOREM WritersExclude == Spec => []Exclusive
<1>1. HistoryInv => Exclusive
  BY Alone DEF Exclusive
<1> QED BY <1>1, HistoryInvariant, PTL

(* What a reader returns is what both files say at one instant (read_history).        *)
THEOREM ReadsAreConsistent == Spec => []ReadIsConsistent
<1>1. HistoryInv => ReadIsConsistent
  BY DEF HistoryInv, Collected, ReadIsConsistent
<1> QED BY <1>1, HistoryInvariant, PTL

-----------------------------------------------------------------------------
(* What is true of 0, and of n + 1 when it is of n, is true of every n: the set of    *)
(* the others has no least element, since its intervals 0..n are finite.              *)
LEMMA SetInduction ==
    ASSUME NEW S, 0 \in S, \A n \in Nat : n \in S => n + 1 \in S
    PROVE  \A n \in Nat : n \in S
<1> DEFINE T == {0..n : n \in Nat \ S}
<1> SUFFICES ASSUME Nat \ S # {} PROVE FALSE
  OBVIOUS
<1>1. T # {} /\ T \subseteq FiniteSubsetsOf(Nat)
  <2>1. \A n \in Nat : IsFiniteSet(0..n) /\ 0..n \subseteq Nat
    BY FS_Interval
  <2> QED BY <2>1 DEF FiniteSubsetsOf
<1>2. PICK x \in T : \A y \in T : <<y, x>> \notin StrictSubsetOrdering(Nat)
  <2> HIDE DEF T
  <2> QED BY <1>1, WFMin, FS_StrictSubsetOrderingWellFounded
<1>3. PICK n \in Nat \ S : x = 0..n
  OBVIOUS
<1>4. n # 0 /\ n - 1 \in Nat \ S
  BY <1>3
<1>5. 0..(n - 1) \in T /\ 0..(n - 1) \subseteq 0..n /\ 0..(n - 1) # 0..n
  BY <1>3, <1>4
<1>6. <<0..(n - 1), 0..n>> \in StrictSubsetOrdering(Nat)
  <2>1. 0..(n - 1) \in SUBSET Nat /\ 0..n \in SUBSET Nat
    BY <1>3, <1>4
  <2> QED BY <1>5, <2>1 DEF StrictSubsetOrdering
<1> QED BY <1>2, <1>3, <1>5, <1>6

(* The recursive function is what its equation says.                                  *)
LEMMA PickedDef ==
    ASSUME NEW s, NEW K, Len(s) \in Nat
    PROVE  /\ PickedUpTo(s, K)[0] = <<>>
           /\ \A i \in 1..Len(s) :
                PickedUpTo(s, K)[i] = IF i \in K THEN Append(PickedUpTo(s, K)[i - 1], s[i])
                                                 ELSE PickedUpTo(s, K)[i - 1]
<1> DEFINE Loop(g, n) ==
             g = [i \in 0..n |-> IF i = 0 THEN <<>>
                                 ELSE IF i \in K THEN Append(g[i - 1], s[i]) ELSE g[i - 1]]
           S == {n \in Nat : \E g : Loop(g, n)}
<1>1. 0 \in S
  <2>1. Loop([i \in 0..0 |-> <<>>], 0)
    OBVIOUS
  <2> QED BY <2>1
<1>2. ASSUME NEW n \in Nat, n \in S PROVE n + 1 \in S
  <2>1. PICK g : Loop(g, n)
    BY <1>2
  <2> DEFINE h == [i \in 0..(n + 1) |->
                     IF i <= n THEN g[i] ELSE IF i \in K THEN Append(g[n], s[i]) ELSE g[n]]
  <2>2. ASSUME NEW i \in 0..(n + 1)
        PROVE  h[i] = IF i = 0 THEN <<>>
                      ELSE IF i \in K THEN Append(h[i - 1], s[i]) ELSE h[i - 1]
    <3>1. CASE i = n + 1
      BY <3>1
    <3>2. CASE i # n + 1 /\ i # 0
      <4>1. i \in 0..n /\ i - 1 \in 0..(n + 1) /\ i - 1 <= n /\ i <= n
        BY <3>2
      <4>2. h[i] = g[i] /\ h[i - 1] = g[i - 1]
        BY <4>1
      <4>3. g[i] = IF i \in K THEN Append(g[i - 1], s[i]) ELSE g[i - 1]
        BY <2>1, <3>2, <4>1
      <4> HIDE DEF h
      <4> QED BY <3>2, <4>2, <4>3
    <3>3. CASE i = 0
      BY <2>1, <3>3
    <3> QED BY <3>1, <3>2, <3>3
  <2> HIDE DEF h
  <2>3. Loop(h, n + 1)
    BY <2>2 DEF h
  <2> QED BY <2>3
<1>3. Len(s) \in S
  <2> HIDE DEF S
  <2> QED BY <1>1, <1>2, SetInduction
<1>4. Loop(PickedUpTo(s, K), Len(s))
  BY <1>3 DEF PickedUpTo
<1> HIDE DEF S
<1> DEFINE P == PickedUpTo(s, K)
<1>5. P = [i \in 0..Len(s) |-> IF i = 0 THEN <<>>
                               ELSE IF i \in K THEN Append(P[i - 1], s[i]) ELSE P[i - 1]]
  BY <1>4
<1> HIDE DEF P
<1>6. P[0] = <<>>
  BY <1>5
<1>7. ASSUME NEW i \in 1..Len(s)
      PROVE  P[i] = IF i \in K THEN Append(P[i - 1], s[i]) ELSE P[i - 1]
  <2>1. i \in 0..Len(s) /\ i # 0
    OBVIOUS
  <2> QED BY <1>5, <2>1
<1> QED BY <1>6, <1>7 DEF P

(* A part of a sequence is a sequence of the elements at the chosen positions.        *)
LEMMA PickedType ==
    ASSUME NEW S, NEW s \in Seq(S), NEW K
    PROVE  \A n \in 0..Len(s) :
             /\ PickedUpTo(s, K)[n] \in Seq(S)
             /\ Range(PickedUpTo(s, K)[n]) = {s[i] : i \in (1..n) \cap K}
<1> DEFINE P == PickedUpTo(s, K)
           Good(n) == P[n] \in Seq(S) /\ Range(P[n]) = {s[i] : i \in (1..n) \cap K}
           T == {n \in Nat : n <= Len(s) => Good(n)}
<1>0. /\ Len(s) \in Nat /\ \A i \in 1..Len(s) : s[i] \in S
      /\ P[0] = <<>>
      /\ \A i \in 1..Len(s) : P[i] = IF i \in K THEN Append(P[i - 1], s[i]) ELSE P[i - 1]
  BY PickedDef
<1> HIDE DEF P
<1>1. 0 \in T
  <2>1. P[0] \in Seq(S) /\ Range(P[0]) = {} /\ (1..0) \cap K = {}
    BY <1>0 DEF Range
  <2> QED BY <2>1
<1>2. ASSUME NEW n \in Nat, n \in T, n + 1 <= Len(s) PROVE Good(n + 1)
  <2>1. n <= Len(s) /\ n + 1 \in 1..Len(s) /\ (n + 1) - 1 = n /\ s[n + 1] \in S
    BY <1>0, <1>2
  <2>2. Good(n)
    BY <1>2, <2>1
  <2>3. P[n + 1] = IF n + 1 \in K THEN Append(P[n], s[n + 1]) ELSE P[n]
    <3> DEFINE m == n + 1
    <3>1. m \in 1..Len(s) /\ m - 1 = n
      BY <2>1
    <3> HIDE DEF m
    <3>2. P[m] = IF m \in K THEN Append(P[n], s[m]) ELSE P[n]
      BY <1>0, <3>1
    <3> QED BY <3>2 DEF m
  <2>4. CASE n + 1 \in K
    <3>1. P[n + 1] = Append(P[n], s[n + 1]) /\ P[n + 1] \in Seq(S)
      BY <2>1, <2>2, <2>3, <2>4
    <3>2. Range(P[n + 1]) = Range(P[n]) \cup {s[n + 1]}
      <4> DEFINE p == P[n]
                 x == s[n + 1]
      <4>1. p \in Seq(S) /\ x \in S
        BY <2>1, <2>2
      <4> HIDE DEF p, x
      <4>2. /\ DOMAIN Append(p, x) = 1..(Len(p) + 1) /\ DOMAIN p = 1..Len(p) /\ Len(p) \in Nat
            /\ Append(p, x)[Len(p) + 1] = x /\ \A i \in 1..Len(p) : Append(p, x)[i] = p[i]
        BY <4>1
      <4>3. Range(Append(p, x)) = Range(p) \cup {x}
        BY <4>2 DEF Range
      <4> QED BY <3>1, <4>3 DEF p, x
    <3>3. (1..(n + 1)) \cap K = ((1..n) \cap K) \cup {n + 1}
      BY <2>4
    <3>4. {s[i] : i \in (1..(n + 1)) \cap K} = {s[i] : i \in (1..n) \cap K} \cup {s[n + 1]}
      BY <3>3
    <3> QED BY <2>2, <3>1, <3>2, <3>4
  <2>5. CASE n + 1 \notin K
    <3>1. (1..(n + 1)) \cap K = (1..n) \cap K
      BY <2>5
    <3> QED BY <2>2, <2>3, <2>5, <3>1
  <2> QED BY <2>4, <2>5
<1> HIDE DEF Good
<1>3. \A n \in Nat : n \in T
  <2>1. \A n \in Nat : n \in T => n + 1 \in T
    BY <1>2
  <2> HIDE DEF T
  <2> QED BY <1>1, <2>1, SetInduction
<1>4. \A n \in 0..Len(s) : Good(n)
  BY <1>0, <1>3
<1> QED BY <1>4 DEF P, Good

(* Sequences that agree on the chosen of their first positions have the same part.    *)
LEMMA PickedSame ==
    ASSUME NEW s, NEW t, NEW K, NEW L, Len(s) \in Nat, Len(t) \in Nat,
           NEW m \in 0..Len(s), m <= Len(t),
           \A i \in 1..m : (i \in K <=> i \in L) /\ (i \in K => s[i] = t[i])
    PROVE  PickedUpTo(s, K)[m] = PickedUpTo(t, L)[m]
<1> DEFINE P == PickedUpTo(s, K)
           Q == PickedUpTo(t, L)
           T == {n \in Nat : n <= m => P[n] = Q[n]}
<1>0. /\ P[0] = <<>> /\ Q[0] = <<>>
      /\ \A i \in 1..Len(s) : P[i] = IF i \in K THEN Append(P[i - 1], s[i]) ELSE P[i - 1]
      /\ \A i \in 1..Len(t) : Q[i] = IF i \in L THEN Append(Q[i - 1], t[i]) ELSE Q[i - 1]
  BY PickedDef
<1> HIDE DEF P, Q
<1>1. 0 \in T
  BY <1>0
<1>2. ASSUME NEW n \in Nat, n \in T, n + 1 <= m PROVE P[n + 1] = Q[n + 1]
  <2> DEFINE k == n + 1
  <2>1. k \in 1..m /\ k \in 1..Len(s) /\ k \in 1..Len(t) /\ k - 1 = n /\ n <= m
    BY <1>2
  <2>2. P[n] = Q[n]
    BY <1>2, <2>1
  <2> HIDE DEF k
  <2>3. P[k] = Q[k]
    BY <1>0, <2>1, <2>2
  <2> QED BY <2>3 DEF k
<1>3. \A n \in Nat : n \in T
  <2>1. \A n \in Nat : n \in T => n + 1 \in T
    BY <1>2
  <2> HIDE DEF T
  <2> QED BY <1>1, <2>1, SetInduction
<1> QED BY <1>3 DEF P, Q

(* Positions that are not chosen add nothing.                                         *)
LEMMA PickedSkip ==
    ASSUME NEW s, NEW K, Len(s) \in Nat, NEW m \in 0..Len(s), NEW l \in m..Len(s),
           \A i \in (m + 1)..l : i \notin K
    PROVE  PickedUpTo(s, K)[l] = PickedUpTo(s, K)[m]
<1> DEFINE P == PickedUpTo(s, K)
           T == {n \in Nat : m + n <= l => P[m + n] = P[m]}
<1>0. \A i \in 1..Len(s) : P[i] = IF i \in K THEN Append(P[i - 1], s[i]) ELSE P[i - 1]
  BY PickedDef
<1> HIDE DEF P
<1>1. 0 \in T
  OBVIOUS
<1>2. ASSUME NEW n \in Nat, n \in T, m + (n + 1) <= l PROVE P[m + (n + 1)] = P[m]
  <2> DEFINE k == m + (n + 1)
  <2>1. k \in (m + 1)..l /\ k \in 1..Len(s) /\ k - 1 = m + n /\ m + n <= l
    BY <1>2
  <2>2. P[m + n] = P[m]
    BY <1>2, <2>1
  <2> HIDE DEF k
  <2>3. P[k] = P[m]
    BY <1>0, <2>1, <2>2
  <2> QED BY <2>3 DEF k
<1>3. \A n \in Nat : n \in T
  <2>1. \A n \in Nat : n \in T => n + 1 \in T
    BY <1>2
  <2> HIDE DEF T
  <2> QED BY <1>1, <2>1, SetInduction
<1>4. l - m \in Nat /\ m + (l - m) = l
  OBVIOUS
<1>5. m + (l - m) <= l => P[m + (l - m)] = P[m]
  BY <1>3, <1>4
<1> QED BY <1>4, <1>5 DEF P

(* What is left of a sequence: its elements that are not in the set.                  *)
LEMMA WithoutType ==
    ASSUME NEW S, NEW s \in Seq(S), NEW g
    PROVE  Without(s, g) \in Seq(S) /\ Range(Without(s, g)) = Range(s) \ g
<1> DEFINE K == {i \in 1..Len(s) : s[i] \notin g}
<1>1. Len(s) \in Nat /\ Len(s) \in 0..Len(s) /\ DOMAIN s = 1..Len(s)
  OBVIOUS
<1>2. PickedUpTo(s, K)[Len(s)] \in Seq(S)
      /\ Range(PickedUpTo(s, K)[Len(s)]) = {s[i] : i \in (1..Len(s)) \cap K}
  <2> HIDE DEF K
  <2> QED BY <1>1, PickedType
<1>3. {s[i] : i \in (1..Len(s)) \cap K} = Range(s) \ g
  BY <1>1 DEF Range
<1> QED BY <1>2, <1>3 DEF Without, Picked

(* Nothing is left out, or everything.                                                *)
LEMMA WithoutNone ==
    ASSUME NEW S, NEW s \in Seq(S), NEW g, Range(s) \cap g = {}
    PROVE  Without(s, g) = s
<1> DEFINE K == {i \in 1..Len(s) : s[i] \notin g}
           P == PickedUpTo(s, K)
           Good(n) == Len(P[n]) = n /\ P[n] \in Seq(S) /\ \A i \in 1..n : P[n][i] = s[i]
           T == {n \in Nat : n <= Len(s) => Good(n)}
<1>0. /\ Len(s) \in Nat /\ K = 1..Len(s)
      /\ P[0] = <<>>
      /\ \A i \in 1..Len(s) : P[i] = IF i \in K THEN Append(P[i - 1], s[i]) ELSE P[i - 1]
      /\ \A n \in 0..Len(s) : P[n] \in Seq(S)
  <2>1. Len(s) \in Nat /\ K = 1..Len(s)
    BY DEF Range
  <2> HIDE DEF K
  <2> QED BY <2>1, PickedDef, PickedType
<1> HIDE DEF P, K
<1>1. 0 \in T
  <2>1. P[0] \in Seq(S) /\ Len(P[0]) = 0
    BY <1>0
  <2> QED BY <2>1
<1>2. ASSUME NEW n \in Nat, n \in T, n + 1 <= Len(s) PROVE Good(n + 1)
  <2> DEFINE m == n + 1
  <2>1. n <= Len(s) /\ m \in 1..Len(s) /\ m - 1 = n /\ s[m] \in S
    BY <1>0, <1>2
  <2>2. Good(n) /\ P[m] = Append(P[n], s[m])
    <3> HIDE DEF m
    <3> QED BY <1>0, <1>2, <2>1
  <2>3. \A i \in 1..m : i = m \/ i \in 1..n
    OBVIOUS
  <2>4. Len(P[m]) = m /\ P[m] \in Seq(S) /\ \A i \in 1..m : P[m][i] = s[i]
    <3> HIDE DEF m
    <3>1. m = n + 1
      BY DEF m
    <3> QED BY <2>1, <2>2, <2>3, <3>1
  <2> QED BY <2>4
<1> HIDE DEF Good
<1>3. \A n \in Nat : n \in T
  <2>1. \A n \in Nat : n \in T => n + 1 \in T
    BY <1>2
  <2> HIDE DEF T
  <2> QED BY <1>1, <2>1, SetInduction
<1>4. Good(Len(s))
  BY <1>0, <1>3
<1>5. P[Len(s)] = s
  <2> DEFINE q == P[Len(s)]
  <2>1. q \in Seq(S) /\ Len(q) = Len(s) /\ \A i \in 1..Len(s) : q[i] = s[i]
    BY <1>4 DEF Good
  <2> HIDE DEF q
  <2>2. q = s
    BY <2>1
  <2> QED BY <2>2 DEF q
<1> QED BY <1>5 DEF Without, Picked, P, K

(* When all are left out, nothing is left.                                            *)
LEMMA WithoutAll ==
    ASSUME NEW S, NEW s \in Seq(S), NEW g, Range(s) \subseteq g
    PROVE  Without(s, g) = <<>>
<1> DEFINE K == {i \in 1..Len(s) : s[i] \notin g}
<1>1. /\ Len(s) \in Nat /\ 0 \in 0..Len(s) /\ Len(s) \in 0..Len(s)
      /\ \A i \in (0 + 1)..Len(s) : i \notin K
  BY DEF Range
<1>2. PickedUpTo(s, K)[Len(s)] = PickedUpTo(s, K)[0]
  <2> HIDE DEF K
  <2> QED BY <1>1, PickedSkip
<1>3. PickedUpTo(s, K)[0] = <<>>
  <2> HIDE DEF K
  <2> QED BY <1>1, PickedDef
<1> QED BY <1>2, <1>3 DEF Without, Picked

(* One element more.                                                                  *)
LEMMA WithoutAppend ==
    ASSUME NEW S, NEW s \in Seq(S), NEW x \in S, NEW g
    PROVE  Without(Append(s, x), g) = IF x \in g THEN Without(s, g) ELSE Append(Without(s, g), x)
<1> DEFINE t == Append(s, x)
           n == Len(s)
           K == {i \in 1..Len(s) : s[i] \notin g}
           L == {i \in 1..Len(t) : t[i] \notin g}
<1>1. /\ n \in Nat /\ Len(t) = n + 1 /\ t[n + 1] = x
      /\ \A i \in 1..n : t[i] = s[i]
  OBVIOUS
<1> HIDE DEF t, n
<1>2. /\ \A i \in 1..n : s[i] = t[i] /\ (i \in K <=> i \in L)
      /\ n + 1 \in L <=> x \notin g
  BY <1>1 DEF n
<1>3. PickedUpTo(s, K)[n] = PickedUpTo(t, L)[n]
  <2>1. Len(s) = n /\ Len(t) \in Nat /\ n \in 0..n /\ n <= Len(t)
    BY <1>1 DEF n
  <2> HIDE DEF K, L
  <2> QED BY <1>1, <1>2, <2>1, PickedSame
<1>4. PickedUpTo(t, L)[n + 1] = IF x \in g THEN PickedUpTo(t, L)[n]
                                           ELSE Append(PickedUpTo(t, L)[n], x)
  <2> DEFINE m == n + 1
  <2>1. m \in 1..Len(t) /\ m - 1 = n /\ Len(t) \in Nat /\ t[m] = x /\ (m \in L <=> x \notin g)
    BY <1>1, <1>2
  <2> HIDE DEF m, L
  <2>2. PickedUpTo(t, L)[m] = IF m \in L THEN Append(PickedUpTo(t, L)[n], x) ELSE PickedUpTo(t, L)[n]
    BY <2>1, PickedDef
  <2> QED BY <2>1, <2>2 DEF m
<1>5. /\ Without(t, g) = PickedUpTo(t, L)[n + 1]
      /\ Without(s, g) = PickedUpTo(s, K)[n]
  BY <1>1 DEF Without, Picked, n
<1> QED BY <1>3, <1>4, <1>5 DEF t

(* Parts of a concatenation.                                                          *)
LEMMA WithoutConcat ==
    ASSUME NEW S, NEW s \in Seq(S), NEW t \in Seq(S), NEW g
    PROVE  Without(s \o t, g) = Without(s, g) \o Without(t, g)
<1> DEFINE u == s \o t
           n == Len(s)
           K == {i \in 1..Len(s) : s[i] \notin g}
           L == {i \in 1..Len(t) : t[i] \notin g}
           M == {i \in 1..Len(u) : u[i] \notin g}
           P == PickedUpTo(t, L)
           Q == PickedUpTo(u, M)
           w == Without(s, g)
           Good(k) == Q[n + k] = w \o P[k]
           T == {k \in Nat : k <= Len(t) => Good(k)}
<1>0. /\ n \in Nat /\ Len(t) \in Nat /\ Len(u) = n + Len(t) /\ Len(u) \in Nat
      /\ \A i \in 1..n : u[i] = s[i]
      /\ \A i \in 1..Len(t) : u[n + i] = t[i] /\ t[i] \in S
      /\ u \in Seq(S)
  OBVIOUS
<1> HIDE DEF u
<1>1. /\ \A i \in 1..n : i \in M <=> i \in K
      /\ \A i \in 1..Len(t) : n + i \in M <=> i \in L
  <2>1. \A i \in 1..n : i \in 1..Len(u)
    BY <1>0
  <2>2. \A i \in 1..Len(t) : n + i \in 1..Len(u)
    BY <1>0
  <2> QED BY <1>0, <2>1, <2>2
<1>2. /\ P[0] = <<>> /\ w \in Seq(S) /\ w \o <<>> = w
      /\ \A i \in 1..Len(t) : P[i] = IF i \in L THEN Append(P[i - 1], t[i]) ELSE P[i - 1]
      /\ \A i \in 1..Len(u) : Q[i] = IF i \in M THEN Append(Q[i - 1], u[i]) ELSE Q[i - 1]
      /\ \A k \in 0..Len(t) : P[k] \in Seq(S)
  <2> HIDE DEF L, M
  <2>1. w \in Seq(S)
    BY WithoutType
  <2> HIDE DEF w
  <2>2. w \o <<>> = w
    BY <2>1
  <2>3. P[0] = <<>> /\ \A i \in 1..Len(t) : P[i] = IF i \in L THEN Append(P[i - 1], t[i]) ELSE P[i - 1]
    BY <1>0, PickedDef
  <2>4. \A i \in 1..Len(u) : Q[i] = IF i \in M THEN Append(Q[i - 1], u[i]) ELSE Q[i - 1]
    BY <1>0, PickedDef
  <2>5. \A k \in 0..Len(t) : P[k] \in Seq(S)
    BY PickedType
  <2> QED BY <2>1, <2>2, <2>3, <2>4, <2>5
<1>3. Q[n] = w
  <2>1. Len(s) = n /\ n \in 0..Len(s) /\ n <= Len(u) /\ \A i \in 1..n : s[i] = u[i] /\ (i \in K <=> i \in M)
    BY <1>0, <1>1
  <2>2. PickedUpTo(s, K)[n] = Q[n]
    <3>1. Len(s) \in Nat /\ Len(u) \in Nat
      BY <1>0
    <3> HIDE DEF K, M, n
    <3> QED BY <2>1, <3>1, PickedSame
  <2> QED BY <2>2 DEF Without, Picked
<1> HIDE DEF P, Q, L, M, K, w, n
<1>4. 0 \in T
  BY <1>0, <1>2, <1>3
<1>5. ASSUME NEW k \in Nat, k \in T, k + 1 <= Len(t) PROVE Good(k + 1)
  <2> DEFINE m == k + 1
             l == n + m
  <2>1. /\ k <= Len(t) /\ k \in 0..Len(t) /\ m \in 1..Len(t) /\ m - 1 = k
        /\ l \in 1..Len(u) /\ l - 1 = n + k
    BY <1>0, <1>5
  <2>2. Q[n + k] = w \o P[k] /\ P[k] \in Seq(S)
    BY <1>2, <1>5, <2>1
  <2>3. u[l] = t[m] /\ (l \in M <=> m \in L) /\ t[m] \in S
    BY <1>0, <1>1, <2>1
  <2> HIDE DEF m, l
  <2>4. /\ Q[l] = IF m \in L THEN Append(w \o P[k], t[m]) ELSE w \o P[k]
        /\ P[m] = IF m \in L THEN Append(P[k], t[m]) ELSE P[k]
    BY <1>2, <2>1, <2>2, <2>3
  <2>5. Append(w \o P[k], t[m]) = w \o Append(P[k], t[m])
    <3> DEFINE p == P[k]
               x == t[m]
    <3>1. w \in Seq(S) /\ p \in Seq(S) /\ x \in S
      BY <1>2, <2>2, <2>3
    <3> HIDE DEF p, x
    <3> DEFINE a == Append(w \o p, x)
               b == w \o Append(p, x)
    <3>2. /\ a \in Seq(S) /\ b \in Seq(S) /\ Len(w) \in Nat /\ Len(p) \in Nat
          /\ Len(a) = Len(w) + Len(p) + 1 /\ Len(b) = Len(w) + Len(p) + 1
      BY <3>1
    <3>3. ASSUME NEW i \in 1..(Len(w) + Len(p) + 1) PROVE a[i] = b[i]
      <4>1. CASE i \in 1..Len(w)
        BY <3>1, <3>2, <4>1
      <4>2. CASE i = Len(w) + Len(p) + 1
        BY <3>1, <3>2, <4>2
      <4>3. CASE i \in (Len(w) + 1)..(Len(w) + Len(p))
        <5>1. i - Len(w) \in 1..Len(p) /\ i \in 1..(Len(w) + Len(p)) /\ i \notin 1..Len(w)
          BY <3>2, <4>3
        <5> QED BY <3>1, <3>2, <5>1
      <4>4. \/ i \in 1..Len(w) \/ i = Len(w) + Len(p) + 1
            \/ i \in (Len(w) + 1)..(Len(w) + Len(p))
        BY <3>2
      <4> HIDE DEF a, b
      <4> QED BY <4>1, <4>2, <4>3, <4>4
    <3> HIDE DEF a, b
    <3>4. a = b
      BY <3>2, <3>3
    <3> QED BY <3>4 DEF a, b, p, x
  <2>6. Q[l] = w \o P[m]
    BY <2>4, <2>5
  <2> QED BY <2>6 DEF l, m
<1> HIDE DEF Good
<1>6. \A k \in Nat : k \in T
  <2>1. \A k \in Nat : k \in T => k + 1 \in T
    BY <1>5
  <2> HIDE DEF T
  <2> QED BY <1>4, <2>1, SetInduction
<1>7. Q[n + Len(t)] = w \o P[Len(t)]
  BY <1>0, <1>6 DEF Good
<1> QED BY <1>0, <1>7 DEF P, Q, L, M, w, u, Without, Picked

(* To choose fewer positions is to leave out the elements at the others.              *)
LEMMA PickedTwice ==
    ASSUME NEW S, NEW s \in Seq(S), NEW K, NEW L, L \subseteq K, NEW g,
           \A i \in (1..Len(s)) \cap K : s[i] \in g <=> i \notin L
    PROVE  Picked(s, L) = Without(Picked(s, K), g)
<1> DEFINE P == PickedUpTo(s, K)
           Q == PickedUpTo(s, L)
           Good(n) == Q[n] = Without(P[n], g)
           T == {n \in Nat : n <= Len(s) => Good(n)}
<1>0. /\ Len(s) \in Nat /\ \A i \in 1..Len(s) : s[i] \in S
      /\ P[0] = <<>> /\ Q[0] = <<>>
      /\ \A i \in 1..Len(s) : P[i] = IF i \in K THEN Append(P[i - 1], s[i]) ELSE P[i - 1]
      /\ \A i \in 1..Len(s) : Q[i] = IF i \in L THEN Append(Q[i - 1], s[i]) ELSE Q[i - 1]
      /\ \A n \in 0..Len(s) : P[n] \in Seq(S)
  <2>1. Len(s) \in Nat /\ \A i \in 1..Len(s) : s[i] \in S
    OBVIOUS
  <2>2. P[0] = <<>> /\ \A i \in 1..Len(s) : P[i] = IF i \in K THEN Append(P[i - 1], s[i]) ELSE P[i - 1]
    BY <2>1, PickedDef
  <2>3. Q[0] = <<>> /\ \A i \in 1..Len(s) : Q[i] = IF i \in L THEN Append(Q[i - 1], s[i]) ELSE Q[i - 1]
    BY <2>1, PickedDef
  <2>4. \A n \in 0..Len(s) : P[n] \in Seq(S)
    BY PickedType
  <2> QED BY <2>1, <2>2, <2>3, <2>4
<1> HIDE DEF P, Q
<1>1. 0 \in T
  <2>1. <<>> \in Seq(S) /\ Range(<<>>) \subseteq g
    BY DEF Range
  <2>2. Without(<<>>, g) = <<>>
    BY <2>1, WithoutAll
  <2> QED BY <1>0, <2>2
<1>2. ASSUME NEW n \in Nat, n \in T, n + 1 <= Len(s) PROVE Good(n + 1)
  <2> DEFINE m == n + 1
  <2>1. n <= Len(s) /\ n \in 0..Len(s) /\ m \in 1..Len(s) /\ m - 1 = n
    BY <1>2
  <2>2. Q[n] = Without(P[n], g) /\ P[n] \in Seq(S)
    BY <1>0, <1>2, <2>1
  <2> HIDE DEF m
  <2> DEFINE p == P[n]
             x == s[m]
  <2>3. /\ P[m] = IF m \in K THEN Append(p, x) ELSE p
        /\ Q[m] = IF m \in L THEN Append(Q[n], x) ELSE Q[n]
        /\ x \in S /\ p \in Seq(S) /\ Q[n] = Without(p, g)
        /\ (m \in K => (x \in g <=> m \notin L))
    BY <1>0, <2>1, <2>2
  <2> HIDE DEF p, x
  <2>4. Without(Append(p, x), g) = IF x \in g THEN Without(p, g) ELSE Append(Without(p, g), x)
    BY <2>3, WithoutAppend
  <2>5. Q[m] = Without(P[m], g)
    <3>1. CASE m \in K
      BY <2>3, <2>4, <3>1
    <3>2. CASE m \notin K
      BY <2>3, <3>2
    <3> QED BY <3>1, <3>2
  <2> QED BY <2>5 DEF m
<1> HIDE DEF Good
<1>3. \A n \in Nat : n \in T
  <2>1. \A n \in Nat : n \in T => n + 1 \in T
    BY <1>2
  <2> HIDE DEF T
  <2> QED BY <1>1, <2>1, SetInduction
<1>4. Good(Len(s))
  BY <1>0, <1>3
<1> QED BY <1>4 DEF P, Q, Good, Picked

-----------------------------------------------------------------------------
(* The records of a file.                                                             *)
By(t) == [i \in DOMAIN t |-> t[i].by]

(* Who wrote the tokens of a file.                                                    *)
LEMMA ByType ==
    ASSUME NEW t \in Seq(Tokens)
    PROVE  /\ By(t) \in Seq(Files \cup {Missing}) /\ Len(By(t)) = Len(t)
           /\ \A i \in 1..Len(t) : By(t)[i] = t[i].by /\ (t[i].kind = "text" => t[i].by \in Files)
           /\ Len(t) \in Nat /\ LinesAt(t) \subseteq 1..(Len(t) - 1)
<1>1. /\ Len(t) \in Nat /\ DOMAIN t = 1..Len(t) /\ \A i \in 1..Len(t) : t[i] \in Tokens
  OBVIOUS
<1>2. \A x \in Tokens : x.by \in Files \cup {Missing} /\ (x.kind = "text" => x.by \in Files)
  BY DEF Tokens, Text, Cut, Newline
<1>3. \A i \in 1..Len(t) : t[i].by \in Files \cup {Missing} /\ (t[i].kind = "text" => t[i].by \in Files)
  BY <1>1, <1>2
<1> QED BY <1>1, <1>3 DEF By, LinesAt

(* The records of a file are those of its lines.                                      *)
LEMMA RecordsType ==
    ASSUME NEW t \in Seq(Tokens)
    PROVE  Records(t) \in Seq(Files) /\ Range(Records(t)) = {t[i].by : i \in LinesAt(t)}
<1> DEFINE r == Records(t)
<1>1. r = PickedUpTo(By(t), LinesAt(t))[Len(t)]
  BY ByType DEF Records, Picked, By
<1>2. /\ r \in Seq(Files \cup {Missing})
      /\ Range(r) = {By(t)[i] : i \in (1..Len(t)) \cap LinesAt(t)}
  <2>1. /\ By(t) \in Seq(Files \cup {Missing}) /\ Len(By(t)) = Len(t) /\ Len(t) \in 0..Len(t)
    BY ByType
  <2> HIDE DEF r
  <2> QED BY <1>1, <2>1, PickedType
<1> HIDE DEF r
<1>3. /\ \A i \in LinesAt(t) : i \in 1..Len(t) /\ By(t)[i] = t[i].by /\ t[i].by \in Files
  BY ByType DEF LinesAt
<1>4. Range(r) = {t[i].by : i \in LinesAt(t)}
  BY <1>2, <1>3
<1>5. r \in Seq(Files)
  <2>1. \A k \in 1..Len(r) : r[k] \in Files
    <3>1. \A k \in 1..Len(r) : r[k] \in Range(r)
      BY <1>2 DEF Range
    <3> QED BY <1>3, <1>4, <3>1
  <2> QED BY <1>2, <2>1
<1> QED BY <1>4, <1>5 DEF r

(* A file that ends in a whole record without its newline.                            *)
Pending(t) ==
    /\ Len(t) > 0 /\ t[Len(t)].kind = "text"
    /\ Len(t) > 1 => t[Len(t) - 1] = Newline

(* One token more: only the newline behind a whole record makes one readable.         *)
LEMMA OneToken ==
    ASSUME NEW t \in Seq(Tokens), NEW x \in Tokens
    PROVE  /\ LinesAt(Append(t, x)) =
                 LinesAt(t) \cup (IF x = Newline /\ Pending(t) THEN {Len(t)} ELSE {})
           /\ Records(Append(t, x)) =
                 IF x = Newline /\ Pending(t) THEN Append(Records(t), t[Len(t)].by) ELSE Records(t)
<1> DEFINE u == Append(t, x)
           n == Len(t)
<1>1. /\ u \in Seq(Tokens) /\ Len(u) = n + 1 /\ n \in Nat /\ u[n + 1] = x
      /\ \A i \in 1..n : u[i] = t[i]
  OBVIOUS
<1> HIDE DEF u
<1>2. LinesAt(u) = LinesAt(t) \cup (IF x = Newline /\ Pending(t) THEN {n} ELSE {})
  <2>1. ASSUME NEW i \in 1..n
        PROVE  i \in LinesAt(u) <=> i \in LinesAt(t) \/ (i = n /\ x = Newline /\ Pending(t))
    <3>1. CASE i < n
      <4>1. /\ i \in 1..(Len(u) - 1) /\ i \in 1..(Len(t) - 1) /\ u[i] = t[i] /\ u[i + 1] = t[i + 1]
            /\ (i > 1 => u[i - 1] = t[i - 1])
        BY <1>1, <3>1
      <4> QED BY <3>1, <4>1 DEF LinesAt
    <3>2. CASE i = n
      <4>1. /\ i \in 1..(Len(u) - 1) /\ i \notin 1..(Len(t) - 1) /\ u[i] = t[n] /\ u[i + 1] = x
            /\ (i > 1 => u[i - 1] = t[n - 1]) /\ n > 0
        BY <1>1, <3>2
      <4> QED BY <3>2, <4>1 DEF LinesAt, Pending
    <3> QED BY <1>1, <3>1, <3>2
  <2>2. LinesAt(u) \subseteq 1..n /\ LinesAt(t) \subseteq 1..n
    BY <1>1 DEF LinesAt
  <2>3. Pending(t) => n \in 1..n
    BY <1>1 DEF Pending
  <2> QED BY <2>1, <2>2, <2>3
<1> DEFINE P == PickedUpTo(By(t), LinesAt(t))
           Q == PickedUpTo(By(u), LinesAt(u))
<1>3. /\ By(t) \in Seq(Files \cup {Missing}) /\ Len(By(t)) = n /\ Len(By(t)) \in Nat
      /\ By(u) \in Seq(Files \cup {Missing}) /\ Len(By(u)) = n + 1 /\ Len(By(u)) \in Nat
      /\ LinesAt(t) \subseteq 1..(n - 1) /\ LinesAt(u) \subseteq 1..n
      /\ \A i \in 1..n : By(t)[i] = By(u)[i] /\ By(u)[i] = t[i].by
  <2>1. \A i \in 1..n : i \in 1..(n + 1)
    BY <1>1
  <2> QED BY <1>1, <2>1, ByType
<1>4. Records(t) = P[n] /\ Records(u) = Q[n + 1]
  BY <1>1, <1>3 DEF Records, Picked, By
<1>5. Q[n + 1] = Q[n]
  <2> DEFINE m == n + 1
  <2>1. m \in 1..Len(By(u)) /\ m - 1 = n /\ m \notin LinesAt(u)
    BY <1>1, <1>3
  <2> HIDE DEF m
  <2>2. Q[m] = Q[n]
    BY <1>3, <2>1, PickedDef
  <2> QED BY <2>2 DEF m
<1>6. CASE ~(x = Newline /\ Pending(t))
  <2>1. LinesAt(u) = LinesAt(t)
    BY <1>2, <1>6
  <2>2. P[n] = Q[n]
    <3>1. n \in 0..Len(By(t)) /\ n <= Len(By(u))
      BY <1>1, <1>3
    <3> QED BY <1>3, <2>1, <3>1, PickedSame
  <2> HIDE DEF P, Q
  <2> QED BY <1>2, <1>4, <1>5, <1>6, <2>2 DEF u
<1>7. CASE x = Newline /\ Pending(t)
  <2>0. n > 0
    BY <1>7 DEF Pending
  <2> DEFINE k == n - 1
  <2>1. /\ n \in LinesAt(u) /\ n \notin LinesAt(t)
        /\ k \in 0..Len(By(t)) /\ k <= Len(By(u)) /\ n \in 1..Len(By(t)) /\ n \in 1..Len(By(u))
        /\ \A i \in 1..k : i \in 1..n /\ i # n
    BY <1>1, <1>2, <1>3, <1>7, <2>0
  <2>2. \A i \in 1..k : i \in LinesAt(t) <=> i \in LinesAt(u)
    BY <1>2, <1>7, <2>1
  <2> HIDE DEF k
  <2>3. P[k] = Q[k]
    BY <1>3, <2>1, <2>2, PickedSame
  <2>4. P[n] = P[n - 1]
    BY <1>3, <2>1, PickedDef
  <2>5. Q[n] = Append(Q[n - 1], By(u)[n])
    BY <1>3, <2>1, PickedDef
  <2>6. By(u)[n] = t[n].by
    BY <1>3, <2>1
  <2> HIDE DEF P, Q, n
  <2>7. Q[n] = Append(P[n], t[n].by)
    BY <2>3, <2>4, <2>5, <2>6 DEF k
  <2> QED BY <1>2, <1>4, <1>5, <1>7, <2>7 DEF u, n
<1> QED BY <1>6, <1>7

(* What a power loss leaves of a file: the records whose lines it left.               *)
LEMMA LinesLeft ==
    ASSUME NEW t \in Seq(Tokens), NEW c \in Seq(Tokens), Len(c) <= Len(t),
           LinesAt(c) \subseteq LinesAt(t), \A i \in LinesAt(c) : c[i] = t[i],
           NEW g, \A i \in LinesAt(t) : t[i].by \in g <=> i \notin LinesAt(c)
    PROVE  Records(c) = Without(Records(t), g)
<1> DEFINE s == By(t)
           r == By(c)
           K == LinesAt(t)
           L == LinesAt(c)
           n == Len(c)
<1>1. /\ s \in Seq(Files \cup {Missing}) /\ Len(s) = Len(t) /\ Len(s) \in Nat /\ K \subseteq 1..Len(s)
      /\ r \in Seq(Files \cup {Missing}) /\ Len(r) = n /\ Len(r) \in Nat /\ L \subseteq 1..n
      /\ \A i \in K : s[i] = t[i].by
      /\ \A i \in L : r[i] = c[i].by
  <2>1. K \subseteq 1..(Len(t) - 1) /\ L \subseteq 1..(Len(c) - 1)
    BY ByType
  <2>2. K \subseteq 1..Len(t) /\ L \subseteq 1..Len(c)
    BY <2>1, ByType
  <2> QED BY <2>2, ByType
<1>2. \A i \in (1..Len(s)) \cap K : s[i] \in g <=> i \notin L
  BY <1>1
<1>3. \A i \in L : s[i] = r[i]
  BY <1>1
<1>4. Picked(s, L) = Without(Picked(s, K), g)
  <2>1. L \subseteq K
    OBVIOUS
  <2>2. s \in Seq(Files \cup {Missing})
    BY <1>1
  <2> HIDE DEF s, r, K, L, n
  <2> QED BY <1>2, <2>1, <2>2, PickedTwice
<1>5. Records(t) = Picked(s, K) /\ Records(c) = Picked(r, L)
  BY DEF Records, By
<1>6. n \in 0..Len(s) /\ n \in 0..Len(r) /\ n <= Len(s) /\ Len(s) \in n..Len(s)
  BY <1>1
<1>7. PickedUpTo(s, L)[Len(s)] = PickedUpTo(s, L)[n]
  <2>1. \A i \in (n + 1)..Len(s) : i \notin L
    BY <1>1
  <2> HIDE DEF s, L, n
  <2> QED BY <1>1, <1>6, <2>1, PickedSkip
<1>8. PickedUpTo(s, L)[n] = PickedUpTo(r, L)[n]
  <2> HIDE DEF s, r, L, n
  <2> QED BY <1>1, <1>3, <1>6, PickedSame
<1>9. Picked(s, L) = Picked(r, L)
  <2> HIDE DEF s, r, L
  <2> QED BY <1>1, <1>7, <1>8 DEF Picked
<1> QED BY <1>4, <1>5, <1>9

-----------------------------------------------------------------------------
(* The records that a power loss may bring back with a directory.                     *)
DirRecords(d) == Records(Content(d.backup)) \o Records(Content(d.current))

(* The record of w is the i-th thing in file f.                                       *)
Holds(f, i, w) == i \in 1..Len(text[f]) /\ text[f][i] = Text(w)

(* Nothing is written twice. *)
Unique ==
    \A f, g \in Files, w \in Files : \A i, j \in Nat : Holds(f, i, w) /\ Holds(g, j, w) => f = g /\ i = j

(* Before its write, the record of w is nowhere. *)
Unwritten(w) ==
    pc[w] \in {"lock"} \cup (Writing \ {"sync", "dirsync"}) =>
        w \notin Range(ever) /\ \A f \in Files, i \in Nat : ~Holds(f, i, w)

(* A confirmed record is out of reach of a power loss; one that has never been        *)
(* readable may become so.                                                            *)
Kept(f) ==
    /\ safe[f] <= Len(text[f])
    /\ \A w \in Files, i \in Nat : Holds(f, i, w) =>
         /\ Settled(w) => i \in LinesAt(text[f]) /\ i + 1 <= safe[f]
         /\ i \notin LinesAt(text[f]) => w \notin Range(ever)

(* What a writer has done so far. *)
At(w) ==
    /\ pc[w] \in {"lock"} \cup Writing => outcome[w] = "none"
    /\ pc[w] = "replace" => dir.backup = Missing
    /\ pc[w] = "write" => Content(dir.current) = <<>> \/ Last(Content(dir.current)) = Newline
    /\ pc[w] \in {"sync", "dirsync"} =>
         /\ dir.current # Missing
         /\ \E i \in LinesAt(text[dir.current]) :
              Holds(dir.current, i, w) /\ (pc[w] = "dirsync" => i + 1 <= safe[dir.current])

(* The records of a directory are a part of the log, which starts no later than the   *)
(* readable one and has nothing confirmed behind it; the directory with the active    *)
(* file has it up to its end.                                                         *)
From(d, a) ==
    /\ a + Len(Readable) <= Len(ever)
    /\ a + Len(DirRecords(d)) <= Len(ever)
    /\ \A i \in 1..Len(DirRecords(d)) : DirRecords(d)[i] = ever[a + i]
    /\ \A i \in (a + Len(DirRecords(d)) + 1)..Len(ever) : ~Settled(ever[i])
    /\ d = dir \/ (d.current = dir.current /\ d.current # Missing) =>
         a + Len(DirRecords(d)) = Len(ever)

Segment(d) ==
    /\ d.current # Missing => d.backup # d.current
    /\ dir.current # Missing => d.backup # dir.current
    /\ \E a \in Nat : From(d, a)

Ever == ever \in Seq(Files) /\ \A i, j \in 1..Len(ever) : ever[i] = ever[j] => i = j

LogFiles ==
    /\ Ever /\ Unique
    /\ \A w \in Writers : Unwritten(w)
    /\ \A f \in Files : Kept(f)
    /\ \A d \in onDisk : Segment(d)

(* The inductive invariant of the log. *)
LogInv == LogFiles /\ \A w \in Writers : At(w)

-----------------------------------------------------------------------------

(* The tokens differ, and so do the texts of different records.                       *)
LEMMA TextTokens ==
    /\ \A v, w : Text(v) = Text(w) => v = w
    /\ \A w : Text(w) # Newline /\ Text(w) # Cut /\ Text(w).kind = "text" /\ Text(w).by = w
    /\ Newline.kind # "text" /\ Cut.kind # "text" /\ Cut # Newline
    /\ \A x \in Tokens : x.kind = "text" => x.by \in Files /\ x = Text(x.by)
<1>1. \A w : Text(w).kind = "text" /\ Text(w).by = w
  BY DEF Text
<1>2. Newline.kind = "newline" /\ Cut.kind = "cut"
  BY DEF Newline, Cut
<1>3. \A v, w : Text(v) = Text(w) => v = w
  <2> SUFFICES ASSUME NEW v, NEW w, Text(v) = Text(w) PROVE v = w
    OBVIOUS
  <2>1. Text(v).by = v /\ Text(w).by = w
    BY <1>1
  <2> QED BY <2>1
<1>4. \A w : Text(w) # Newline /\ Text(w) # Cut
  <2> HIDE DEF Text, Newline, Cut
  <2> QED BY <1>1, <1>2
<1>5. Cut # Newline
  <2> HIDE DEF Newline, Cut
  <2> QED BY <1>2
<1>6. ASSUME NEW x \in Tokens, x.kind = "text" PROVE x.by \in Files /\ x = Text(x.by)
  <2>1. PICK w \in Files : x = Text(w)
    <3> HIDE DEF Text, Newline, Cut
    <3> QED BY <1>2, <1>6 DEF Tokens
  <2> QED BY <1>1, <2>1
<1> QED BY <1>1, <1>2, <1>3, <1>4, <1>5, <1>6

(* What is read of files and directories is a sequence of records.                    *)
LEMMA LogTypes ==
    ASSUME HistoryInv
    PROVE  /\ \A f \in Files \cup {Missing} : Content(f) \in Seq(Tokens) /\ Records(Content(f)) \in Seq(Files)
           /\ Readable \in Seq(Files) /\ DirRecords(dir) = Readable
           /\ \A d \in onDisk : DirRecords(d) \in Seq(Files)
           /\ dir \in onDisk
           /\ \A d \in onDisk : d.current \in Files \cup {Missing} /\ d.backup \in Files \cup {Missing}
<1>1. /\ HistoryTypeOK /\ dir \in onDisk /\ \A f \in Files : text[f] \in Seq(Tokens)
      /\ dir \in Dirs /\ onDisk \subseteq Dirs
  BY FileTypes DEF HistoryInv, HistoryTypeOK
<1>2. \A f \in Files \cup {Missing} : Content(f) \in Seq(Tokens)
  BY <1>1, TokenTypes DEF Content
<1>3. \A f \in Files \cup {Missing} : Records(Content(f)) \in Seq(Files)
  BY <1>2, RecordsType
<1>4. \A d \in Dirs : d.current \in Files \cup {Missing} /\ d.backup \in Files \cup {Missing}
  BY DEF Dirs
<1>5. ASSUME NEW d \in Dirs PROVE DirRecords(d) \in Seq(Files)
  BY <1>3, <1>4 DEF DirRecords
<1> QED BY <1>1, <1>2, <1>3, <1>4, <1>5 DEF DirRecords, Readable

(* The readable records are the last ones of the log.                                 *)
LEMMA Latest ==
    ASSUME HistoryInv, LogInv
    PROVE  /\ ever \in Seq(Files) /\ Readable \in Seq(Files)
           /\ \E a \in Nat : /\ a + Len(Readable) = Len(ever)
                             /\ \A i \in 1..Len(Readable) : Readable[i] = ever[a + i]
           /\ Range(Readable) \subseteq Range(ever)
<1>1. ever \in Seq(Files) /\ Readable \in Seq(Files) /\ DirRecords(dir) = Readable /\ dir \in onDisk
  BY LogTypes DEF LogInv, LogFiles, Ever
<1>2. PICK a \in Nat : From(dir, a)
  BY <1>1 DEF LogInv, LogFiles, Segment
<1>3. a + Len(Readable) = Len(ever) /\ \A i \in 1..Len(Readable) : Readable[i] = ever[a + i]
  BY <1>1, <1>2 DEF From
<1>4. Range(Readable) \subseteq Range(ever)
  <2> HIDE DEF Readable
  <2>1. \A i \in 1..Len(Readable) : a + i \in 1..Len(ever)
    BY <1>1, <1>3
  <2> QED BY <1>1, <1>3, <2>1 DEF Range
<1> QED BY <1>1, <1>3, <1>4

(* What is remembered of a step.                                                      *)
LEMMA Remembered ==
    ASSUME ever \in Seq(Files), NEW r \in Seq(Files), Readable' = r, Remember(ever)
    PROVE  /\ Range(r) \subseteq Range(ever) => ever' = ever
           /\ \A q \in Seq(Files), x \in Files :
                r = Append(q, x) /\ Range(q) \subseteq Range(ever) /\ x \notin Range(ever) =>
                    ever' = Append(ever, x)
<1>1. ever' = ever \o Without(r, Range(ever))
  BY DEF Remember
<1>2. ASSUME Range(r) \subseteq Range(ever) PROVE ever' = ever
  <2>1. Without(r, Range(ever)) = <<>>
    BY <1>2, WithoutAll
  <2> QED BY <1>1, <2>1
<1>3. ASSUME NEW q \in Seq(Files), NEW x \in Files,
             r = Append(q, x), Range(q) \subseteq Range(ever), x \notin Range(ever)
      PROVE  ever' = Append(ever, x)
  <2>1. Without(q, Range(ever)) = <<>>
    BY <1>3, WithoutAll
  <2>2. Without(Append(q, x), Range(ever)) = Append(Without(q, Range(ever)), x)
    BY <1>3, WithoutAppend
  <2>4. Without(r, Range(ever)) = Append(<<>>, x)
    BY <1>3, <2>1, <2>2
  <2>3. ever \o Append(<<>>, x) = Append(ever, x)
    OBVIOUS
  <2> QED BY <1>1, <2>4, <2>3
<1> QED BY <1>2, <1>3

(* The log and its elements.                                                          *)
LEMMA EverHere ==
    ASSUME LogInv
    PROVE  /\ Len(ever) \in Nat /\ DOMAIN ever = 1..Len(ever)
           /\ \A i \in 1..Len(ever) : ever[i] \in Files /\ ever[i] \in Range(ever)
BY DEF LogInv, LogFiles, Ever, Range

(* A step that leaves the directory and the texts alone.                              *)
LEMMA Quiet ==
    ASSUME HistoryInv, LogInv, Remember(ever), UNCHANGED <<dir, text>>,
           onDisk' \subseteq onDisk,
           \A f \in Files : safe[f] \in Nat /\ safe'[f] \in Nat /\ safe[f] <= safe'[f] /\ safe'[f] <= Len(text[f]),
           \A w \in Writers : pc'[w] \in {"lock"} \cup (Writing \ {"sync", "dirsync"}) =>
                                pc[w] \in {"lock"} \cup (Writing \ {"sync", "dirsync"}),
           \/ \A w \in Files : Settled(w)' => Settled(w)
           \/ \E w \in Writers : DirSync(w)
    PROVE  /\ Readable' = Readable /\ ever' = ever
           /\ LogFiles'
<1>0. /\ \A f \in Files \cup {Missing} : Content(f) \in Seq(Tokens)
      /\ HistoryTypeOK
      /\ Unique /\ Ever /\ (\A w \in Writers : Unwritten(w) /\ At(w) /\ w \in Files)
      /\ (\A f \in Files : Kept(f))
      /\ (\A d \in onDisk : Segment(d) /\ d.current \in Files \cup {Missing} /\ d.backup \in Files \cup {Missing})
  BY LogTypes, FileTypes DEF LogInv, LogFiles, HistoryInv
<1>1. Readable' = Readable
  BY FilesAlone
<1>2. ever' = ever
  BY <1>1, Latest, Remembered
<1>3. Ever'
  BY <1>0, <1>2 DEF Ever
<1>4. \A f, i, w : Holds(f, i, w)' <=> Holds(f, i, w)
  BY DEF Holds
<1>5. Unique'
  BY <1>0, <1>4 DEF Unique
<1>6. \A w \in Writers : Unwritten(w)'
  BY <1>0, <1>2, <1>4 DEF Unwritten
<1>7. ASSUME NEW f \in Files PROVE Kept(f)'
  <2>1. Kept(f) /\ safe[f] \in Nat /\ safe'[f] \in Nat /\ safe[f] <= safe'[f] /\ safe'[f] <= Len(text'[f])
    BY <1>0
  <2>2. ASSUME NEW w \in Files, NEW i \in Nat, Holds(f, i, w), Settled(w)'
        PROVE  i \in LinesAt(text[f]) /\ i + 1 <= safe'[f]
    <3>1. CASE Settled(w)
      BY <2>1, <2>2, <3>1 DEF Kept
    <3>2. CASE ~Settled(w)
      <4>1. PICK v \in Writers : DirSync(v)
        BY <2>2, <3>2
      <4>2. v = w
        BY <1>0, <2>2, <3>2, <4>1 DEF DirSync, Decide, Settled, HistoryTypeOK, Procs
      <4>3. /\ At(w) /\ pc[w] = "dirsync" /\ safe' = safe
        BY <1>0, <4>1, <4>2 DEF DirSync
      <4>4. PICK j \in LinesAt(text[dir.current]) :
                Holds(dir.current, j, w) /\ j + 1 <= safe[dir.current]
        BY <4>3 DEF At
      <4>5. dir.current \in Files /\ j \in Nat
        BY <1>0, <4>3, <4>4, FileTypes DEF At, Holds
      <4>6. f = dir.current /\ i = j
        BY <1>0, <2>2, <4>4, <4>5 DEF Unique
      <4> QED BY <4>3, <4>4, <4>6
    <3> QED BY <3>1, <3>2
  <2>3. ASSUME NEW w \in Files, NEW i \in Nat, Holds(f, i, w), i \notin LinesAt(text[f])
        PROVE  w \notin Range(ever)
    BY <2>1, <2>3 DEF Kept
  <2>4. text' = text
    OBVIOUS
  <2> QED BY <1>2, <1>4, <2>1, <2>2, <2>3, <2>4 DEF Kept
<1>8. ASSUME NEW d \in onDisk' PROVE Segment(d)'
  <2>1. Segment(d) /\ dir' = dir
    BY <1>0
  <2>2. DirRecords(d)' = DirRecords(d)
    BY DEF DirRecords, Content
  <2>3. PICK a \in Nat : From(d, a)
    BY <2>1 DEF Segment
  <2>4. \A i \in (a + Len(DirRecords(d)) + 1)..Len(ever) : ~Settled(ever[i])'
    <3>1. CASE \A w \in Files : Settled(w)' => Settled(w)
      <4>1. ASSUME NEW i \in (a + Len(DirRecords(d)) + 1)..Len(ever) PROVE ~Settled(ever[i])'
        <5>1. ~Settled(ever[i])
          BY <2>3 DEF From
        <5>2. i \in 1..Len(ever)
          BY EverHere, LogTypes
        <5>3. ever[i] \in Files
          BY <5>2, EverHere
        <5> QED BY <1>2, <3>1, <5>1, <5>3
      <4> QED BY <4>1
    <3>2. CASE \E w \in Writers : DirSync(w)
      <4>1. d = dir
        BY <3>2 DEF DirSync
      <4>2. a + Len(DirRecords(d)) = Len(ever) /\ Len(ever) \in Nat
        BY <2>3, <4>1, EverHere DEF From
      <4> QED BY <4>2
    <3> QED BY <3>1, <3>2
  <2>5. From(d, a)'
    BY <1>1, <1>2, <2>1, <2>2, <2>3, <2>4 DEF From
  <2> QED BY <2>1, <2>5 DEF Segment
<1> QED BY <1>1, <1>2, <1>3, <1>5, <1>6, <1>7, <1>8 DEF LogFiles

(* Nothing is read from an empty file.                                                *)
LEMMA RecordsEmpty == Records(<<>>) = <<>>
<1>1. LinesAt(<<>>) = {}
  BY DEF LinesAt
<1>2. <<>> \in Seq(Tokens)
  BY TokenTypes
<1>3. Range(Records(<<>>)) = {} /\ Records(<<>>) \in Seq(Files)
  <2>1. {<<>>[i].by : i \in LinesAt(<<>>)} = {}
    BY <1>1
  <2> QED BY <1>2, <2>1, RecordsType
<1> DEFINE r == Records(<<>>)
<1>4. Range(r) = {} /\ r \in Seq(Files)
  BY <1>3
<1> HIDE DEF r
<1>5. Len(r) = 0
  <2>1. \A i \in 1..Len(r) : r[i] \in Range(r)
    BY <1>4 DEF Range
  <2> QED BY <1>4, <2>1
<1>6. r = <<>>
  BY <1>4, <1>5
<1> QED BY <1>6 DEF r

(* A step that links the directory anew: the readable records are the last of those   *)
(* that were.                                                                         *)
LEMMA RelinkKeeps ==
    ASSUME HistoryInv, LogInv, Remember(ever), UNCHANGED <<text, safe, outcome>>,
           onDisk' = onDisk \cup {dir'}, Readable' \in Seq(Files),
           Len(Readable') <= Len(Readable),
           \A i \in 1..Len(Readable') : Readable'[i] = Readable[Len(Readable) - Len(Readable') + i],
           \A w \in Writers : pc'[w] \in {"lock"} \cup (Writing \ {"sync", "dirsync"}) =>
                              pc[w] \in {"lock"} \cup (Writing \ {"sync", "dirsync"}),
           \A d \in onDisk : d = dir' \/ (d.current = dir'.current /\ d.current # Missing) =>
                               d = dir \/ (d.current = dir.current /\ d.current # Missing),
           dir'.current # Missing => \A d \in onDisk \cup {dir'} : d.backup # dir'.current
    PROVE  ever' = ever /\ LogFiles'
<1>0. /\ HistoryTypeOK
      /\ Unique /\ Ever /\ (\A w \in Writers : Unwritten(w))
      /\ (\A f \in Files : Kept(f))
      /\ (\A d \in onDisk : Segment(d))
      /\ Readable \in Seq(Files)
  BY LogTypes DEF LogInv, LogFiles, HistoryInv
<1> DEFINE r == Readable
           q == Readable'
<1>1. r \in Seq(Files) /\ q \in Seq(Files) /\ Len(r) \in Nat /\ Len(q) \in Nat /\ Len(q) <= Len(r)
      /\ \A i \in 1..Len(q) : q[i] = r[Len(r) - Len(q) + i]
  BY <1>0
<1>2. Range(q) \subseteq Range(r)
  <2> HIDE DEF r, q
  <2>1. \A i \in 1..Len(q) : Len(r) - Len(q) + i \in 1..Len(r)
    BY <1>1
  <2>2. DOMAIN q = 1..Len(q) /\ DOMAIN r = 1..Len(r)
    BY <1>1
  <2> QED BY <1>1, <2>1, <2>2 DEF Range
<1>3. PICK l \in Nat : l + Len(r) = Len(ever) /\ \A i \in 1..Len(r) : r[i] = ever[l + i]
  BY Latest
<1>4. ever' = ever
  <2>1. Range(q) \subseteq Range(ever)
    BY <1>2, Latest
  <2> QED BY <1>0, <1>1, <2>1, Remembered DEF Ever
<1>5. Ever'
  BY <1>0, <1>4 DEF Ever
<1>6. \A f, i, w : Holds(f, i, w)' <=> Holds(f, i, w)
  BY DEF Holds
<1>7. Unique'
  BY <1>0, <1>6 DEF Unique
<1>8. \A w \in Writers : Unwritten(w)'
  BY <1>0, <1>4, <1>6 DEF Unwritten
<1>9. \A w : Settled(w)' <=> Settled(w)
  BY DEF Settled
<1>10. \A f \in Files : Kept(f)'
  BY <1>0, <1>4, <1>6, <1>9 DEF Kept
<1>11. \A d : DirRecords(d)' = DirRecords(d)
  BY DEF DirRecords, Content
<1>12. ASSUME NEW d \in onDisk PROVE Segment(d)'
  <2>1. Segment(d) /\ d \in onDisk'
    BY <1>0
  <2>2. PICK a \in Nat : From(d, a)
    BY <2>1 DEF Segment
  <2>3. a + Len(Readable') <= Len(ever)
    <3>1. a + Len(r) <= Len(ever)
      BY <2>2 DEF From
    <3> HIDE DEF r, q
    <3>2. a + Len(q) <= Len(ever)
      BY <1>1, <3>1, EverHere
    <3> QED BY <3>2 DEF q
  <2>4. d = dir' \/ (d.current = dir'.current /\ d.current # Missing) => a + Len(DirRecords(d)) = Len(ever)
    BY <2>2 DEF From
  <2>5. From(d, a)'
    BY <1>4, <1>9, <1>11, <2>2, <2>3, <2>4 DEF From
  <2> QED BY <2>1, <2>5 DEF Segment
<1>13. Segment(dir)'
  <2>1. PICK a \in Nat : a + Len(q) = Len(ever)
    <3> HIDE DEF r, q
    <3>1. Len(ever) - Len(q) \in Nat /\ (Len(ever) - Len(q)) + Len(q) = Len(ever)
      BY <1>1, <1>3, EverHere
    <3> QED BY <3>1
  <2>2. DirRecords(dir)' = q
    BY DEF DirRecords, Readable
  <2>3. \A i \in 1..Len(q) : q[i] = ever[a + i]
    <3> HIDE DEF r, q
    <3>1. ASSUME NEW i \in 1..Len(q) PROVE q[i] = ever[a + i]
      <4>1. /\ Len(r) \in Nat /\ Len(q) \in Nat /\ Len(q) <= Len(r)
            /\ l + Len(r) = Len(ever) /\ a + Len(q) = Len(ever)
        BY <1>1, <1>3, <2>1
      <4> DEFINE x == Len(r)
                 y == Len(q)
      <4>3. x \in Nat /\ y \in Nat /\ y <= x /\ l + x = a + y /\ i \in 1..y
        BY <4>1
      <4> HIDE DEF x, y
      <4>4. x - y + i \in 1..x /\ l + (x - y + i) = a + i
        BY <4>3
      <4>2. Len(r) - Len(q) + i \in 1..Len(r) /\ l + (Len(r) - Len(q) + i) = a + i
        BY <4>4 DEF x, y
      <4> QED BY <1>1, <1>3, <4>2
    <3> QED BY <3>1
  <2>4. From(dir, a)'
    <3>1. \A i \in (a + Len(q) + 1)..Len(ever) : FALSE
      BY <2>1, EverHere
    <3> QED BY <1>4, <2>1, <2>2, <2>3, <3>1 DEF From
  <2> QED BY <2>1, <2>4 DEF Segment
<1>14. \A d \in onDisk' : Segment(d)'
  BY <1>12, <1>13
<1> QED BY <1>4, <1>5, <1>7, <1>8, <1>10, <1>14 DEF LogFiles

(* What a rotation and the creation of a file leave readable.                         *)
LEMMA Relinked ==
    ASSUME HistoryInv, LogInv, Remember(ever), NEW w \in Writers, Unlink(w) \/ Replace(w) \/ Open(w)
    PROVE  /\ ever' = ever /\ LogFiles'
           /\ \E k \in 1..(Len(Readable) + 1) : Readable' = SubSeq(Readable, k, Len(Readable))
           /\ Range(Records(Content(dir.current))) \subseteq Range(Readable')
<1>0. /\ HistoryTypeOK /\ Room(w) /\ NotYet(w) /\ At(w) /\ w \in Files /\ w # Missing
      /\ (\A d \in onDisk : Segment(d)) /\ dir \in onDisk /\ dir \in Dirs
      /\ Readable \in Seq(Files)
      /\ dir.current \in Files \cup {Missing} /\ dir.backup \in Files \cup {Missing}
  BY LogTypes, FileTypes DEF LogInv, LogFiles, HistoryInv, HistoryTypeOK
<1> DEFINE b == Records(Content(dir.backup))
           c == Records(Content(dir.current))
           r == Readable
           q == Readable'
<1>1. b \in Seq(Files) /\ c \in Seq(Files) /\ r = b \o c /\ r \in Seq(Files)
  BY <1>0, LogTypes DEF Readable
<1>2. /\ UNCHANGED <<text, safe, outcome>>
      /\ onDisk' = onDisk \cup {dir'}
      /\ \A v \in Writers : pc'[v] \in {"lock"} \cup (Writing \ {"sync", "dirsync"}) =>
                            pc[v] \in {"lock"} \cup (Writing \ {"sync", "dirsync"})
      /\ \A f : Content(f)' = Content(f)
  <2>1. UNCHANGED <<text, safe, outcome>> /\ onDisk' = onDisk \cup {dir'}
    BY <1>0 DEF Unlink, Replace, Open, Relink
  <2>2. pc[w] \in {"unlink", "replace", "open"} /\ \A v \in Writers \ {w} : pc'[v] = pc[v]
    BY <1>0 DEF Unlink, Replace, Open, Goto, HistoryTypeOK, Procs
  <2> QED BY <2>1, <2>2 DEF Writing, Content
<1>3. CASE Unlink(w)
  <2>1. dir' = [dir EXCEPT !.backup = Missing] /\ dir.current # Missing
    BY <1>0, <1>3 DEF Unlink, Relink, Room
  <2>2. dir'.current = dir.current /\ dir'.backup = Missing
    BY <1>0, <2>1 DEF Dirs
  <2>3. q = <<>> \o c
    BY <1>2, <2>2, RecordsEmpty DEF Readable, Content
  <2>4. q = c
    BY <1>1, <2>3
  <2> HIDE DEF c, r, q, b
  <2>5. /\ q \in Seq(Files) /\ Len(q) <= Len(r)
        /\ \A i \in 1..Len(q) : q[i] = r[Len(r) - Len(q) + i]
        /\ Len(b) + 1 \in 1..(Len(r) + 1) /\ q = SubSeq(r, Len(b) + 1, Len(r))
    <3>1. /\ q \in Seq(Files) /\ Len(r) = Len(b) + Len(c) /\ Len(b) \in Nat /\ Len(c) \in Nat
      BY <1>1, <2>4
    <3>2. \A i \in 1..Len(c) : c[i] = r[Len(b) + i]
      BY <1>1, <3>1
    <3> DEFINE s == SubSeq(r, Len(b) + 1, Len(r))
    <3>3. s \in Seq(Files) /\ Len(s) = Len(c) /\ \A i \in 1..Len(c) : s[i] = r[Len(b) + i]
      BY <1>1, <3>1
    <3> HIDE DEF s
    <3>4. c = s
      <4>1. c \in Seq(Files) /\ Len(c) = Len(s) /\ \A i \in 1..Len(c) : c[i] = s[i]
        BY <1>1, <3>2, <3>3
      <4> QED BY <3>3, <4>1
    <3> QED BY <2>4, <3>1, <3>2, <3>4 DEF s
  <2>6. ever' = ever /\ LogFiles'
    <3>1. dir'.current # Missing => \A d \in onDisk \cup {dir'} : d.backup # dir'.current
      BY <1>0, <2>1, <2>2 DEF Segment
    <3>2. \A d \in onDisk : d = dir' \/ (d.current = dir'.current /\ d.current # Missing) =>
                               d = dir \/ (d.current = dir.current /\ d.current # Missing)
      BY <2>1, <2>2
    <3> QED BY <1>2, <2>5, <3>1, <3>2, RelinkKeeps DEF r, q
  <2> QED BY <2>4, <2>5, <2>6 DEF r, q, c
<1>4. CASE Replace(w) \/ Open(w)
  <2>1. /\ q = r
        /\ dir'.current # Missing => \A d \in onDisk \cup {dir'} : d.backup # dir'.current
        /\ \A d \in onDisk : d = dir' \/ (d.current = dir'.current /\ d.current # Missing) =>
                               d = dir \/ (d.current = dir.current /\ d.current # Missing)
    <3>1. CASE Replace(w)
      <4>1. dir' = [current |-> Missing, backup |-> dir.current] /\ dir.current # Missing /\ dir.backup = Missing
        BY <1>0, <3>1 DEF Replace, Relink, Room, At
      <4>2. r = <<>> \o c /\ q = c \o <<>>
        BY <1>2, <4>1, RecordsEmpty DEF Readable, Content
      <4>3. q = r
        BY <1>1, <4>2
      <4> QED BY <1>0, <4>1, <4>3 DEF Segment
    <3>2. CASE Open(w) /\ dir.current = Missing
      <4>1. dir' = [dir EXCEPT !.current = w] /\ pc[w] = "open"
        BY <3>2 DEF Open, Relink
      <4>2. dir'.current = w /\ dir'.backup = dir.backup
        BY <1>0, <4>1 DEF Dirs
      <4>3. text[w] = <<>> /\ \A d \in onDisk : w \notin {d.current, d.backup}
        BY <1>0, <4>1 DEF NotYet
      <4>4. Content(dir.current)' = <<>> /\ Content(dir.current) = <<>> /\ Content(dir.backup)' = Content(dir.backup)
        BY <1>0, <1>2, <3>2, <4>2, <4>3 DEF Content
      <4>5. q = r
        BY <4>4 DEF Readable
      <4> QED BY <1>0, <4>2, <4>3, <4>5
    <3>3. CASE Open(w) /\ dir.current # Missing
      <4>1. dir' = dir
        BY <3>3 DEF Open
      <4>2. q = r
        BY <1>2, <4>1 DEF Readable, Content
      <4> QED BY <1>0, <4>1, <4>2, <3>3 DEF Segment
    <3> QED BY <1>4, <3>1, <3>2, <3>3
  <2> HIDE DEF c, r, q, b
  <2>2. /\ q \in Seq(Files) /\ Len(q) <= Len(r)
        /\ \A i \in 1..Len(q) : q[i] = r[Len(r) - Len(q) + i]
        /\ 1 \in 1..(Len(r) + 1) /\ q = SubSeq(r, 1, Len(r))
    BY <1>1, <2>1
  <2>3. ever' = ever /\ LogFiles'
    BY <1>2, <2>1, <2>2, RelinkKeeps DEF r, q
  <2>4. Range(c) \subseteq Range(r)
    <3>1. /\ Len(r) = Len(b) + Len(c) /\ Len(b) \in Nat /\ Len(c) \in Nat
          /\ \A i \in 1..Len(c) : Len(b) + i \in 1..Len(r) /\ c[i] = r[Len(b) + i]
          /\ DOMAIN c = 1..Len(c) /\ DOMAIN r = 1..Len(r)
      BY <1>1
    <3> QED BY <3>1 DEF Range
  <2> QED BY <2>1, <2>2, <2>3, <2>4 DEF r, q, c
<1> QED BY <1>3, <1>4

(* Behind a concatenation is behind its second part.                                  *)
LEMMA ConcatAppend ==
    ASSUME NEW S, NEW s \in Seq(S), NEW t \in Seq(S), NEW x \in S
    PROVE  s \o Append(t, x) = Append(s \o t, x)
<1> DEFINE a == s \o Append(t, x)
           b == Append(s \o t, x)
<1>1. /\ a \in Seq(S) /\ b \in Seq(S) /\ Len(s) \in Nat /\ Len(t) \in Nat
      /\ Len(a) = Len(s) + Len(t) + 1 /\ Len(b) = Len(s) + Len(t) + 1
  OBVIOUS
<1>2. ASSUME NEW i \in 1..(Len(s) + Len(t) + 1) PROVE a[i] = b[i]
  <2>1. CASE i \in 1..Len(s)
    BY <1>1, <2>1
  <2>2. CASE i = Len(s) + Len(t) + 1
    BY <1>1, <2>2
  <2>3. CASE i \in (Len(s) + 1)..(Len(s) + Len(t))
    <3>1. i - Len(s) \in 1..Len(t) /\ i \in 1..(Len(s) + Len(t)) /\ i \notin 1..Len(s)
      BY <1>1, <2>3
    <3> QED BY <1>1, <3>1
  <2>4. \/ i \in 1..Len(s) \/ i = Len(s) + Len(t) + 1
        \/ i \in (Len(s) + 1)..(Len(s) + Len(t))
    BY <1>1
  <2> HIDE DEF a, b
  <2> QED BY <2>1, <2>2, <2>3, <2>4
<1> HIDE DEF a, b
<1>3. a = b
  BY <1>1, <1>2
<1> QED BY <1>3 DEF a, b

(* A step of writer w that makes the active file f longer, by which the records in E   *)
(* have become readable: one of its own or the pending one, if any.                   *)
GrowsTo(w, f, u, E) ==
    /\ UNCHANGED <<dir, onDisk, safe>> /\ dir.current = f
    /\ text' = [text EXCEPT ![f] = u]
    /\ \A v \in Writers \ {w} : pc'[v] = pc[v]
    /\ pc[w] \in {"repair", "write"}
    /\ \A v \in Files : Settled(v)' <=> Settled(v)
    /\ Len(text[f]) <= Len(u) /\ \A i \in 1..Len(text[f]) : u[i] = text[f][i]
    /\ LinesAt(text[f]) \subseteq LinesAt(u)
    /\ \A i \in (Len(text[f]) + 1)..Len(u), v \in Files :
          u[i] = Text(v) => v = w /\ pc[w] = "write" /\ i = Len(text[f]) + 1
    /\ pc[w] = "write" => pc'[w] \notin {"lock"} \cup (Writing \ {"sync", "dirsync"})
    /\ \/ E = {} /\ Records(u) = Records(text[f])
       \/ \E x \in Files : E = {x} /\ Records(u) = Append(Records(text[f]), x)
    /\ \A x \in E : /\ x \notin Range(ever) /\ ~Settled(x)
                    /\ \E i \in LinesAt(u) : u[i] = Text(x)
                    /\ (x = w /\ pc[w] = "write") \/ \E i \in 1..Len(text[f]) : text[f][i] = Text(x)

(* What an append to a file that makes the records in E readable does to the log.     *)
LEMMA GrowKeeps ==
    ASSUME HistoryInv, LogInv, Remember(ever), NEW w \in Writers, NEW f \in Files,
           NEW u \in Seq(Tokens), NEW E \in SUBSET Files, GrowsTo(w, f, u, E)
    PROVE  /\ LogFiles'
           /\ \/ E = {} /\ Readable' = Readable /\ ever' = ever
              \/ \E x \in Files : /\ E = {x} /\ Readable' = Append(Readable, x)
                                  /\ ever' = Append(ever, x)
           /\ Range(Readable) \subseteq Range(Readable')
<1> USE DEF GrowsTo
<1> DEFINE Early == {"lock"} \cup (Writing \ {"sync", "dirsync"})
           t == text[f]
<1>0. /\ HistoryTypeOK
      /\ Unique /\ Ever /\ (\A v \in Writers : Unwritten(v) /\ v \in Files)
      /\ (\A g \in Files : Kept(g) /\ safe[g] \in Nat /\ text[g] \in Seq(Tokens) /\ Len(text[g]) \in Nat)
      /\ (\A d \in onDisk : Segment(d))
      /\ Readable \in Seq(Files) /\ At(w) /\ dir \in onDisk
      /\ Missing \notin Files
  BY LogTypes, FileTypes, HistoryAssumption DEF LogInv, LogFiles, HistoryInv, HistoryTypeOK
<1>1. text'[f] = u /\ (\A g \in Files \ {f} : text'[g] = text[g]) /\ t \in Seq(Tokens) /\ Len(t) \in Nat /\ Len(u) \in Nat
  BY <1>0 DEF HistoryTypeOK
<1>2. ~Settled(w) /\ (pc[w] = "write" => \A g \in Files, i \in Nat : ~Holds(g, i, w))
  <2>1. pc[w] \in Writing /\ pc[w] \in Early
    BY DEF Writing
  <2>2. outcome[w] # "ok" /\ w \notin Earlier
    BY <1>0, <2>1, HistoryAssumption DEF At, Procs
  <2> QED BY <1>0, <2>1, <2>2 DEF Unwritten, Settled
<1>3. ASSUME NEW g \in Files, NEW i \in Nat, NEW v \in Files
      PROVE  /\ Holds(g, i, v) => Holds(g, i, v)'
             /\ Holds(g, i, v)' => \/ Holds(g, i, v)
                                   \/ g = f /\ i = Len(t) + 1 /\ v = w /\ pc[w] = "write"
  <2>1. CASE g = f
    <3>1. Holds(g, i, v) => Holds(g, i, v)'
      BY <1>1, <2>1 DEF Holds
    <3>2. ASSUME Holds(g, i, v)', i \notin 1..Len(t) PROVE i = Len(t) + 1 /\ v = w /\ pc[w] = "write"
      <4>1. i \in (Len(t) + 1)..Len(u) /\ u[i] = Text(v)
        BY <1>1, <2>1, <3>2 DEF Holds
      <4> QED BY <4>1
    <3>3. ASSUME Holds(g, i, v)', i \in 1..Len(t) PROVE Holds(g, i, v)
      BY <1>1, <2>1, <3>3 DEF Holds
    <3> QED BY <2>1, <3>1, <3>2, <3>3
  <2>2. CASE g # f
    BY <1>1, <2>2 DEF Holds
  <2> QED BY <2>1, <2>2
<1>4. Unique'
  <2> SUFFICES ASSUME NEW g \in Files, NEW h \in Files, NEW v \in Files, NEW i \in Nat, NEW j \in Nat,
                      Holds(g, i, v)', Holds(h, j, v)'
               PROVE  g = h /\ i = j
    BY DEF Unique
  <2>1. CASE Holds(g, i, v) /\ Holds(h, j, v)
    BY <1>0, <2>1 DEF Unique
  <2>2. CASE ~(Holds(g, i, v) /\ Holds(h, j, v))
    <3>1. v = w /\ pc[w] = "write"
      BY <1>3, <2>2
    <3> QED BY <1>2, <1>3, <3>1
  <2> QED BY <2>1, <2>2
<1>5. ASSUME NEW x \in E PROVE \E i \in LinesAt(u) : Holds(f, i, x)' /\ i \in Nat
  <2>1. PICK i \in LinesAt(u) : u[i] = Text(x)
    <3>1. \A y \in E : /\ y \notin Range(ever) /\ ~Settled(y)
                       /\ \E i \in LinesAt(u) : u[i] = Text(y)
                       /\ (y = w /\ pc[w] = "write") \/ \E i \in 1..Len(text[f]) : text[f][i] = Text(y)
      BY DEF GrowsTo
    <3> HIDE DEF GrowsTo
    <3> QED BY <3>1
  <2>2. i \in 1..Len(u) /\ i \in Nat
    BY <1>1 DEF LinesAt
  <2> QED BY <1>1, <2>1, <2>2 DEF Holds
<1>6. /\ Content(dir.current)' = u /\ Content(dir.current) = t
      /\ \A d \in onDisk : d.backup # f /\ Content(d.backup)' = Content(d.backup)
      /\ \A d \in onDisk : d.current # f => Content(d.current)' = Content(d.current)
      /\ \A d \in onDisk : d.current = f => Content(d.current)' = u /\ Content(d.current) = t
      /\ dir' = dir
  <2>1. \A d \in onDisk : d.backup # f
    BY <1>0 DEF Segment
  <2>2. \A d \in onDisk : d.current \in Files \cup {Missing} /\ d.backup \in Files \cup {Missing}
    BY LogTypes
  <2> QED BY <1>0, <1>1, <2>1, <2>2 DEF Content
<1>7. Records(t) \in Seq(Files) /\ \A d \in onDisk : Records(Content(d.backup)) \in Seq(Files)
  BY <1>1, LogTypes, RecordsType
<1>8. \/ E = {} /\ Readable' = Readable /\ ever' = ever
      \/ \E x \in Files : E = {x} /\ Readable' = Append(Readable, x) /\ ever' = Append(ever, x)
  <2>1. CASE E = {} /\ Records(u) = Records(t)
    <3>1. Readable' = Readable
      BY <1>0, <1>6, <2>1 DEF Readable
    <3>2. ever' = ever
      BY <3>1, Latest, Remembered
    <3> QED BY <2>1, <3>1, <3>2
  <2>2. ASSUME NEW x \in Files, E = {x}, Records(u) = Append(Records(t), x)
        PROVE  Readable' = Append(Readable, x) /\ ever' = Append(ever, x)
    <3>1. Readable' = Append(Readable, x)
      <4> DEFINE b == Records(Content(dir.backup))
                 c == Records(t)
      <4>1. Readable' = b \o Append(c, x) /\ Readable = b \o c
        BY <1>0, <1>6, <2>2 DEF Readable
      <4>2. b \in Seq(Files) /\ c \in Seq(Files)
        BY <1>0, <1>7
      <4> HIDE DEF b, c
      <4> QED BY <4>1, <4>2, ConcatAppend
    <3>2. ever' = Append(ever, x)
      <4>1. x \notin Range(ever) /\ Range(Readable) \subseteq Range(ever) /\ Readable \in Seq(Files) /\ ever \in Seq(Files)
        BY <1>0, <2>2, Latest
      <4>2. Append(Readable, x) \in Seq(Files)
        BY <4>1
      <4>3. \A q \in Seq(Files), y \in Files :
               Append(Readable, x) = Append(q, y) /\ Range(q) \subseteq Range(ever) /\ y \notin Range(ever) =>
                   ever' = Append(ever, y)
        BY <3>1, <4>1, <4>2, Remembered
      <4> QED BY <4>1, <4>3
    <3> QED BY <3>1, <3>2
  <2> QED BY <2>1, <2>2
<1>9. Range(ever') = Range(ever) \cup E /\ Ever' /\ Range(Readable) \subseteq Range(Readable')
  <2>1. ASSUME NEW S, NEW s \in Seq(S), NEW x \in S
        PROVE  /\ Range(Append(s, x)) = Range(s) \cup {x}
               /\ Append(s, x) \in Seq(S) /\ Len(Append(s, x)) = Len(s) + 1
               /\ DOMAIN Append(s, x) = 1..(Len(s) + 1) /\ DOMAIN s = 1..Len(s) /\ Len(s) \in Nat
               /\ Append(s, x)[Len(s) + 1] = x /\ \A i \in 1..Len(s) : Append(s, x)[i] = s[i]
    <3>1. /\ Append(s, x) \in Seq(S) /\ Len(Append(s, x)) = Len(s) + 1
          /\ DOMAIN Append(s, x) = 1..(Len(s) + 1) /\ DOMAIN s = 1..Len(s) /\ Len(s) \in Nat
          /\ Append(s, x)[Len(s) + 1] = x /\ \A i \in 1..Len(s) : Append(s, x)[i] = s[i]
      OBVIOUS
    <3> HIDE DEF GrowsTo
    <3>2. Range(Append(s, x)) = Range(s) \cup {x}
      BY <3>1 DEF Range
    <3> QED BY <3>1, <3>2
  <2>2. CASE E = {} /\ Readable' = Readable /\ ever' = ever
    BY <1>0, <2>2 DEF Ever
  <2>3. ASSUME NEW x \in Files, E = {x}, Readable' = Append(Readable, x), ever' = Append(ever, x)
        PROVE  Range(ever') = Range(ever) \cup E /\ Ever' /\ Range(Readable) \subseteq Range(Readable')
    <3>1. Range(ever') = Range(ever) \cup E /\ Range(Readable) \subseteq Range(Readable')
      BY <1>0, <2>1, <2>3 DEF Ever
    <3>2. /\ ever' \in Seq(Files) /\ Len(ever') = Len(ever) + 1 /\ Len(ever) \in Nat
          /\ ever'[Len(ever) + 1] = x /\ \A i \in 1..Len(ever) : ever'[i] = ever[i] /\ ever[i] # x
      BY <1>0, <2>1, <2>3, EverHere DEF Ever
    <3>3. ASSUME NEW i \in 1..Len(ever'), NEW j \in 1..Len(ever'), ever'[i] = ever'[j] PROVE i = j
      <4>1. (i \in 1..Len(ever) \/ i = Len(ever) + 1) /\ (j \in 1..Len(ever) \/ j = Len(ever) + 1)
        BY <3>2
      <4> HIDE DEF GrowsTo
      <4> QED BY <1>0, <3>2, <3>3, <4>1 DEF Ever
    <3> QED BY <3>1, <3>2, <3>3 DEF Ever
  <2> QED BY <1>8, <2>2, <2>3
<1>10. ASSUME NEW v \in Writers PROVE Unwritten(v)'
  <2> SUFFICES ASSUME pc'[v] \in Early
               PROVE  v \notin Range(ever') /\ \A g \in Files, i \in Nat : ~Holds(g, i, v)'
    BY DEF Unwritten
  <2>1. pc[v] \in Early /\ ~(v = w /\ pc[w] = "write")
    BY DEF Writing
  <2>2. v \notin Range(ever) /\ \A g \in Files, i \in Nat : ~Holds(g, i, v)
    BY <1>0, <2>1 DEF Unwritten
  <2>3. v \notin E
    <3>1. \A i \in 1..Len(t) : i \in Nat
      OBVIOUS
    <3> QED BY <2>1, <2>2, <3>1 DEF Holds
  <2> QED BY <1>0, <1>3, <1>9, <2>1, <2>2, <2>3
<1>11. ASSUME NEW g \in Files PROVE Kept(g)'
  <2>1. Kept(g) /\ safe'[g] = safe[g] /\ safe[g] \in Nat /\ Len(text[g]) \in Nat
    BY <1>0
  <2>2. safe'[g] <= Len(text'[g])
    BY <1>1, <2>1 DEF Kept
  <2>3. LinesAt(text[g]) \subseteq LinesAt(text'[g])
    BY <1>1
  <2>4. ASSUME NEW v \in Files, NEW i \in Nat, Holds(g, i, v)'
        PROVE  /\ Settled(v)' => i \in LinesAt(text'[g]) /\ i + 1 <= safe[g]
               /\ i \notin LinesAt(text'[g]) => v \notin Range(ever')
    <3>1. i \notin LinesAt(text'[g]) => v \notin E
      <4> SUFFICES ASSUME v \in E PROVE i \in LinesAt(text'[g])
        OBVIOUS
      <4>1. PICK j \in LinesAt(u) : Holds(f, j, v)' /\ j \in Nat
        BY <1>5
      <4>2. g = f /\ i = j
        BY <1>4, <2>4, <4>1 DEF Unique
      <4> QED BY <1>1, <4>1, <4>2
    <3>2. CASE Holds(g, i, v)
      BY <1>9, <2>1, <2>3, <3>1, <3>2 DEF Kept
    <3>3. CASE ~Holds(g, i, v)
      <4>1. v = w /\ pc[w] = "write"
        BY <1>3, <2>4, <3>3
      <4>2. w \notin Range(ever)
        BY <1>0, <4>1 DEF Unwritten, Writing
      <4> QED BY <1>2, <1>9, <3>1, <4>1, <4>2
    <3> QED BY <3>2, <3>3
  <2> QED BY <2>1, <2>2, <2>4 DEF Kept
<1>12. ASSUME NEW d \in onDisk PROVE Segment(d)'
  <2>1. Segment(d) /\ dir' = dir
    BY <1>0
  <2>2. PICK a \in Nat : From(d, a)
    BY <2>1 DEF Segment
  <2> DEFINE D == DirRecords(d)
             n == Len(ever)
  <2>3. /\ D \in Seq(Files) /\ Len(D) \in Nat /\ n \in Nat /\ ever \in Seq(Files)
        /\ Readable \in Seq(Files) /\ Len(Readable) \in Nat
    BY <1>0, LogTypes DEF Ever
  <2>4. /\ a + Len(Readable) <= n /\ a + Len(D) <= n
        /\ \A i \in 1..Len(D) : D[i] = ever[a + i]
        /\ \A i \in (a + Len(D) + 1)..n : ~Settled(ever[i])
        /\ d = dir \/ d.current = f => a + Len(D) = n
    BY <1>0, <2>2 DEF From
  <2>5. CASE E = {} /\ Readable' = Readable /\ ever' = ever
    <3>1. Records(u) = Records(t)
      BY <2>5
    <3>2. DirRecords(d)' = D
      BY <1>6, <3>1 DEF DirRecords
    <3>3. \A i \in (a + Len(D) + 1)..n : ~Settled(ever[i])'
      <4>1. \A i \in (a + Len(D) + 1)..n : ever[i] \in Files
        <5>1. \A i \in (a + Len(D) + 1)..n : i \in 1..n
          BY <2>3
        <5> QED BY <5>1, EverHere
      <4>2. UNCHANGED ever
        BY <2>5
      <4> HIDE DEF D, n
      <4> QED BY <2>4, <4>1, <4>2
    <3>4. d = dir' \/ (d.current = dir'.current /\ d.current # Missing) => a + Len(D) = n
      BY <2>1, <2>4
    <3> HIDE DEF D
    <3>5. From(d, a)'
      BY <2>4, <2>5, <3>2, <3>3, <3>4 DEF From
    <3> QED BY <2>1, <3>5 DEF Segment
  <2>6. ASSUME NEW x \in Files, E = {x}, Readable' = Append(Readable, x), ever' = Append(ever, x)
        PROVE  Segment(d)'
    <3>1. Records(u) = Append(Records(t), x) /\ ~Settled(x)
      BY <2>6
    <3>2. /\ ever' \in Seq(Files) /\ Len(ever') = n + 1 /\ ever'[n + 1] = x /\ Len(Readable') = Len(Readable) + 1
          /\ \A i \in 1..n : ever'[i] = ever[i] /\ ever[i] \in Files
      BY <2>3, <2>6
    <3>3. CASE d.current = f
      <4> DEFINE b == Records(Content(d.backup))
                 c == Records(t)
      <4>1. DirRecords(d)' = b \o Append(c, x) /\ D = b \o c
        BY <1>6, <3>1, <3>3 DEF DirRecords
      <4>2. b \in Seq(Files) /\ c \in Seq(Files)
        BY <1>7
      <4> HIDE DEF b, c, D
      <4>3. DirRecords(d)' = Append(D, x)
        BY <4>1, <4>2, ConcatAppend
      <4>4. /\ Len(DirRecords(d)') = Len(D) + 1 /\ a + Len(D) = n
            /\ \A i \in 1..(Len(D) + 1) : DirRecords(d)'[i] = ever'[a + i]
        <5>1. a + Len(D) = n
          BY <2>4, <3>3
        <5>2. ASSUME NEW i \in 1..Len(D) PROVE Append(D, x)[i] = ever'[a + i]
          <6>1. a + i \in 1..n
            BY <2>3, <5>1
          <6> QED BY <2>3, <2>4, <3>2, <6>1
        <5>3. Append(D, x)[Len(D) + 1] = x /\ ever'[a + (Len(D) + 1)] = x /\ Len(Append(D, x)) = Len(D) + 1
          <6>1. a + (Len(D) + 1) = n + 1
            BY <2>3, <5>1
          <6> QED BY <2>3, <3>2, <6>1
        <5>4. \A i \in 1..(Len(D) + 1) : Append(D, x)[i] = ever'[a + i]
          <6>1. \A i \in 1..(Len(D) + 1) : i \in 1..Len(D) \/ i = Len(D) + 1
            BY <2>3
          <6> QED BY <5>2, <5>3, <6>1
        <5> QED BY <4>3, <5>1, <5>3, <5>4
      <4>5. From(d, a)'
        <5>1. /\ a + Len(Readable') <= Len(ever') /\ a + Len(DirRecords(d)') = Len(ever')
              /\ \A i \in (a + Len(DirRecords(d)') + 1)..Len(ever') : FALSE
          BY <2>3, <2>4, <3>2, <4>4
        <5> QED BY <2>3, <3>2, <4>4, <5>1 DEF From
      <4> QED BY <2>1, <4>5 DEF Segment
    <3>4. CASE d.current # f
      <4>1. DirRecords(d)' = D /\ d # dir
        BY <1>6, <3>4 DEF DirRecords
      <4>2. \A i \in 1..Len(D) : D[i] = ever'[a + i]
        <5>1. \A i \in 1..Len(D) : a + i \in 1..n
          BY <2>3, <2>4
        <5> QED BY <2>4, <3>2, <5>1
      <4>3. \A i \in (a + Len(D) + 1)..(n + 1) : ~Settled(ever[i])'
        <5> SUFFICES ASSUME NEW i \in (a + Len(D) + 1)..(n + 1) PROVE ~Settled(ever[i])'
          OBVIOUS
        <5>1. CASE i = n + 1
          BY <3>1, <3>2, <5>1 DEF Settled
        <5>2. CASE i # n + 1
          <6>1. i \in 1..n /\ i \in (a + Len(D) + 1)..n
            BY <2>3, <5>2
          <6>2. ~Settled(ever[i]) /\ ever[i] \in Files /\ ever'[i] = ever[i]
            BY <2>4, <3>2, <6>1
          <6>3. \A v \in Files : v \in Earlier \/ outcome'[v] = "ok" <=> v \in Earlier \/ outcome[v] = "ok"
            BY DEF Settled
          <6> QED BY <6>2, <6>3 DEF Settled
        <5> QED BY <5>1, <5>2
      <4> HIDE DEF D
      <4>4. /\ a + Len(Readable') <= Len(ever') /\ a + Len(D) <= Len(ever')
            /\ ~(d = dir' \/ (d.current = dir'.current /\ d.current # Missing))
        BY <2>1, <2>3, <2>4, <3>2, <3>4, <4>1
      <4>5. From(d, a)'
        BY <3>2, <4>1, <4>2, <4>3, <4>4 DEF From
      <4> QED BY <2>1, <4>5 DEF Segment
    <3> QED BY <3>3, <3>4
  <2> QED BY <1>8, <2>5, <2>6
<1> QED BY <1>4, <1>8, <1>9, <1>10, <1>11, <1>12 DEF LogFiles

(* One token more in a file.                                                          *)
LEMMA OneMore ==
    ASSUME NEW t \in Seq(Tokens), NEW x \in Tokens
    PROVE  /\ t \o <<x>> = Append(t, x) /\ Append(t, x) \in Seq(Tokens)
           /\ Len(Append(t, x)) = Len(t) + 1 /\ Append(t, x)[Len(t) + 1] = x
           /\ \A i \in 1..Len(t) : Append(t, x)[i] = t[i]
           /\ Len(t) \in Nat
<1> HIDE DEF Tokens
<1> QED OBVIOUS

(* An append makes at most one record readable, and one that never was.               *)
LEMMA Grown ==
    ASSUME HistoryInv, LogInv, Remember(ever), NEW w \in Writers, Repair(w) \/ Write(w) \/ WriteCut(w)
    PROVE  /\ LogFiles'
           /\ \/ Readable' = Readable /\ ever' = ever
              \/ \E x \in Files : /\ x \notin Range(ever) /\ ~Settled(x)
                                  /\ Readable' = Append(Readable, x) /\ ever' = Append(ever, x)
           /\ Range(Readable) \subseteq Range(Readable')
<1> DEFINE f == dir.current
           t == text[f]
<1>0. /\ HistoryTypeOK /\ Room(w) /\ At(w) /\ Unwritten(w) /\ w \in Files /\ w \in Procs
      /\ (\A g \in Files : Kept(g) /\ text[g] \in Seq(Tokens))
      /\ pc[w] \in {"repair", "write"}
      /\ text \in [Files -> Seq(Tokens)]
  BY FileTypes DEF LogInv, LogFiles, HistoryInv, HistoryTypeOK, Repair, Write, WriteCut, Procs
<1>1. dir.current = f /\ f \in Files /\ f # Missing /\ t \in Seq(Tokens) /\ Content(dir.current) = t
  BY <1>0, FileTypes DEF Room, Content
<1>2. /\ UNCHANGED <<dir, onDisk, safe>> /\ \A v \in Writers \ {w} : pc'[v] = pc[v]
  BY <1>0 DEF Repair, Write, WriteCut, Goto, HistoryTypeOK, Procs
<1>3. \A v \in Files : Settled(v)' <=> Settled(v)
  <2>1. outcome[w] = "none"
    BY <1>0 DEF At, Writing
  <2>2. \A v \in Writers : outcome'[v] = "ok" <=> outcome[v] = "ok"
    BY <1>0, <2>1 DEF Repair, Write, WriteCut, Decide, HistoryTypeOK, Procs
  <2> QED BY <2>2 DEF Settled, Files
<1>4. Len(t) \in Nat /\ LinesAt(t) \subseteq 1..(Len(t) - 1)
  BY <1>1, ByType
<1>5. CASE Repair(w)
  <2>1. pc[w] = "repair"
    BY <1>5 DEF Repair
  <2>2. CASE t = <<>> \/ Last(t) = Newline
    <3>1. text' = text
      BY <1>1, <1>5, <2>2 DEF Repair
    <3>2. text' = [text EXCEPT ![f] = t]
      BY <1>0, <1>1, <3>1
    <3>3. \A i \in (Len(t) + 1)..Len(t), v \in Files :
               t[i] = Text(v) => v = w /\ pc[w] = "write" /\ i = Len(t) + 1
      BY <1>4
    <3> DEFINE E == {}
    <3>4. /\ E \in SUBSET Files /\ E = {}
          /\ Len(t) <= Len(t) /\ (\A i \in 1..Len(t) : t[i] = t[i]) /\ LinesAt(t) \subseteq LinesAt(t)
          /\ Records(t) = Records(t)
      BY <1>4
    <3> HIDE DEF t
    <3>5. LogFiles' /\ Readable' = Readable /\ ever' = ever /\ Range(Readable) \subseteq Range(Readable')
      <4>1. GrowsTo(w, f, t, E)
        BY <1>1, <1>2, <1>3, <2>1, <3>2, <3>3, <3>4 DEF GrowsTo, t
      <4> HIDE DEF E, f
      <4> QED BY <1>1, <3>4, <4>1, GrowKeeps
    <3> QED BY <3>5
  <2>3. CASE ~(t = <<>> \/ Last(t) = Newline)
    <3> DEFINE u == Append(t, Newline)
    <3>1. text' = [text EXCEPT ![f] = u]
      BY <1>1, <1>5, <2>3, TokenTypes, OneMore DEF Repair, Extend
    <3>2. /\ u \in Seq(Tokens) /\ Len(u) = Len(t) + 1 /\ u[Len(t) + 1] = Newline
          /\ \A i \in 1..Len(t) : u[i] = t[i]
      BY <1>1, TokenTypes, OneMore
    <3>3. /\ LinesAt(u) = LinesAt(t) \cup (IF Pending(t) THEN {Len(t)} ELSE {})
          /\ Records(u) = IF Pending(t) THEN Append(Records(t), t[Len(t)].by) ELSE Records(t)
      BY <1>1, TokenTypes, OneToken
    <3>4. \A i \in (Len(t) + 1)..Len(u), v \in Files :
               u[i] = Text(v) => v = w /\ pc[w] = "write" /\ i = Len(t) + 1
      <4>1. \A i \in (Len(t) + 1)..Len(u) : i = Len(t) + 1
        BY <1>4, <3>2
      <4> QED BY <3>2, <4>1, TextTokens
    <3>5. LinesAt(t) \subseteq LinesAt(u) /\ Len(t) <= Len(u)
      BY <1>4, <3>2, <3>3
    <3>6. CASE ~Pending(t)
      <4> DEFINE E == {}
      <4>1. E \in SUBSET Files /\ E = {} /\ Records(u) = Records(t)
        BY <3>3, <3>6
      <4> HIDE DEF E, u, f
      <4>3. GrowsTo(w, f, u, E)
        BY <1>1, <1>2, <1>3, <2>1, <3>1, <3>2, <3>4, <3>5, <4>1 DEF GrowsTo
      <4> HIDE DEF t
      <4>2. LogFiles' /\ Readable' = Readable /\ ever' = ever /\ Range(Readable) \subseteq Range(Readable')
        BY <1>1, <3>2, <4>1, <4>3, GrowKeeps
      <4> QED BY <4>2
    <3>7. CASE Pending(t)
      <4> DEFINE x == t[Len(t)].by
                 E == {x}
      <4>1. /\ Len(t) \in 1..Len(t) /\ Len(t) \notin LinesAt(t) /\ Len(t) \in LinesAt(u)
            /\ t[Len(t)] \in Tokens /\ t[Len(t)].kind = "text" /\ Len(t) \in Nat
        BY <1>1, <1>4, <3>3, <3>7 DEF Pending
      <4>2. x \in Files /\ t[Len(t)] = Text(x) /\ u[Len(t)] = Text(x)
        BY <3>2, <4>1, TextTokens
      <4>3. Holds(f, Len(t), x)
        BY <4>1, <4>2 DEF Holds
      <4>4. x \notin Range(ever) /\ ~Settled(x)
        BY <1>0, <1>1, <4>1, <4>2, <4>3 DEF Kept
      <4>5. /\ E \in SUBSET Files /\ E = {x} /\ Records(u) = Append(Records(t), x)
        BY <3>3, <3>7, <4>2
      <4>6. \A y \in E : /\ y \notin Range(ever) /\ ~Settled(y)
                         /\ \E i \in LinesAt(u) : u[i] = Text(y)
                         /\ (y = w /\ pc[w] = "write") \/ \E i \in 1..Len(t) : t[i] = Text(y)
        BY <4>1, <4>2, <4>4
      <4> HIDE DEF E, u, x, f
      <4>9. GrowsTo(w, f, u, E)
        BY <1>1, <1>2, <1>3, <2>1, <3>1, <3>2, <3>4, <3>5, <4>2, <4>5, <4>6 DEF GrowsTo
      <4> HIDE DEF t
      <4>7. /\ LogFiles' /\ Range(Readable) \subseteq Range(Readable')
            /\ E = {} \/ \E y \in Files : E = {y} /\ Readable' = Append(Readable, y) /\ ever' = Append(ever, y)
        <5>1. u \in Seq(Tokens) /\ f \in Files /\ E \in SUBSET Files
          BY <1>1, <3>2, <4>5
        <5> QED BY <4>9, <5>1, GrowKeeps
      <4>8. Readable' = Append(Readable, x) /\ ever' = Append(ever, x)
        BY <4>5, <4>7
      <4> QED BY <4>2, <4>4, <4>7, <4>8
    <3> QED BY <3>6, <3>7
  <2> QED BY <2>2, <2>3
<1>6. CASE Write(w)
  <2>1. pc[w] = "write" /\ pc'[w] = "sync"
    BY <1>0, <1>6 DEF Write, Goto, HistoryTypeOK
  <2> DEFINE t1 == Append(t, Text(w))
             u == Append(t1, Newline)
  <2>2. /\ t1 \in Seq(Tokens) /\ Len(t1) = Len(t) + 1 /\ t1[Len(t) + 1] = Text(w)
        /\ (\A i \in 1..Len(t) : t1[i] = t[i])
    BY <1>0, <1>1, TokenTypes, OneMore
  <2>3. /\ u \in Seq(Tokens) /\ Len(u) = Len(t1) + 1 /\ u[Len(t1) + 1] = Newline
        /\ (\A i \in 1..Len(t1) : u[i] = t1[i])
    BY <2>2, TokenTypes, OneMore
  <2>4. t \o <<Text(w), Newline>> = u
    <3>1. Text(w) \in Tokens /\ Newline \in Tokens
      BY <1>0, TokenTypes
    <3> DEFINE x == Text(w)
               y == Newline
    <3>2. x \in Tokens /\ y \in Tokens /\ t \in Seq(Tokens)
      BY <1>1, <3>1
    <3> HIDE DEF x, y, Tokens, t
    <3> DEFINE p == t \o <<x, y>>
               q == Append(Append(t, x), y)
    <3>3. /\ p \in Seq(Tokens) /\ q \in Seq(Tokens) /\ Len(p) = Len(t) + 2 /\ Len(q) = Len(t) + 2
          /\ Len(t) \in Nat
          /\ \A i \in 1..Len(t) : p[i] = t[i] /\ q[i] = t[i]
          /\ p[Len(t) + 1] = x /\ q[Len(t) + 1] = x /\ p[Len(t) + 2] = y /\ q[Len(t) + 2] = y
      BY <3>2
    <3>4. \A i \in 1..(Len(t) + 2) : i \in 1..Len(t) \/ i = Len(t) + 1 \/ i = Len(t) + 2
      BY <3>3
    <3> HIDE DEF p, q
    <3>5. p = q
      BY <3>3, <3>4
    <3> QED BY <3>5 DEF p, q, x, y
  <2>5. text' = [text EXCEPT ![f] = u]
    BY <1>1, <1>6, <2>4 DEF Write, Extend
  <2>6. LinesAt(t1) = LinesAt(t) /\ Records(t1) = Records(t)
    <3>1. Text(w) \in Tokens /\ Text(w) # Newline
      BY <1>0, TokenTypes, TextTokens
    <3> DEFINE x == Text(w)
    <3>2. x \in Tokens /\ x # Newline
      BY <3>1
    <3> HIDE DEF x, t
    <3>3. LinesAt(Append(t, x)) = LinesAt(t) /\ Records(Append(t, x)) = Records(t)
      BY <1>1, <3>2, OneToken
    <3> QED BY <3>3 DEF x
  <2>7. Pending(t1)
    <3>1. Len(t1) > 0 /\ t1[Len(t1)].kind = "text"
      BY <1>4, <2>2, TextTokens
    <3>2. ASSUME Len(t1) > 1 PROVE t1[Len(t1) - 1] = Newline
      <4>1. Len(t) \in 1..Len(t) /\ Len(t1) - 1 = Len(t)
        BY <1>4, <2>2, <3>2
      <4>2. t # <<>> /\ t[Len(t)] = Last(t)
        BY <4>1 DEF Last
      <4>3. Last(t) = Newline
        BY <1>0, <1>1, <2>1, <4>2 DEF At
      <4> QED BY <2>2, <4>1, <4>2, <4>3
    <3> QED BY <3>1, <3>2 DEF Pending
  <2>8. LinesAt(u) = LinesAt(t) \cup {Len(t1)} /\ Records(u) = Append(Records(t), w)
    <3>1. LinesAt(u) = LinesAt(t1) \cup {Len(t1)} /\ Records(u) = Append(Records(t1), t1[Len(t1)].by)
      <4> HIDE DEF t1
      <4> QED BY <2>2, <2>7, TokenTypes, OneToken
    <3>2. t1[Len(t1)].by = w
      BY <2>2, TextTokens
    <3> QED BY <2>6, <3>1, <3>2
  <2>9. /\ LinesAt(t) \subseteq LinesAt(u) /\ Len(t) <= Len(u) /\ Len(t1) \in LinesAt(u)
        /\ u[Len(t1)] = Text(w) /\ \A i \in 1..Len(t) : u[i] = t[i]
    <3>1. Len(t1) \in 1..Len(t1) /\ Len(t1) = Len(t) + 1 /\ Len(u) = Len(t) + 2 /\ \A i \in 1..Len(t) : i \in 1..Len(t1)
      BY <1>4, <2>2, <2>3
    <3> HIDE DEF u, t1
    <3> QED BY <1>4, <2>2, <2>3, <2>8, <3>1
  <2>10. \A i \in (Len(t) + 1)..Len(u), v \in Files :
               u[i] = Text(v) => v = w /\ pc[w] = "write" /\ i = Len(t) + 1
    <3>1. \A i \in (Len(t) + 1)..Len(u) : i = Len(t) + 1 \/ i = Len(t1) + 1
      <4> HIDE DEF u, t1
      <4> QED BY <1>4, <2>2, <2>3
    <3>2. u[Len(t) + 1] = Text(w) /\ u[Len(t1) + 1] = Newline
      <4> HIDE DEF u, t1
      <4> QED BY <2>2, <2>3, <2>9
    <3> HIDE DEF u, t1
    <3> QED BY <2>1, <3>1, <3>2, TextTokens
  <2>11. w \notin Range(ever) /\ ~Settled(w)
    <3>1. outcome[w] = "none" /\ w \notin Earlier
      BY <1>0, <2>1, HistoryAssumption DEF At, Writing
    <3> QED BY <1>0, <2>1, <3>1 DEF Unwritten, Writing, Settled
  <2> DEFINE E == {w}
  <2>12. /\ E \in SUBSET Files /\ E = {w}
         /\ \A y \in E : /\ y \notin Range(ever) /\ ~Settled(y)
                         /\ \E i \in LinesAt(u) : u[i] = Text(y)
                         /\ (y = w /\ pc[w] = "write") \/ \E i \in 1..Len(t) : t[i] = Text(y)
    <3> HIDE DEF u, t1
    <3> QED BY <1>0, <2>1, <2>9, <2>11
  <2>13. pc'[w] \notin {"lock"} \cup (Writing \ {"sync", "dirsync"})
    BY <2>1 DEF Writing
  <2> HIDE DEF E, u, t1, f
  <2>16. GrowsTo(w, f, u, E)
    BY <1>0, <1>1, <1>2, <1>3, <2>1, <2>3, <2>5, <2>8, <2>9, <2>10, <2>12, <2>13 DEF GrowsTo
  <2> HIDE DEF t
  <2>14. /\ LogFiles' /\ Range(Readable) \subseteq Range(Readable')
         /\ E = {} \/ \E y \in Files : E = {y} /\ Readable' = Append(Readable, y) /\ ever' = Append(ever, y)
    <3>1. u \in Seq(Tokens) /\ f \in Files /\ E \in SUBSET Files
      BY <1>1, <2>3, <2>12
    <3> QED BY <2>16, <3>1, GrowKeeps
  <2>15. Readable' = Append(Readable, w) /\ ever' = Append(ever, w)
    BY <2>12, <2>14
  <2> QED BY <1>0, <2>11, <2>14, <2>15
<1>7. CASE WriteCut(w)
  <2>1. pc[w] = "write" /\ pc'[w] \in {"close", "done"}
    BY <1>0, <1>7 DEF WriteCut, Goto, HistoryTypeOK
  <2>2. PICK z \in {Text(w), Cut} : text' = [text EXCEPT ![f] = @ \o <<z>>]
    BY <1>7 DEF WriteCut, Extend
  <2>3. z \in Tokens /\ z # Newline
    BY <1>0, TokenTypes, TextTokens
  <2> DEFINE u == Append(t, z)
  <2>4. /\ u \in Seq(Tokens) /\ Len(u) = Len(t) + 1 /\ u[Len(t) + 1] = z
        /\ (\A i \in 1..Len(t) : u[i] = t[i])
        /\ text' = [text EXCEPT ![f] = u]
    BY <1>1, <2>2, <2>3, OneMore
  <2>5. LinesAt(u) = LinesAt(t) /\ Records(u) = Records(t)
    BY <1>1, <2>3, OneToken
  <2>6. \A i \in (Len(t) + 1)..Len(u), v \in Files :
               u[i] = Text(v) => v = w /\ pc[w] = "write" /\ i = Len(t) + 1
    <3>1. \A i \in (Len(t) + 1)..Len(u) : i = Len(t) + 1
      BY <1>4, <2>4
    <3>2. \A v \in Files : z = Text(v) => v = w
      BY TextTokens
    <3> HIDE DEF u
    <3> QED BY <2>1, <2>4, <3>1, <3>2
  <2> DEFINE E == {}
  <2>7. E \in SUBSET Files /\ E = {} /\ Len(t) <= Len(u) /\ LinesAt(t) \subseteq LinesAt(u)
    BY <1>4, <2>4, <2>5
  <2>8. pc'[w] \notin {"lock"} \cup (Writing \ {"sync", "dirsync"})
    BY <2>1 DEF Writing
  <2> HIDE DEF E, u, f
  <2>10. GrowsTo(w, f, u, E)
    BY <1>1, <1>2, <1>3, <2>1, <2>4, <2>5, <2>6, <2>7, <2>8 DEF GrowsTo
  <2> HIDE DEF t
  <2>9. LogFiles' /\ Readable' = Readable /\ ever' = ever /\ Range(Readable) \subseteq Range(Readable')
    BY <1>1, <2>4, <2>7, <2>10, GrowKeeps
  <2> QED BY <2>9
<1> QED BY <1>5, <1>6, <1>7

-----------------------------------------------------------------------------
(* Sets that agree on the elements leave the same.                                    *)
LEMMA WithoutSame ==
    ASSUME NEW S, NEW s \in Seq(S), NEW g, NEW h, \A x \in Range(s) : x \in g <=> x \in h
    PROVE  Without(s, g) = Without(s, h)
<1> DEFINE K == {i \in 1..Len(s) : s[i] \notin g}
           L == {i \in 1..Len(s) : s[i] \notin h}
<1>1. \A i \in 1..Len(s) : s[i] \in Range(s)
  <2>1. DOMAIN s = 1..Len(s)
    OBVIOUS
  <2> QED BY <2>1 DEF Range
<1>2. K = L
  BY <1>1
<1> HIDE DEF K, L
<1>3. Picked(s, K) = Picked(s, L)
  BY <1>2
<1> QED BY <1>3 DEF Without, K, L

(* Every element of a part comes from before.                                         *)
LEMMA PickedFrom ==
    ASSUME NEW S, NEW s \in Seq(S), NEW K
    PROVE  \A n \in 0..Len(s) : /\ PickedUpTo(s, K)[n] \in Seq(S)
                               /\ \A x \in Range(PickedUpTo(s, K)[n]) : \E i \in 1..n : x = s[i]
<1> SUFFICES ASSUME NEW n \in 0..Len(s)
             PROVE  /\ PickedUpTo(s, K)[n] \in Seq(S)
                    /\ \A x \in Range(PickedUpTo(s, K)[n]) : \E i \in 1..n : x = s[i]
  OBVIOUS
<1>1. /\ PickedUpTo(s, K)[n] \in Seq(S)
      /\ Range(PickedUpTo(s, K)[n]) = {s[i] : i \in (1..n) \cap K}
  BY PickedType
<1> QED BY <1>1

Once(s) == \A i, j \in 1..Len(s) : s[i] = s[j] => i = j

(* What is left of a sequence without repetitions has none.                           *)
LEMMA WithoutInjective ==
    ASSUME NEW S, NEW s \in Seq(S), NEW g, Once(s)
    PROVE  Once(Without(s, g))
<1> DEFINE K == {i \in 1..Len(s) : s[i] \notin g}
           P == PickedUpTo(s, K)
           Good(n) == Once(P[n])
           T == {n \in Nat : n <= Len(s) => Good(n)}
<1>0. /\ Len(s) \in Nat /\ \A i \in 1..Len(s) : s[i] \in S
      /\ P[0] = <<>>
      /\ \A i \in 1..Len(s) : P[i] = IF i \in K THEN Append(P[i - 1], s[i]) ELSE P[i - 1]
      /\ \A n \in 0..Len(s) : P[n] \in Seq(S) /\ \A x \in Range(P[n]) : \E i \in 1..n : x = s[i]
  <2>1. Len(s) \in Nat /\ \A i \in 1..Len(s) : s[i] \in S
    OBVIOUS
  <2> HIDE DEF K
  <2>2. P[0] = <<>> /\ \A i \in 1..Len(s) : P[i] = IF i \in K THEN Append(P[i - 1], s[i]) ELSE P[i - 1]
    BY <2>1, PickedDef
  <2>3. \A n \in 0..Len(s) : P[n] \in Seq(S) /\ \A x \in Range(P[n]) : \E i \in 1..n : x = s[i]
    <3>1. \A X : \A n \in 0..Len(s) : /\ PickedUpTo(s, X)[n] \in Seq(S)
                                      /\ \A x \in Range(PickedUpTo(s, X)[n]) : \E i \in 1..n : x = s[i]
      BY PickedFrom
    <3>2. \A n \in 0..Len(s) : P[n] \in Seq(S)
      BY <3>1
    <3>3. \A n \in 0..Len(s) : \A x \in Range(P[n]) : \E i \in 1..n : x = s[i]
      BY <3>1
    <3> QED BY <3>2, <3>3
  <2> QED BY <2>1, <2>2, <2>3
<1> HIDE DEF P, K
<1>1. 0 \in T
  BY <1>0 DEF Once
<1>2. ASSUME NEW n \in Nat, n \in T, n + 1 <= Len(s) PROVE Good(n + 1)
  <2> DEFINE m == n + 1
             p == P[n]
             x == s[m]
  <2>1. n <= Len(s) /\ n \in 0..Len(s) /\ m \in 1..Len(s) /\ m - 1 = n /\ \A i \in 1..n : i \in 1..Len(s) /\ i # m
    BY <1>0, <1>2
  <2>2. p \in Seq(S) /\ (\A z \in Range(p) : \E i \in 1..n : z = s[i]) /\ Once(p)
    BY <1>0, <1>2, <2>1
  <2>3. x \in S /\ P[m] = IF m \in K THEN Append(p, x) ELSE p
    <3> HIDE DEF m
    <3> QED BY <1>0, <2>1
  <2>4. x \notin Range(p)
    <3> HIDE DEF p, m
    <3> QED BY <2>1, <2>2 DEF Once
  <2> HIDE DEF x, p, m
  <2>5. \A i \in 1..Len(p) : p[i] # x
    <3>1. DOMAIN p = 1..Len(p)
      BY <2>2
    <3> QED BY <2>4, <3>1 DEF Range
  <2>6. CASE m \in K
    <3> DEFINE q == Append(p, x)
    <3>1. /\ Len(q) = Len(p) + 1 /\ Len(p) \in Nat /\ q[Len(p) + 1] = x /\ \A i \in 1..Len(p) : q[i] = p[i]
      BY <2>2, <2>3
    <3>2. \A i \in 1..Len(q) : i \in 1..Len(p) \/ i = Len(p) + 1
      BY <3>1
    <3> HIDE DEF q
    <3>3. Once(q)
      BY <2>2, <2>5, <3>1, <3>2 DEF Once
    <3>4. P[m] = q
      BY <2>3, <2>6 DEF q
    <3> QED BY <3>3, <3>4 DEF m
  <2>7. CASE m \notin K
    <3>1. P[m] = p
      BY <2>3, <2>7
    <3> QED BY <2>2, <3>1 DEF m
  <2> QED BY <2>6, <2>7
<1> HIDE DEF Good
<1>3. \A n \in Nat : n \in T
  <2>1. \A n \in Nat : n \in T => n + 1 \in T
    BY <1>2
  <2> HIDE DEF T
  <2> QED BY <1>1, <2>1, SetInduction
<1>4. Good(Len(s))
  BY <1>0, <1>3
<1>5. Without(s, g) = P[Len(s)]
  BY DEF Without, Picked, P, K
<1> QED BY <1>4, <1>5 DEF Good

(* D stands in s behind its first a elements, and only elements of g stand behind it. *)
PartOf(s, a, D, g) ==
    /\ a + Len(D) <= Len(s)
    /\ \A i \in 1..Len(D) : D[i] = s[a + i]
    /\ \A i \in (a + Len(D) + 1)..Len(s) : s[i] \in g

(* Of a sequence and of a part of it the same is left when the rest is left out.      *)
LEMMA WithoutPart ==
    ASSUME NEW S, NEW s \in Seq(S), NEW a \in Nat, NEW D \in Seq(S), NEW g, PartOf(s, a, D, g)
    PROVE  /\ Without(SubSeq(s, a + 1, Len(s)), g) = Without(D, g)
           /\ Without(s, g) = Without(SubSeq(s, 1, a), g) \o Without(D, g)
<1> USE DEF PartOf
<1> DEFINE h == SubSeq(s, 1, a)
           m == SubSeq(s, a + 1, Len(s))
           y == SubSeq(s, a + Len(D) + 1, Len(s))
<1>1. Len(s) \in Nat /\ Len(D) \in Nat /\ \A i \in 1..Len(s) : s[i] \in S
  OBVIOUS
<1>2. h \in Seq(S) /\ Len(h) = a /\ \A i \in 1..a : h[i] = s[i]
  BY <1>1
<1>3. m \in Seq(S) /\ Len(m) = Len(s) - a /\ \A i \in 1..(Len(s) - a) : m[i] = s[a + i]
  <2>1. a + 1 \in 1..(Len(s) + 1)
    BY <1>1
  <2> QED BY <1>1, <2>1
<1>4. /\ y \in Seq(S) /\ Len(y) = Len(s) - a - Len(D)
      /\ \A i \in 1..(Len(s) - a - Len(D)) : y[i] = s[a + Len(D) + i]
  <2>1. a + Len(D) + 1 \in 1..(Len(s) + 1)
    BY <1>1
  <2> QED BY <1>1, <2>1
<1> HIDE DEF h, m, y
<1>5. s = h \o m
  <2> DEFINE q == h \o m
  <2>1. q \in Seq(S) /\ Len(q) = Len(s)
    BY <1>1, <1>2, <1>3
  <2>2. ASSUME NEW i \in 1..Len(s) PROVE q[i] = s[i]
    <3>1. CASE i \in 1..a
      BY <1>2, <1>3, <3>1
    <3>2. CASE i \notin 1..a
      <4>1. i - a \in 1..(Len(s) - a) /\ a + (i - a) = i
        BY <1>1, <3>2
      <4>2. q[i] = m[i - a]
        BY <1>1, <1>2, <1>3, <3>2
      <4> QED BY <1>3, <4>1, <4>2
    <3> QED BY <3>1, <3>2
  <2> HIDE DEF q
  <2>3. q = s
    BY <2>1, <2>2
  <2> QED BY <2>3 DEF q
<1>6. m = D \o y
  <2> DEFINE q == D \o y
  <2>1. q \in Seq(S) /\ Len(q) = Len(m)
    <3>1. q \in Seq(S) /\ Len(q) = Len(D) + Len(y)
      BY <1>4
    <3>2. Len(D) + Len(y) = Len(s) - a
      BY <1>1, <1>4
    <3> QED BY <1>3, <3>1, <3>2
  <2>2. ASSUME NEW i \in 1..Len(m) PROVE q[i] = m[i]
    <3>0. m[i] = s[a + i]
      BY <1>3
    <3>1. CASE i \in 1..Len(D)
      <4>1. q[i] = D[i]
        BY <1>4, <3>1
      <4> QED BY <3>0, <3>1, <4>1
    <3>2. CASE i \notin 1..Len(D)
      <4>1. i - Len(D) \in 1..(Len(s) - a - Len(D)) /\ a + Len(D) + (i - Len(D)) = a + i
        BY <1>1, <1>3, <3>2
      <4>2. q[i] = y[i - Len(D)]
        BY <1>1, <1>3, <1>4, <3>2
      <4> QED BY <1>4, <3>0, <4>1, <4>2
    <3> QED BY <3>1, <3>2
  <2> HIDE DEF q
  <2>3. q = m
    <3>1. m \in Seq(S)
      BY <1>3
    <3>2. Len(q) = Len(m) /\ \A i \in 1..Len(q) : q[i] = m[i]
      BY <2>1, <2>2
    <3> HIDE DEF m
    <3> QED BY <2>1, <3>1, <3>2
  <2> QED BY <2>3 DEF q
<1>7. Without(y, g) = <<>>
  <2>1. \A i \in 1..Len(y) : y[i] \in g
    <3>1. \A i \in 1..Len(y) : a + Len(D) + i \in (a + Len(D) + 1)..Len(s)
      BY <1>1, <1>4
    <3> QED BY <1>4, <3>1
  <2>2. Range(y) \subseteq g
    <3>1. DOMAIN y = 1..Len(y)
      BY <1>4
    <3> QED BY <2>1, <3>1 DEF Range
  <2> QED BY <1>4, <2>2, WithoutAll
<1> DEFINE e == Without(D, g)
<1>8. Without(m, g) = e
  <2>1. Without(D \o y, g) = e \o Without(y, g)
    BY <1>4, WithoutConcat
  <2>2. e \in Seq(S)
    BY WithoutType
  <2> HIDE DEF e
  <2>3. e \o <<>> = e
    BY <2>2
  <2> QED BY <1>6, <1>7, <2>1, <2>3
<1>9. Without(s, g) = Without(h, g) \o e
  <2>1. Without(h \o m, g) = Without(h, g) \o Without(m, g)
    BY <1>2, <1>3, WithoutConcat
  <2> QED BY <1>5, <1>8, <2>1
<1> QED BY <1>8, <1>9 DEF h, m

(* What a power loss leaves of one file.                                              *)
LEMMA SurvivorIs ==
    ASSUME NEW f, f # Missing, NEW q \in Survivors(f)
    PROVE  \E k \in safe[f]..Len(text[f]), bad \in SUBSET ((safe[f] + 1)..Len(text[f])) :
              q = [i \in 1..k |-> IF i \in bad THEN Cut ELSE text[f][i]]
BY DEF Survivors

(* What a power loss leaves of the files.                                             *)
LEMMA FilesLeft ==
    ASSUME HistoryInv, LogInv, PowerLoss, NEW f \in Files
    PROVE  /\ text'[f] \in Seq(Tokens) /\ Len(text'[f]) <= Len(text[f]) /\ safe[f] <= Len(text'[f])
           /\ \A i \in 1..Len(text'[f]) : text'[f][i] = text[f][i] \/ text'[f][i] = Cut
           /\ LinesAt(text'[f]) \subseteq LinesAt(text[f])
           /\ \A i \in LinesAt(text'[f]) : text'[f][i] = text[f][i]
           /\ \A i \in LinesAt(text[f]) : i + 1 <= safe[f] => i \in LinesAt(text'[f])
<1>0. /\ text[f] \in Seq(Tokens) /\ safe[f] \in Nat /\ safe[f] <= Len(text[f]) /\ Len(text[f]) \in Nat
      /\ f # Missing /\ dir' \in onDisk
  BY FileTypes, HistoryAssumption DEF HistoryInv, HistoryTypeOK, LogInv, LogFiles, Kept, PowerLoss
<1>1. text'[f] = text[f] \/ text'[f] \in Survivors(f)
  BY DEF PowerLoss
<1>2. PICK k \in safe[f]..Len(text[f]), bad \in SUBSET ((safe[f] + 1)..Len(text[f])) :
         text'[f] = [i \in 1..k |-> IF i \in bad THEN Cut ELSE text[f][i]]
  <2> DEFINE Like(q) == \E k \in safe[f]..Len(text[f]), bad \in SUBSET ((safe[f] + 1)..Len(text[f])) :
                          q = [i \in 1..k |-> IF i \in bad THEN Cut ELSE text[f][i]]
  <2>1. \A q \in Survivors(f) : Like(q)
    BY <1>0, SurvivorIs
  <2>2. Like(text[f])
    <3> DEFINE q == text[f]
               n == Len(q)
    <3>1. q \in Seq(Tokens) /\ n \in safe[f]..Len(text[f]) /\ {} \in SUBSET ((safe[f] + 1)..Len(text[f]))
      BY <1>0
    <3>2. q = [i \in 1..n |-> IF i \in {} THEN Cut ELSE q[i]]
      <4> HIDE DEF q, n
      <4>1. q = [i \in 1..Len(q) |-> q[i]]
        BY <3>1
      <4> QED BY <4>1 DEF n
    <3> HIDE DEF n
    <3> QED BY <3>1, <3>2
  <2> HIDE DEF Like
  <2>3. Like(text'[f])
    BY <1>1, <2>1, <2>2
  <2> QED BY <2>3 DEF Like
<1> DEFINE u == text'[f]
           t == text[f]
<1>3. u \in Seq(Tokens) /\ Len(u) = k /\ k \in Nat
  <2>1. \A i \in 1..k : (IF i \in bad THEN Cut ELSE t[i]) \in Tokens
    <3>1. \A i \in 1..k : t[i] \in Tokens
      BY <1>0
    <3> QED BY <3>1, TokenTypes
  <2>2. k \in Nat
    BY <1>0
  <2> DEFINE q == [i \in 1..k |-> IF i \in bad THEN Cut ELSE t[i]]
  <2>3. u = q
    BY <1>2
  <2> HIDE DEF t, u, Tokens, Cut
  <2>4. q \in Seq(Tokens) /\ Len(q) = k
    BY <2>1, <2>2
  <2> QED BY <2>2, <2>3, <2>4
<1>4. /\ \A i \in 1..k : u[i] = t[i] \/ u[i] = Cut
      /\ \A i \in 1..safe[f] : i \in 1..k /\ u[i] = t[i]
  BY <1>0, <1>2
<1>5. safe[f] <= k /\ k <= Len(t)
  BY <1>0
<1> HIDE DEF u, t
<1>6. ASSUME NEW i \in LinesAt(u) PROVE i \in LinesAt(t) /\ u[i] = t[i]
  <2>1. /\ i \in 1..(k - 1) /\ u[i].kind = "text" /\ u[i + 1] = Newline /\ (i > 1 => u[i - 1] = Newline)
    BY <1>3 DEF LinesAt
  <2>2. i \in 1..k /\ i + 1 \in 1..k /\ (i > 1 => i - 1 \in 1..k) /\ i \in 1..(Len(t) - 1)
    BY <1>0, <1>3, <1>5, <2>1 DEF t
  <2>3. u[i] = t[i] /\ t[i + 1] = Newline /\ (i > 1 => t[i - 1] = Newline)
    BY <1>4, <2>1, <2>2, TextTokens
  <2> QED BY <2>1, <2>2, <2>3 DEF LinesAt
<1>7. ASSUME NEW i \in LinesAt(t), i + 1 <= safe[f] PROVE i \in LinesAt(u)
  <2>1. /\ i \in 1..(Len(t) - 1) /\ t[i].kind = "text" /\ t[i + 1] = Newline /\ (i > 1 => t[i - 1] = Newline)
    BY DEF LinesAt
  <2>2. i \in 1..safe[f] /\ i + 1 \in 1..safe[f] /\ (i > 1 => i - 1 \in 1..safe[f]) /\ i \in 1..(k - 1)
    BY <1>0, <1>3, <1>5, <1>7, <2>1
  <2>3. u[i] = t[i] /\ u[i + 1] = Newline /\ (i > 1 => u[i - 1] = Newline)
    BY <1>4, <2>1, <2>2
  <2> QED BY <1>3, <2>1, <2>2, <2>3 DEF LinesAt
<1> QED BY <1>3, <1>4, <1>5, <1>6, <1>7 DEF u, t

(* The elements of a concatenation.                                                   *)
LEMMA RangeConcat ==
    ASSUME NEW S, NEW s \in Seq(S), NEW t \in Seq(S)
    PROVE  Range(s \o t) = Range(s) \cup Range(t)
<1> DEFINE q == s \o t
<1>1. /\ DOMAIN q = 1..(Len(s) + Len(t)) /\ DOMAIN s = 1..Len(s) /\ DOMAIN t = 1..Len(t)
      /\ Len(s) \in Nat /\ Len(t) \in Nat
      /\ \A i \in 1..Len(s) : q[i] = s[i]
      /\ \A i \in 1..Len(t) : q[Len(s) + i] = t[i]
  OBVIOUS
<1> HIDE DEF q
<1>2. /\ \A i \in 1..Len(s) : i \in 1..(Len(s) + Len(t))
      /\ \A i \in 1..Len(t) : Len(s) + i \in 1..(Len(s) + Len(t))
      /\ \A i \in 1..(Len(s) + Len(t)) : i \in 1..Len(s) \/ (i - Len(s) \in 1..Len(t) /\ i = Len(s) + (i - Len(s)))
  BY <1>1
<1>3. ASSUME NEW x \in Range(q) PROVE x \in Range(s) \cup Range(t)
  <2>1. PICK i \in 1..(Len(s) + Len(t)) : x = q[i]
    BY <1>1 DEF Range
  <2>2. CASE i \in 1..Len(s)
    BY <1>1, <2>1, <2>2 DEF Range
  <2>3. CASE i \notin 1..Len(s)
    <3>1. PICK j \in 1..Len(t) : i = Len(s) + j
      BY <1>2, <2>3
    <3> QED BY <1>1, <2>1, <3>1 DEF Range
  <2> QED BY <2>2, <2>3
<1>4. Range(s) \subseteq Range(q) /\ Range(t) \subseteq Range(q)
  BY <1>1, <1>2 DEF Range
<1> QED BY <1>3, <1>4 DEF q

(* A power loss confirms nothing.                                                     *)
LEMMA SettledBefore ==
    ASSUME HistoryInv, PowerLoss, NEW w \in Files, Settled(w)'
    PROVE  Settled(w)
<1>1. outcome' = [p \in Procs |-> IF p \in Running THEN Verdict(p) ELSE outcome[p]]
  BY DEF PowerLoss
<1>2. w \notin Earlier => w \in Procs
  BY DEF Files, Procs
<1> QED BY <1>1, <1>2 DEF Settled, Verdict

(* The records a power loss takes from the files it brings back.                      *)
LEMMA RecordsLeft ==
    ASSUME HistoryInv, LogInv, PowerLoss, NEW d \in onDisk, dir' = d
    PROVE  \E g \in SUBSET Files :
             /\ Readable' = Without(DirRecords(d), g)
             /\ \A w \in g : ~Settled(w) /\ w \in Range(DirRecords(d))
             /\ \A f \in Files : \A i \in LinesAt(text[f]), w \in Files :
                  Holds(f, i, w) /\ i \notin LinesAt(text'[f]) => w \in g \/ f \notin {d.current, d.backup}
<1>0. /\ \A f \in Files : Kept(f) /\ text[f] \in Seq(Tokens)
      /\ Unique /\ d.current \in Files \cup {Missing} /\ d.backup \in Files \cup {Missing}
      /\ Missing \notin Files
  BY LogTypes, FileTypes, HistoryAssumption DEF HistoryInv, LogInv, LogFiles
<1> DEFINE In(f) == f \in Files /\ f \in {d.current, d.backup}
           Gone(w, f, i) == In(f) /\ i \in LinesAt(text[f]) /\ i \notin LinesAt(text'[f]) /\ Holds(f, i, w)
<1>1. PICK g \in SUBSET Files : \A w \in Files : w \in g <=> \E f, i : Gone(w, f, i)
  <2> HIDE DEF Gone
  <2>1. \E h \in SUBSET Files : h = {w \in Files : \E f, i : Gone(w, f, i)}
    OBVIOUS
  <2> QED BY <2>1
<1>2. ASSUME NEW f \in Files, NEW i \in LinesAt(text[f])
      PROVE  text[f][i].by \in Files /\ Holds(f, i, text[f][i].by) /\ i \in Nat
  <2>1. i \in 1..Len(text[f]) /\ text[f][i].kind = "text" /\ Len(text[f]) \in Nat /\ text[f][i] \in Tokens
    BY <1>0 DEF LinesAt
  <2> QED BY <2>1, TextTokens DEF Holds
<1>3. ASSUME NEW f \in Files, In(f) PROVE Records(text'[f]) = Without(Records(text[f]), g)
  <2>1. \A i \in LinesAt(text[f]) : text[f][i].by \in g <=> i \notin LinesAt(text'[f])
    <3> SUFFICES ASSUME NEW i \in LinesAt(text[f])
                 PROVE  text[f][i].by \in g <=> i \notin LinesAt(text'[f])
      OBVIOUS
    <3> DEFINE w == text[f][i].by
    <3>1. w \in Files /\ Holds(f, i, w) /\ i \in Nat
      BY <1>2
    <3> HIDE DEF w
    <3>2. ASSUME w \in g PROVE i \notin LinesAt(text'[f])
      <4>1. PICK h, j : Gone(w, h, j)
        BY <1>1, <3>2
      <4>2. h \in Files /\ j \in Nat
        BY <1>2, <4>1
      <4>3. h = f /\ j = i
        BY <1>0, <3>1, <4>1, <4>2 DEF Unique
      <4> QED BY <4>1, <4>3
    <3>3. ASSUME i \notin LinesAt(text'[f]) PROVE w \in g
      <4>1. Gone(w, f, i)
        BY <1>3, <3>1, <3>3
      <4> HIDE DEF Gone
      <4> QED BY <1>1, <3>1, <4>1
    <3> QED BY <3>2, <3>3 DEF w
  <2>2. /\ text'[f] \in Seq(Tokens) /\ Len(text'[f]) <= Len(text[f])
        /\ LinesAt(text'[f]) \subseteq LinesAt(text[f])
        /\ \A i \in LinesAt(text'[f]) : text'[f][i] = text[f][i]
    BY FilesLeft
  <2> DEFINE c == text'[f]
             t == text[f]
  <2>3. /\ c \in Seq(Tokens) /\ t \in Seq(Tokens) /\ Len(c) <= Len(t) /\ LinesAt(c) \subseteq LinesAt(t)
        /\ \A i \in LinesAt(c) : c[i] = t[i]
        /\ \A i \in LinesAt(t) : t[i].by \in g <=> i \notin LinesAt(c)
    BY <1>0, <2>1, <2>2
  <2> HIDE DEF c, t
  <2>4. Records(c) = Without(Records(t), g)
    BY <2>3, LinesLeft
  <2> QED BY <2>4 DEF c, t
<1>4. ASSUME NEW f \in {d.current, d.backup}
      PROVE  Records(IF f = Missing THEN <<>> ELSE text'[f]) = Without(Records(Content(f)), g)
  <2>1. CASE f = Missing
    <3>1. Without(<<>>, g) = <<>>
      <4>1. <<>> \in Seq(Files) /\ Range(<<>>) \subseteq g
        BY DEF Range
      <4> QED BY <4>1, WithoutAll
    <3> QED BY <2>1, <3>1, RecordsEmpty DEF Content
  <2>2. CASE f # Missing
    BY <1>0, <1>3, <2>2 DEF Content
  <2> QED BY <2>1, <2>2
<1> DEFINE b == Records(Content(d.backup))
           c == Records(Content(d.current))
<1>5. b \in Seq(Files) /\ c \in Seq(Files) /\ DirRecords(d) = b \o c
  BY <1>0, LogTypes DEF DirRecords
<1>6. Readable' = Without(b, g) \o Without(c, g)
  <2>1. Readable' = Records(IF d.backup = Missing THEN <<>> ELSE text'[d.backup])
                      \o Records(IF d.current = Missing THEN <<>> ELSE text'[d.current])
    BY DEF Readable, Content
  <2> QED BY <1>4, <2>1
<1>7. Readable' = Without(DirRecords(d), g)
  <2> HIDE DEF b, c
  <2> QED BY <1>5, <1>6, WithoutConcat
<1>8. ASSUME NEW w \in g PROVE ~Settled(w) /\ w \in Range(DirRecords(d))
  <2>1. PICK f, i : Gone(w, f, i)
    BY <1>1
  <2>2. f \in Files /\ i \in Nat /\ w \in Files /\ Holds(f, i, w) /\ i \in LinesAt(text[f]) /\ i \notin LinesAt(text'[f])
    BY <1>2, <2>1
  <2>3. ~(i + 1 <= safe[f])
    BY <2>2, FilesLeft
  <2>4. ~Settled(w)
    BY <1>0, <2>2, <2>3 DEF Kept
  <2>5. Range(Records(text[f])) = {text[f][j].by : j \in LinesAt(text[f])}
    BY <1>0, <2>2, RecordsType
  <2>6. text[f][i].by = w
    BY <2>2, TextTokens DEF Holds
  <2>7. w \in Range(Records(text[f])) /\ Content(f) = text[f] /\ f \in {d.current, d.backup}
    BY <1>0, <2>1, <2>2, <2>5, <2>6 DEF Content
  <2>8. w \in Range(b) \cup Range(c)
    BY <2>7
  <2> HIDE DEF b, c
  <2>9. Range(b \o c) = Range(b) \cup Range(c)
    BY <1>5, RangeConcat
  <2> QED BY <1>5, <2>4, <2>8, <2>9
<1>9. \A f \in Files : \A i \in LinesAt(text[f]), w \in Files :
         Holds(f, i, w) /\ i \notin LinesAt(text'[f]) => w \in g \/ f \notin {d.current, d.backup}
  <2> SUFFICES ASSUME NEW f \in Files, NEW i \in LinesAt(text[f]), NEW w \in Files,
                      Holds(f, i, w), i \notin LinesAt(text'[f]), f \in {d.current, d.backup}
               PROVE  w \in g
    OBVIOUS
  <2>1. Gone(w, f, i)
    OBVIOUS
  <2> HIDE DEF Gone
  <2> QED BY <1>1, <2>1
<1> QED BY <1>7, <1>8, <1>9

(* A power loss: what it takes from the log, and what the log is afterwards.          *)
LEMMA Recovered ==
    ASSUME HistoryInv, LogInv, PowerLoss, Remember(Outlasting)
    PROVE  /\ LogFiles'
           /\ \A w \in Range(Readable) : Settled(w) => w \in Range(Readable')
           /\ \E L : /\ L = Range(ever) \ Range(ever')
                     /\ \A w \in L : ~Settled(w)
                     /\ ever' = Without(ever, L)
                     /\ \E k \in 1..(Len(ever) - Len(Readable) + 1) :
                          Readable' = Without(SubSeq(ever, k, Len(ever)), L)
<1>1. PICK d \in onDisk : dir' = d /\ onDisk' = {d}
  BY DEF PowerLoss
<1>0. /\ \A f \in Files : Kept(f) /\ text[f] \in Seq(Tokens) /\ Len(text[f]) \in Nat /\ safe[f] \in Nat
      /\ Unique /\ Ever /\ Segment(d) /\ ever \in Seq(Files)
      /\ \A w \in Writers : Unwritten(w) /\ w \in Files
      /\ Readable \in Seq(Files) /\ DirRecords(d) \in Seq(Files)
      /\ Missing \notin Files
  BY LogTypes, FileTypes, HistoryAssumption DEF HistoryInv, HistoryTypeOK, LogInv, LogFiles, Ever
<1>2. PICK g \in SUBSET Files :
             /\ Readable' = Without(DirRecords(d), g)
             /\ \A w \in g : ~Settled(w) /\ w \in Range(DirRecords(d))
             /\ \A f \in Files : \A i \in LinesAt(text[f]), w \in Files :
                  Holds(f, i, w) /\ i \notin LinesAt(text'[f]) => w \in g \/ f \notin {d.current, d.backup}
  BY <1>1, RecordsLeft
<1>3. PICK a \in Nat : From(d, a)
  BY <1>0 DEF Segment
<1> DEFINE D == DirRecords(d)
           n == Len(ever)
           r == Without(D, g)
<1>4. /\ D \in Seq(Files) /\ Len(D) \in Nat /\ n \in Nat /\ Len(Readable) \in Nat
      /\ a + Len(Readable) <= n /\ a + Len(D) <= n
      /\ \A i \in 1..Len(D) : D[i] = ever[a + i]
      /\ \A i \in (a + Len(D) + 1)..n : ~Settled(ever[i])
  BY <1>0, <1>3 DEF From
<1>5. Readable' = r /\ r \in Seq(Files) /\ Range(r) = Range(D) \ g
  BY <1>0, <1>2, WithoutType
<1> HIDE DEF D, r
<1>6. Range(D) \subseteq Range(ever)
  <2>1. \A i \in 1..Len(D) : a + i \in 1..n
    BY <1>4
  <2>2. DOMAIN D = 1..Len(D)
    BY <1>4
  <2> QED BY <1>4, <2>1, <2>2, EverHere DEF Range
<1> DEFINE Lost(w) == w \in Range(ever) /\ w \notin Range(r) /\ (w \in Range(Readable) \/ ~Settled(w))
<1>7. PICK L : L = {w \in Range(ever) : /\ w \notin Range(r) /\ (w \in Range(Readable) \/ ~Settled(w))}
  OBVIOUS
<1>8. \A w : w \in L <=> Lost(w)
  BY <1>7
<1>9. Outlasting = Without(ever, L)
  BY <1>5, <1>7 DEF Outlasting
<1>10. ASSUME NEW w \in L PROVE ~Settled(w)
  <2>1. CASE w \notin Range(Readable)
    BY <1>8, <2>1
  <2>2. CASE w \in Range(Readable)
    <3>1. PICK l \in Nat : l + Len(Readable) = n /\ \A i \in 1..Len(Readable) : Readable[i] = ever[l + i]
      BY Latest
    <3>2. PICK j \in 1..Len(Readable) : w = Readable[j]
      <4>1. DOMAIN Readable = 1..Len(Readable)
        BY <1>0
      <4> QED BY <2>2, <4>1 DEF Range
    <3>3. w = ever[l + j] /\ l + j \in (a + 1)..n
      BY <1>4, <3>1, <3>2
    <3>4. CASE l + j \in (a + Len(D) + 1)..n
      BY <1>4, <3>3, <3>4
    <3>5. CASE l + j \notin (a + Len(D) + 1)..n
      <4>1. (l + j) - a \in 1..Len(D) /\ a + ((l + j) - a) = l + j
        BY <1>4, <3>3, <3>5
      <4>2. w = D[(l + j) - a]
        BY <1>4, <3>3, <4>1
      <4>3. w \in Range(D)
        <5>1. DOMAIN D = 1..Len(D)
          BY <1>4
        <5> QED BY <4>1, <4>2, <5>1 DEF Range
      <4>4. w \in g
        BY <1>5, <1>8, <4>3
      <4> QED BY <1>2, <4>4
    <3> QED BY <3>4, <3>5
  <2> QED BY <2>1, <2>2
<1>11. ever' = Without(ever, L) /\ ever' \in Seq(Files) /\ Range(ever') = Range(ever) \ L
  <2> DEFINE o == Without(ever, L)
  <2>1. o \in Seq(Files) /\ Range(o) = Range(ever) \ L
    BY <1>0, WithoutType
  <2>2. ever' = o \o Without(r, Range(o))
    BY <1>5, <1>9 DEF Remember
  <2> HIDE DEF o
  <2>3. Range(r) \subseteq Range(o)
    BY <1>5, <1>6, <1>8, <2>1
  <2>4. Without(r, Range(o)) = <<>>
    BY <1>5, <2>3, WithoutAll
  <2>5. o \o <<>> = o
    BY <2>1
  <2>6. ever' = o
    BY <2>2, <2>4, <2>5
  <2> QED BY <2>1, <2>6 DEF o
<1>12. L = Range(ever) \ Range(ever')
  BY <1>8, <1>11
<1>13. Without(D, L) = r
  <2>1. \A x \in Range(D) : x \in L <=> x \in g
    <3>1. ASSUME NEW x \in Range(D), x \in L PROVE x \in g
      BY <1>5, <1>8, <3>1
    <3>2. ASSUME NEW x \in Range(D), x \in g PROVE x \in L
      BY <1>2, <1>5, <1>6, <1>8, <3>2
    <3> QED BY <3>1, <3>2
  <2> QED BY <1>4, <2>1, WithoutSame DEF r
<1>14. \A i \in (a + Len(D) + 1)..n : ever[i] \in L
  <2> SUFFICES ASSUME NEW i \in (a + Len(D) + 1)..n PROVE ever[i] \in L
    OBVIOUS
  <2>1. i \in 1..n /\ ever[i] \in Range(ever) /\ ~Settled(ever[i])
    <3>1. i \in 1..n
      BY <1>4
    <3> QED BY <1>4, <3>1, EverHere
  <2>2. ever[i] \notin Range(D)
    <3> SUFFICES ASSUME NEW j \in 1..Len(D), ever[i] = D[j] PROVE FALSE
      <4>1. DOMAIN D = 1..Len(D)
        BY <1>4
      <4> QED BY <4>1 DEF Range
    <3>1. a + j \in 1..n /\ a + j # i
      BY <1>4
    <3>2. ever[a + j] = ever[i]
      BY <1>4
    <3> QED BY <1>0, <2>1, <3>1, <3>2 DEF Ever
  <2> QED BY <1>5, <1>8, <2>1, <2>2
<1>15. /\ Without(SubSeq(ever, a + 1, n), L) = r
       /\ \E x \in Seq(Files) : ever' = x \o r
  <2>1. /\ ever \in Seq(Files) /\ D \in Seq(Files) /\ a + Len(D) <= Len(ever)
        /\ \A i \in 1..Len(D) : D[i] = ever[a + i]
        /\ \A i \in (a + Len(D) + 1)..Len(ever) : ever[i] \in L
    BY <1>0, <1>4, <1>14
  <2>2. /\ Without(SubSeq(ever, a + 1, Len(ever)), L) = Without(D, L)
        /\ \E x \in Seq(Files) : Without(ever, L) = x \o Without(D, L)
    <3>1. PartOf(ever, a, D, L)
      BY <2>1 DEF PartOf
    <3>2. ever \in Seq(Files) /\ D \in Seq(Files) /\ a \in Nat
      BY <2>1
    <3>3. Without(SubSeq(ever, a + 1, Len(ever)), L) = Without(D, L)
      BY <3>1, <3>2, WithoutPart
    <3>4. Without(ever, L) = Without(SubSeq(ever, 1, a), L) \o Without(D, L)
      BY <3>1, <3>2, WithoutPart
    <3>5. Without(SubSeq(ever, 1, a), L) \in Seq(Files)
      <4>1. a \in 0..Len(ever)
        BY <1>4
      <4>2. SubSeq(ever, 1, a) \in Seq(Files)
        BY <1>0, <4>1
      <4> QED BY <4>2, WithoutType
    <3>6. \E x \in Seq(Files) : Without(ever, L) = x \o Without(D, L)
      BY <3>4, <3>5
    <3> QED BY <3>3, <3>6
  <2> QED BY <1>11, <1>13, <2>2
<1>16. /\ a + 1 \in 1..(n - Len(Readable) + 1)
       /\ Readable' = Without(SubSeq(ever, a + 1, n), L)
  BY <1>4, <1>5, <1>15
<1>17. \A w \in Range(Readable) : Settled(w) => w \in Range(Readable')
  BY <1>5, <1>8, <1>10, Latest
<1>18. Ever'
  <2>1. Once(ever)
    BY <1>0 DEF Ever, Once
  <2>2. Once(ever')
    BY <1>0, <1>11, <2>1, WithoutInjective
  <2> QED BY <1>11, <2>2 DEF Ever, Once
<1>19. ASSUME NEW f \in Files, NEW i \in Nat, NEW w \in Files, Holds(f, i, w)'
       PROVE  Holds(f, i, w)
  <2>1. /\ i \in 1..Len(text'[f]) /\ text'[f][i] = Text(w)
    BY <1>19 DEF Holds
  <2>2. Len(text'[f]) <= Len(text[f]) /\ (text'[f][i] = text[f][i] \/ text'[f][i] = Cut) /\ Len(text'[f]) \in Nat
    BY <2>1, FilesLeft
  <2> QED BY <1>0, <2>1, <2>2, TextTokens DEF Holds
<1>20. Unique'
  <2> SUFFICES ASSUME NEW f \in Files, NEW h \in Files, NEW w \in Files, NEW i \in Nat, NEW j \in Nat,
                      Holds(f, i, w)', Holds(h, j, w)'
               PROVE  f = h /\ i = j
    BY DEF Unique
  <2>1. Holds(f, i, w) /\ Holds(h, j, w)
    BY <1>19
  <2> QED BY <1>0, <2>1 DEF Unique
<1>21. ASSUME NEW w \in Writers PROVE Unwritten(w)'
  <2> SUFFICES ASSUME pc'[w] \in {"lock"} \cup (Writing \ {"sync", "dirsync"})
               PROVE  w \notin Range(ever') /\ \A f \in Files, i \in Nat : ~Holds(f, i, w)'
    BY DEF Unwritten
  <2>1. pc[w] = pc'[w]
    <3>1. w \in Procs /\ pc' = [p \in Procs |-> IF p \in Running THEN "done" ELSE pc[p]]
      BY DEF PowerLoss, Procs
    <3> QED BY <3>1 DEF Writing
  <2>2. w \notin Range(ever) /\ \A f \in Files, i \in Nat : ~Holds(f, i, w)
    BY <1>0, <2>1 DEF Unwritten
  <2> QED BY <1>0, <1>11, <1>19, <2>2
<1>22. ASSUME NEW f \in Files PROVE Kept(f)'
  <2>1. safe'[f] = Len(text'[f]) /\ safe[f] <= Len(text'[f]) /\ Len(text'[f]) \in Nat
    BY FilesLeft DEF PowerLoss
  <2>2. ASSUME NEW w \in Files, NEW i \in Nat, Holds(f, i, w)'
        PROVE  /\ Settled(w)' => i \in LinesAt(text'[f]) /\ i + 1 <= safe'[f]
               /\ i \notin LinesAt(text'[f]) => w \notin Range(ever')
    <3>1. Holds(f, i, w) /\ Kept(f)
      BY <1>0, <1>19, <2>2
    <3>2. ASSUME Settled(w)' PROVE i \in LinesAt(text'[f]) /\ i + 1 <= safe'[f]
      <4>1. Settled(w)
        BY <3>2, SettledBefore
      <4>2. i \in LinesAt(text[f]) /\ i + 1 <= safe[f]
        BY <3>1, <4>1 DEF Kept
      <4> QED BY <1>0, <2>1, <4>2, FilesLeft
    <3>3. ASSUME i \notin LinesAt(text'[f]) PROVE w \notin Range(ever')
      <4>1. CASE i \notin LinesAt(text[f])
        BY <1>11, <3>1, <4>1 DEF Kept
      <4>2. CASE i \in LinesAt(text[f])
        <5>1. w \in g
          <6>1. f \in {d.current, d.backup}
            <7>1. f \notin {d.current, d.backup} => text'[f] = text[f]
              BY <1>1 DEF PowerLoss
            <7> QED BY <3>3, <4>2, <7>1
          <6> QED BY <1>2, <3>1, <3>3, <4>2, <6>1
        <5>2. w \in L
          BY <1>2, <1>5, <1>6, <1>8, <5>1 DEF D
        <5> QED BY <1>12, <5>2
      <4> QED BY <4>1, <4>2
    <3> QED BY <3>2, <3>3
  <2> QED BY <2>1, <2>2 DEF Kept
<1>23. Segment(dir)'
  <2>1. PICK x \in Seq(Files) : ever' = x \o r
    BY <1>15
  <2>2. Len(x) \in Nat /\ Len(r) \in Nat /\ Len(ever') = Len(x) + Len(r)
        /\ \A i \in 1..Len(r) : r[i] = ever'[Len(x) + i]
    BY <1>5, <2>1
  <2>3. DirRecords(dir)' = Readable'
    BY DEF DirRecords, Readable
  <2> DEFINE l == Len(x)
  <2>4. From(dir, l)'
    <3>1. \A i \in (l + Len(r) + 1)..Len(ever') : FALSE
      BY <2>2
    <3> HIDE DEF l
    <3>2. l \in Nat /\ Len(ever') = l + Len(r) /\ \A i \in 1..Len(r) : r[i] = ever'[l + i]
      BY <2>2 DEF l
    <3>3. /\ l + Len(Readable') = Len(ever') /\ l + Len(DirRecords(dir)') = Len(ever')
          /\ l + Len(Readable') <= Len(ever') /\ l + Len(DirRecords(dir)') <= Len(ever')
          /\ \A i \in 1..Len(DirRecords(dir)') : DirRecords(dir)'[i] = ever'[l + i]
          /\ \A i \in (l + Len(DirRecords(dir)') + 1)..Len(ever') : FALSE
      BY <1>5, <2>2, <2>3, <3>1, <3>2
    <3> QED BY <3>3 DEF From
  <2> HIDE DEF l
  <2>5. l \in Nat
    BY <2>2 DEF l
  <2> QED BY <1>0, <1>1, <2>4, <2>5 DEF Segment
<1>24. \A e \in onDisk' : Segment(e)'
  BY <1>1, <1>23
<1>25. LogFiles'
  BY <1>18, <1>20, <1>21, <1>22, <1>24 DEF LogFiles
<1> QED BY <1>10, <1>11, <1>12, <1>16, <1>17, <1>25

-----------------------------------------------------------------------------
(* Who is not at work, or whose files nobody touches, is where it was.                *)
LEMMA AtKept ==
    ASSUME HistoryInv, LogInv, NEW v \in Writers,
           \/ pc'[v] \notin {"lock"} \cup Writing
           \/ /\ pc'[v] = pc[v] /\ outcome'[v] = outcome[v]
              /\ \/ pc[v] \notin Writing
                 \/ UNCHANGED <<dir, text, safe>>
    PROVE  At(v)'
<1>1. CASE pc'[v] \notin {"lock"} \cup Writing
  BY <1>1 DEF At, Writing
<1>2. CASE pc'[v] = pc[v] /\ outcome'[v] = outcome[v] /\ pc[v] \notin Writing
  <2>1. At(v)
    BY DEF LogInv
  <2> QED BY <1>2, <2>1 DEF At, Writing
<1>3. CASE pc'[v] = pc[v] /\ outcome'[v] = outcome[v] /\ UNCHANGED <<dir, text, safe>>
  <2>1. At(v)
    BY DEF LogInv
  <2>2. \A f, i : Holds(f, i, v)' <=> Holds(f, i, v)
    BY <1>3 DEF Holds
  <2>3. Content(dir.current)' = Content(dir.current)
    BY <1>3, FilesAlone
  <2> QED BY <1>3, <2>1, <2>2, <2>3 DEF At
<1> QED BY <1>1, <1>2, <1>3

(* A record and its newline, after a newline or in an empty file, are a line.         *)
LEMMA LineWritten ==
    ASSUME NEW w \in Files, NEW t \in Seq(Tokens), t = <<>> \/ Last(t) = Newline
    PROVE  LET u == t \o <<Text(w), Newline>>
           IN  /\ Len(t) + 1 \in LinesAt(u) /\ Len(t) + 1 \in 1..Len(u)
               /\ u[Len(t) + 1] = Text(w)
<1>1. Text(w).kind = "text" /\ Text(w) \in Tokens /\ Newline \in Tokens
  BY TextTokens, TokenTypes
<1>2. Len(t) > 0 => t[Len(t)] = Newline
  BY DEF Last
<1> DEFINE n == Newline
           x == Text(w)
           u == t \o <<x, n>>
<1> HIDE DEF Tokens, n, x
<1>3. /\ Len(u) = Len(t) + 2 /\ Len(t) \in Nat
      /\ u[Len(t) + 1] = x /\ u[Len(t) + 2] = n
      /\ Len(t) > 0 => u[Len(t)] = t[Len(t)]
  <2>1. x \in Tokens /\ n \in Tokens
    BY <1>1 DEF x, n
  <2> QED BY <2>1
<1> HIDE DEF u
<1>4. /\ Len(t) + 1 \in 1..(Len(u) - 1) /\ Len(t) + 1 \in 1..Len(u) /\ (Len(t) + 1) + 1 = Len(t) + 2
      /\ Len(t) + 1 > 1 => Len(t) > 0
      /\ (Len(t) + 1) - 1 = Len(t)
  BY <1>3
<1>5. Len(t) + 1 \in LinesAt(u)
  <2>1. x.kind = "text"
    BY <1>1 DEF x
  <2>2. u[(Len(t) + 1) + 1] = Newline
    BY <1>3, <1>4 DEF n
  <2>3. Len(t) + 1 > 1 => u[(Len(t) + 1) - 1] = Newline
    BY <1>2, <1>3, <1>4
  <2> QED BY <1>3, <1>4, <2>1, <2>2, <2>3 DEF LinesAt
<1> QED BY <1>3, <1>4, <1>5 DEF u, x, n

(* Where the writers are, one step per action that moves them.                        *)
LEMMA AtStep ==
    ASSUME HistoryInv, LogInv, [Next]_vars, NEW v \in Writers
    PROVE  At(v)'
<1> USE DEF Goto, Decide
<1>0. /\ HistoryTypeOK /\ At(v) /\ Room(v) /\ v \in Procs /\ v \in Files
      /\ \A q \in Procs : Lock(q)
      /\ pc \in [Procs -> {"lock", "close", "done"} \cup Writing \cup Reading]
      /\ outcome \in [Procs -> {"none", "ok", "stopped"}]
      /\ text \in [Files -> Seq(Tokens)]
      /\ dir.current \in Files \cup {Missing} /\ dir.backup \in Files \cup {Missing}
  BY FileTypes DEF HistoryInv, HistoryTypeOK, LogInv, Procs
<1>1. ASSUME NEW p \in Procs, TryLock(p) PROVE At(v)'
  <2>1. UNCHANGED files
    BY <1>1 DEF TryLock
  <2>2. CASE p = v /\ Available(v)
    <3>1. pc[v] = "lock" /\ pc'[v] = "stat" /\ outcome' = outcome
      BY <1>0, <1>1, <2>2 DEF TryLock
    <3> QED BY <1>0, <3>1 DEF At, Writing
  <2>3. CASE ~(p = v /\ Available(v))
    <3>1. pc'[v] = "close" \/ (pc'[v] = pc[v] /\ outcome'[v] = outcome[v])
      BY <1>0, <1>1, <2>3 DEF TryLock
    <3>2. "close" \notin {"lock"} \cup Writing
      BY DEF Writing
    <3> QED BY <2>1, <3>1, <3>2, AtKept DEF files
  <2> QED BY <2>2, <2>3
<1>2. ASSUME NEW p \in Procs, Close(p) \/ Fail(p) \/ Kill(p) PROVE At(v)'
  <2>1. /\ UNCHANGED files
        /\ pc'[v] \in {"close", "done"} \/ (pc'[v] = pc[v] /\ outcome'[v] = outcome[v])
    BY <1>0, <1>2 DEF Close, Fail, Kill
  <2>2. {"close", "done"} \cap ({"lock"} \cup Writing) = {}
    BY DEF Writing
  <2> QED BY <2>1, <2>2, AtKept DEF files
<1>3. ASSUME NEW w \in Writers \ {v},
             \/ Stat(w) \/ Unlink(w) \/ Replace(w) \/ SyncRotation(w) \/ Open(w) \/ Repair(w) \/ Write(w)
             \/ WriteCut(w) \/ Sync(w) \/ DirSync(w)
      PROVE  At(v)'
  <2>1. pc[w] \in Writing /\ pc'[v] = pc[v] /\ outcome'[v] = outcome[v]
    BY <1>0, <1>3
    DEF Stat, Unlink, Replace, SyncRotation, Open, Repair, Write, WriteCut, Sync, DirSync, Writing
  <2>2. pc[v] \notin Writing
    BY <1>0, <2>1, Alone
  <2> QED BY <2>1, <2>2, AtKept
<1>4. CASE Stat(v)
  <2>1. /\ pc[v] = "stat" /\ outcome' = outcome /\ UNCHANGED files
        /\ pc'[v] \in {"open", "unlink", "replace"} /\ (pc'[v] = "replace" => dir.backup = Missing)
    BY <1>0, <1>4 DEF Stat
  <2> QED BY <1>0, <2>1 DEF At, Writing, files
<1>5. CASE Unlink(v)
  <2>1. pc[v] = "unlink" /\ outcome' = outcome /\ pc'[v] = "replace" /\ dir'.backup = Missing
    BY <1>0, <1>5 DEF Unlink, Relink, HistoryTypeOK, Dirs
  <2> QED BY <1>0, <2>1 DEF At, Writing
<1>6. CASE Replace(v) \/ SyncRotation(v) \/ Open(v)
  <2>1. pc[v] \in Writing /\ outcome' = outcome /\ pc'[v] \in {"rotated", "open", "repair"}
    BY <1>0, <1>6 DEF Replace, SyncRotation, Open, Writing
  <2> QED BY <1>0, <2>1 DEF At, Writing
<1>7. CASE Repair(v)
  <2> DEFINE t == Content(dir.current)
  <2>1. /\ pc[v] = "repair" /\ outcome' = outcome /\ pc'[v] = "write" /\ dir' = dir
        /\ dir.current \in Files /\ dir.current # Missing /\ t = text[dir.current] /\ t \in Seq(Tokens)
    BY <1>0, <1>7 DEF Repair, Room, Content
  <2>2. Content(dir.current)' = text'[dir.current]
    BY <2>1 DEF Content
  <2>3. CASE t # <<>> /\ Last(t) # Newline
    <3>1. text'[dir.current] = Append(t, Newline)
      BY <1>0, <1>7, <2>1, <2>3, TokenTypes, OneMore DEF Repair, Extend
    <3>2. Last(Append(t, Newline)) = Newline
      <4> HIDE DEF t
      <4> QED BY <2>1, TokenTypes, OneMore DEF Last
    <3> QED BY <1>0, <2>1, <2>2, <3>1, <3>2 DEF At, Writing
  <2>4. CASE ~(t # <<>> /\ Last(t) # Newline)
    <3>1. text'[dir.current] = t
      BY <1>0, <1>7, <2>1, <2>4 DEF Repair
    <3> QED BY <1>0, <2>1, <2>2, <2>4, <3>1 DEF At, Writing
  <2> QED BY <2>3, <2>4
<1>8. CASE Write(v)
  <2> DEFINE t == text[dir.current]
             u == t \o <<Text(v), Newline>>
  <2>1. /\ pc[v] = "write" /\ outcome' = outcome /\ pc'[v] = "sync" /\ dir' = dir
        /\ dir.current \in Files /\ dir.current # Missing /\ t = Content(dir.current) /\ t \in Seq(Tokens)
    BY <1>0, <1>8 DEF Write, Room, Content
  <2>2. text'[dir.current] = u
    BY <1>0, <1>8, <2>1 DEF Write, Extend
  <2>3. t = <<>> \/ Last(t) = Newline
    BY <1>0, <2>1 DEF At
  <2>4. PICK n : n \in LinesAt(u) /\ n \in 1..Len(u) /\ u[n] = Text(v)
    <3> HIDE DEF t
    <3> QED BY <1>0, <2>1, <2>3, LineWritten
  <2> HIDE DEF u
  <2>5. Holds(dir.current, n, v)' /\ n \in LinesAt(text'[dir.current])
    BY <2>1, <2>2, <2>4 DEF Holds
  <2>6. \E i \in LinesAt(text'[dir'.current]) :
           Holds(dir.current, i, v)' /\ (pc'[v] = "dirsync" => i + 1 <= safe'[dir'.current])
    BY <2>1, <2>5
  <2>7. outcome'[v] = "none" /\ dir'.current # Missing
    BY <1>0, <2>1 DEF At, Writing
  <2> QED BY <2>1, <2>6, <2>7 DEF At
<1>9. CASE Sync(v)
  <2>1. /\ pc[v] = "sync" /\ outcome' = outcome /\ pc'[v] = "dirsync" /\ UNCHANGED <<dir, text>>
        /\ dir.current \in Files /\ dir.current # Missing
        /\ safe'[dir.current] = Len(text[dir.current])
    BY <1>0, <1>9 DEF Sync, Room, HistoryTypeOK
  <2>2. PICK i \in LinesAt(text[dir.current]) : Holds(dir.current, i, v)
    BY <1>0, <2>1 DEF At
  <2>3. i + 1 <= Len(text[dir.current])
    <3>1. text[dir.current] \in Seq(Tokens)
      BY <1>0, <2>1
    <3> QED BY <3>1 DEF LinesAt
  <2>4. Holds(dir.current, i, v)' /\ i \in LinesAt(text'[dir'.current]) /\ i + 1 <= safe'[dir'.current]
    BY <2>1, <2>2, <2>3 DEF Holds
  <2>5. outcome'[v] = "none" /\ dir'.current # Missing
    BY <1>0, <2>1 DEF At, Writing
  <2> QED BY <2>1, <2>4, <2>5 DEF At
<1>10. CASE WriteCut(v) \/ DirSync(v)
  <2>1. pc'[v] \in {"close", "done"}
    BY <1>0, <1>10 DEF WriteCut, DirSync
  <2>2. {"close", "done"} \cap ({"lock"} \cup Writing) = {}
    BY DEF Writing
  <2> QED BY <2>1, <2>2, AtKept
<1>11. ASSUME NEW r \in Readers, ReadBackup(r) \/ ReadCurrent(r) PROVE At(v)'
  <2>1. r # v
    BY HistoryAssumption
  <2>2. UNCHANGED files /\ pc'[v] = pc[v] /\ outcome'[v] = outcome[v]
    BY <1>0, <1>11, <2>1 DEF ReadBackup, ReadCurrent
  <2> QED BY <2>2, AtKept DEF files
<1>12. CASE PowerLoss
  <2>1. pc'[v] = "done" \/ (pc'[v] = pc[v] /\ outcome'[v] = outcome[v] /\ v \notin Running)
    BY <1>0, <1>12 DEF PowerLoss
  <2>2. v \notin Running => pc[v] \notin Writing
    BY <1>0 DEF Running, Lock, Writing
  <2>3. "done" \notin {"lock"} \cup Writing
    BY DEF Writing
  <2> QED BY <2>1, <2>2, <2>3, AtKept
<1>13. CASE UNCHANGED vars
  BY <1>13, AtKept DEF vars, files, procs
<1> QED
  BY <1>1, <1>2, <1>3, <1>4, <1>5, <1>6, <1>7, <1>8, <1>9, <1>10, <1>11, <1>12, <1>13
  DEF Next, Step, WriterStep, ReaderStep, Finished, Procs

(* Short sequences, written in the ways the model writes them.                        *)
LEMMA Pairs ==
    ASSUME NEW S, NEW x \in S, NEW y \in S, NEW z \in S
    PROVE  /\ <<x>> \o <<y>> = <<x, y>>
           /\ Append(Append(<<>>, x), y) = <<x, y>>
           /\ Append(<<x, y>>, z) = <<x, y>> \o <<z>>
           /\ <<x, y>> \o <<>> = <<x, y>>
<1>1. \A q, r \in Seq(S) : Len(q) = Len(r) /\ (\A i \in 1..Len(q) : q[i] = r[i]) => q = r
  OBVIOUS
<1>2. <<x, y>> \in Seq(S) /\ Len(<<x, y>>) = 2 /\ <<x, y>>[1] = x /\ <<x, y>>[2] = y
  OBVIOUS
<1>3. \A q \in Seq(S) : Len(q) = 2 /\ q[1] = x /\ q[2] = y => q = <<x, y>>
  BY <1>1, <1>2
<1>4. <<x>> \o <<y>> = <<x, y>>
  <2> DEFINE q == <<x>> \o <<y>>
  <2>0. <<x>> \in Seq(S) /\ <<y>> \in Seq(S)
    OBVIOUS
  <2>1. q \in Seq(S) /\ Len(q) = 2 /\ q[1] = x /\ q[2] = y
    BY <2>0
  <2> QED BY <1>3, <2>1
<1>5. Append(Append(<<>>, x), y) = <<x, y>>
  <2> DEFINE p == Append(<<>>, x)
             q == Append(p, y)
  <2>0. p \in Seq(S) /\ Len(p) = 1 /\ p[1] = x
    OBVIOUS
  <2> HIDE DEF p
  <2>1. q \in Seq(S) /\ Len(q) = 2 /\ q[1] = x /\ q[2] = y
    <3>1. \A s \in Seq(S) : Append(s, y) \in Seq(S) /\ Len(Append(s, y)) = Len(s) + 1 /\ Len(s) \in Nat
                            /\ Append(s, y)[Len(s) + 1] = y
                            /\ \A i \in 1..Len(s) : Append(s, y)[i] = s[i]
      OBVIOUS
    <3>2. Len(p) + 1 = 2 /\ 1 \in 1..Len(p)
      BY <2>0
    <3>3. q \in Seq(S) /\ Len(q) = Len(p) + 1 /\ q[Len(p) + 1] = y /\ q[1] = p[1]
      BY <2>0, <3>1, <3>2
    <3> HIDE DEF q
    <3> QED BY <2>0, <3>2, <3>3
  <2> HIDE DEF q
  <2>2. q = <<x, y>>
    BY <1>3, <2>1
  <2> QED BY <2>2 DEF q, p
<1>6. Append(<<x, y>>, z) = <<x, y>> \o <<z>>
  <2> DEFINE t == <<x, y>>
  <2> HIDE DEF t
  <2>1. t \in Seq(S)
    BY <1>2 DEF t
  <2>2. Append(t, z) = t \o <<z>>
    <3>1. Append(t, z) \in Seq(S) /\ t \o <<z>> \in Seq(S) /\ Len(Append(t, z)) = Len(t \o <<z>>)
      BY <2>1
    <3>2. \A i \in 1..Len(Append(t, z)) : Append(t, z)[i] = (t \o <<z>>)[i]
      BY <2>1
    <3> QED BY <1>1, <3>1, <3>2
  <2> QED BY <2>2 DEF t
<1>7. <<x, y>> \o <<>> = <<x, y>>
  <2> DEFINE t == <<x, y>>
  <2> HIDE DEF t
  <2>1. t \in Seq(S)
    BY <1>2 DEF t
  <2>2. t \o <<>> = t
    BY <2>1
  <2> QED BY <2>2 DEF t
<1> QED BY <1>4, <1>5, <1>6, <1>7

(* A file that holds one record, and perhaps a cut-off piece of another.              *)
LEMMA OneRecord ==
    ASSUME NEW w \in Files, NEW tail \in {<<>>, <<Cut>>}, NEW t, t = <<Text(w), Newline>> \o tail
    PROVE  /\ Records(t) = <<w>> /\ LinesAt(t) = {1} /\ t[1] = Text(w)
           /\ Len(t) \in Nat /\ 2 <= Len(t)
           /\ \A i \in 1..Len(t), v \in Files : t[i] = Text(v) => i = 1 /\ v = w
<1> DEFINE x == Text(w)
           n == Newline
           c == Cut
           a == Append(<<>>, x)
           b == Append(a, n)
           d == Append(b, c)
<1>1. /\ x \in Tokens /\ n \in Tokens /\ c \in Tokens /\ <<>> \in Seq(Tokens)
      /\ x # n /\ x # c /\ n # c /\ x.kind = "text" /\ x.by = w
      /\ \A v : Text(v) # n /\ Text(v) # c /\ (Text(v) = x => v = w)
  BY TextTokens, TokenTypes
<1> HIDE DEF x, n, c, Tokens
<1>2. /\ a \in Seq(Tokens) /\ b \in Seq(Tokens) /\ d \in Seq(Tokens)
      /\ Len(a) = 1 /\ Len(b) = 2 /\ Len(d) = 3 /\ a[1] = x /\ b[1] = x /\ b[2] = n
      /\ d[1] = x /\ d[2] = n /\ d[3] = c
      /\ b = <<x, n>> \o <<>> /\ d = <<x, n>> \o <<c>>
  <2>1. \A s \in Seq(Tokens), y \in Tokens :
           /\ Append(s, y) \in Seq(Tokens) /\ Len(Append(s, y)) = Len(s) + 1
           /\ Append(s, y)[Len(s) + 1] = y /\ \A i \in 1..Len(s) : Append(s, y)[i] = s[i]
    OBVIOUS
  <2>2. a \in Seq(Tokens) /\ Len(a) = 1 /\ a[1] = x
    BY <1>1
  <2> HIDE DEF a
  <2>3. b \in Seq(Tokens) /\ Len(b) = 2 /\ b[1] = x /\ b[2] = n
    <3>1. Len(a) + 1 = 2 /\ 1 \in 1..Len(a)
      BY <2>2
    <3>2. b \in Seq(Tokens) /\ Len(b) = Len(a) + 1 /\ b[Len(a) + 1] = n /\ b[1] = a[1]
      BY <1>1, <2>1, <2>2, <3>1
    <3> HIDE DEF b
    <3> QED BY <2>2, <3>1, <3>2
  <2>4. b = <<x, n>>
    BY <1>1, Pairs DEF a
  <2> HIDE DEF b
  <2>5. d \in Seq(Tokens) /\ Len(d) = 3 /\ d[1] = x /\ d[2] = n /\ d[3] = c
    <3>1. Len(b) + 1 = 3 /\ 1 \in 1..Len(b) /\ 2 \in 1..Len(b)
      BY <2>3
    <3>2. d \in Seq(Tokens) /\ Len(d) = Len(b) + 1 /\ d[Len(b) + 1] = c /\ d[1] = b[1] /\ d[2] = b[2]
      BY <1>1, <2>1, <2>3, <3>1
    <3> HIDE DEF d
    <3> QED BY <2>3, <3>1, <3>2
  <2>6. <<x, n>> \o <<>> = <<x, n>> /\ Append(<<x, n>>, c) = <<x, n>> \o <<c>>
    BY <1>1, Pairs
  <2> QED BY <2>2, <2>3, <2>4, <2>5, <2>6
<1>3. LinesAt(<<>>) = {} /\ Records(<<>>) = <<>> /\ ~Pending(<<>>)
  BY RecordsEmpty DEF LinesAt, Pending
<1>4. LinesAt(a) = {} /\ Records(a) = <<>>
  BY <1>1, <1>3, OneToken DEF n
<1>5. Pending(a)
  BY <1>1, <1>2 DEF Pending
<1>6. LinesAt(b) = {1} /\ Records(b) = Append(<<>>, w)
  <2> HIDE DEF a
  <2>1. /\ LinesAt(Append(a, n)) = LinesAt(a) \cup {Len(a)}
        /\ Records(Append(a, n)) = Append(Records(a), a[Len(a)].by)
    BY <1>1, <1>2, <1>5, OneToken DEF n
  <2> QED BY <1>1, <1>2, <1>4, <2>1
<1>7. LinesAt(d) = {1} /\ Records(d) = Append(<<>>, w)
  <2> HIDE DEF b
  <2>1. c # Newline
    BY <1>1 DEF n
  <2>2. LinesAt(Append(b, c)) = LinesAt(b) \cup {} /\ Records(Append(b, c)) = Records(b)
    BY <1>1, <1>2, <2>1, OneToken
  <2> QED BY <1>6, <2>2
<1> HIDE DEF a, b, d
<1>9. t \in {b, d}
  BY <1>2 DEF c, x, n
<1>8. /\ Records(t) = <<w>> /\ LinesAt(t) = {1} /\ t[1] = x
      /\ Len(t) \in Nat /\ 2 <= Len(t)
      /\ \A i \in 1..Len(t), v \in Files : t[i] = Text(v) => i = 1 /\ v = w
  <2>0. Len(t) = 2 \/ (Len(t) = 3 /\ t[3] = c)
    BY <1>2, <1>9
  <2>5. t[1] = x /\ t[2] = n
    BY <1>2, <1>9
  <2>6. Records(t) = Append(<<>>, w) /\ LinesAt(t) = {1}
    BY <1>6, <1>7, <1>9
  <2>1. Append(<<>>, w) = <<w>>
    OBVIOUS
  <2>2. \A i \in 1..Len(t) : i = 1 \/ (i = 2 /\ t[i] = n) \/ (i = 3 /\ t[i] = c)
    BY <2>0, <2>5
  <2>4. \A i \in 1..Len(t), v \in Files : t[i] = Text(v) => i = 1 /\ v = w
    BY <1>1, <2>2, <2>5
  <2>7. Records(t) = <<w>> /\ LinesAt(t) = {1}
    <3> HIDE DEF Records
    <3> QED BY <2>1, <2>6
  <2>8. Len(t) \in Nat /\ 2 <= Len(t)
    BY <2>0
  <2> QED BY <2>4, <2>5, <2>7, <2>8
<1> QED BY <1>8 DEF x

(* The log at the start.                                                              *)
LEMMA LogStart == Init => LogInv /\ \A w \in Range(ever) : w \in Earlier
<1> SUFFICES ASSUME Init PROVE LogInv /\ \A w \in Range(ever) : w \in Earlier
  OBVIOUS
<1> USE HistoryAssumption
<1>1. /\ dir \in Dirs /\ dir.backup \in {Missing, Older} /\ dir.current \in {Missing, Newer}
      /\ onDisk = {dir} /\ ever = Readable /\ safe = [f \in Files |-> Len(text[f])]
      /\ pc = [p \in Procs |-> "lock"] /\ outcome = [p \in Procs |-> "none"]
  BY DEF Init
<1>2. PICK tail \in {<<>>, <<Cut>>} :
         text = [f \in Files |->
                   IF f \in Writers THEN <<>>
                   ELSE <<Text(f), Newline>> \o IF f = Newer THEN tail ELSE <<>>]
  BY DEF Init
<1>3. /\ Older \in Files /\ Newer \in Files /\ Older \notin Writers /\ Newer \notin Writers
      /\ Missing \notin Files /\ Older # Newer
      /\ \A w \in Writers : w \in Files /\ w \in Procs
      /\ \A f \in Files : f \notin Writers => f \in Earlier
  BY DEF Files, Earlier, Procs
<1>4. \A w \in Writers : text[w] = <<>> /\ LinesAt(text[w]) = {} /\ Len(text[w]) = 0
  BY <1>2, <1>3 DEF LinesAt
<1>5. ASSUME NEW f \in Files, f \notin Writers
      PROVE  /\ Records(text[f]) = <<f>> /\ LinesAt(text[f]) = {1} /\ text[f][1] = Text(f)
             /\ Len(text[f]) \in Nat /\ 2 <= Len(text[f])
             /\ \A i \in 1..Len(text[f]), v \in Files : text[f][i] = Text(v) => i = 1 /\ v = f
  <2> DEFINE e == IF f = Newer THEN tail ELSE <<>>
  <2>1. text[f] = <<Text(f), Newline>> \o e /\ e \in {<<>>, <<Cut>>}
    BY <1>2, <1>5
  <2> DEFINE Holding(t, w) ==
               /\ Records(t) = <<w>> /\ LinesAt(t) = {1} /\ t[1] = Text(w)
               /\ Len(t) \in Nat /\ 2 <= Len(t)
               /\ \A i \in 1..Len(t), v \in Files : t[i] = Text(v) => i = 1 /\ v = w
  <2>2. \A w \in Files, a \in {<<>>, <<Cut>>} : \A t : t = <<Text(w), Newline>> \o a => Holding(t, w)
    BY OneRecord
  <2> HIDE DEF e, Holding
  <2>3. Holding(text[f], f)
    BY <2>1, <2>2
  <2> QED BY <2>3 DEF Holding
<1>6. \A f, w \in Files, i \in Nat : Holds(f, i, w) => f \notin Writers /\ f = w /\ i = 1
  BY <1>4, <1>5 DEF Holds
<1>7. Readable \in {<<>>, <<Older>>, <<Newer>>, <<Older, Newer>>}
  <2>1. Content(dir.backup) = <<>> \/ Content(dir.backup) = text[Older]
    BY <1>1, <1>3 DEF Content
  <2>2. Content(dir.current) = <<>> \/ Content(dir.current) = text[Newer]
    BY <1>1, <1>3 DEF Content
  <2>3. /\ Records(Content(dir.backup)) \in {<<>>, <<Older>>}
        /\ Records(Content(dir.current)) \in {<<>>, <<Newer>>}
    BY <1>3, <1>5, <2>1, <2>2, RecordsEmpty
  <2>4. /\ <<>> \o <<>> = <<>> /\ <<>> \o <<Newer>> = <<Newer>> /\ <<Older>> \o <<>> = <<Older>>
    OBVIOUS
  <2>5. <<Older>> \o <<Newer>> = <<Older, Newer>>
    BY <1>3, Pairs
  <2>6. \A r, q : r \in {<<>>, <<Older>>} /\ q \in {<<>>, <<Newer>>} =>
                    r \o q \in {<<>>, <<Older>>, <<Newer>>, <<Older, Newer>>}
    BY <2>4, <2>5
  <2> QED BY <2>3, <2>6 DEF Readable
<1>8. Ever /\ \A w \in Range(ever) : w \in Earlier
  <2>1. \A q \in {<<>>, <<Older>>, <<Newer>>, <<Older, Newer>>} :
           /\ q \in Seq(Files) /\ \A i, j \in 1..Len(q) : q[i] = q[j] => i = j
           /\ \A w \in Range(q) : w \in Earlier
    <3> SUFFICES ASSUME NEW q \in {<<>>, <<Older>>, <<Newer>>, <<Older, Newer>>}
                 PROVE  /\ q \in Seq(Files) /\ \A i, j \in 1..Len(q) : q[i] = q[j] => i = j
                        /\ \A w \in Range(q) : w \in Earlier
      OBVIOUS
    <3>1. CASE q = <<>>
      BY <3>1 DEF Range
    <3>2. CASE q = <<Older>>
      BY <1>3, <3>2 DEF Range, Earlier
    <3>3. CASE q = <<Newer>>
      BY <1>3, <3>3 DEF Range, Earlier
    <3>4. CASE q = <<Older, Newer>>
      BY <1>3, <3>4 DEF Range, Earlier
    <3> QED BY <3>1, <3>2, <3>3, <3>4
  <2>2. ever \in {<<>>, <<Older>>, <<Newer>>, <<Older, Newer>>}
    BY <1>1, <1>7
  <2> QED BY <2>1, <2>2 DEF Ever
<1>9. Unique
  BY <1>6 DEF Unique
<1>10. \A w \in Writers : Unwritten(w)
  BY <1>3, <1>6, <1>8 DEF Unwritten, Procs
<1>11. ASSUME NEW f \in Files PROVE Kept(f)
  <2>1. safe[f] = Len(text[f]) /\ Len(text[f]) \in Nat
    BY <1>1, <1>4, <1>5
  <2>2. ASSUME NEW w \in Files, NEW i \in Nat, Holds(f, i, w)
        PROVE  i \in LinesAt(text[f]) /\ i + 1 <= safe[f]
    BY <1>5, <1>6, <2>1, <2>2
  <2> QED BY <2>1, <2>2 DEF Kept
<1>12. DirRecords(dir) = Readable /\ Len(ever) \in Nat
  BY <1>8 DEF DirRecords, Readable, Ever
<1>13. From(dir, 0)
  <2> HIDE DEF Readable, DirRecords
  <2> QED BY <1>1, <1>12 DEF From
<1>14. \A d \in onDisk : Segment(d)
  BY <1>1, <1>3, <1>13 DEF Segment
<1>15. \A w \in Writers : At(w)
  BY <1>1, <1>3 DEF At, Writing
<1> QED BY <1>8, <1>9, <1>10, <1>11, <1>14, <1>15 DEF LogInv, LogFiles

-----------------------------------------------------------------------------
(* What one step makes of the readable records and of the log.                        *)
LogMove ==
    \/ Readable' = Readable /\ ever' = ever
    \/ /\ \E w \in Writers : Unlink(w) \/ Replace(w) \/ Open(w)
       /\ ever' = ever
       /\ \E k \in 1..(Len(Readable) + 1) : Readable' = SubSeq(Readable, k, Len(Readable))
       /\ Range(Records(Content(dir.current))) \subseteq Range(Readable')
    \/ /\ \E w \in Writers : Repair(w) \/ Write(w) \/ WriteCut(w)
       /\ Range(Readable) \subseteq Range(Readable')
       /\ \E x \in Files : /\ x \notin Range(ever) /\ ~Settled(x)
                           /\ Readable' = Append(Readable, x) /\ ever' = Append(ever, x)
    \/ /\ PowerLoss
       /\ \A w \in Range(Readable) : Settled(w) => w \in Range(Readable')
       /\ \E L : /\ L = Range(ever) \ Range(ever')
                 /\ \A w \in L : ~Settled(w)
                 /\ ever' = Without(ever, L)
                 /\ \E k \in 1..(Len(ever) - Len(Readable) + 1) :
                      Readable' = Without(SubSeq(ever, k, Len(ever)), L)

(* The steps that leave the directory and the texts alone.                            *)
LEMMA QuietStep ==
    ASSUME HistoryInv, LogInv, Remember(ever),
           \/ \E p \in Procs : TryLock(p) \/ Close(p) \/ Fail(p) \/ Kill(p)
           \/ \E w \in Writers : Stat(w) \/ SyncRotation(w) \/ Sync(w) \/ DirSync(w)
           \/ \E r \in Readers : ReadBackup(r) \/ ReadCurrent(r)
           \/ UNCHANGED vars
    PROVE  LogFiles' /\ Readable' = Readable /\ ever' = ever
<1> DEFINE Early == {"lock"} \cup (Writing \ {"sync", "dirsync"})
           Still == \A w \in Writers : pc'[w] \in Early => pc[w] \in Early
           Told == \/ \A w \in Files : Settled(w)' => Settled(w)
                   \/ \E w \in Writers : DirSync(w)
           Longer == \A f \in Files : safe[f] <= safe'[f] /\ safe'[f] <= Len(text[f]) /\ safe'[f] \in Nat
<1> USE DEF Goto, Decide
<1>0. /\ HistoryTypeOK /\ dir \in onDisk
      /\ pc \in [Procs -> {"lock", "close", "done"} \cup Writing \cup Reading]
      /\ outcome \in [Procs -> {"none", "ok", "stopped"}]
      /\ \A w \in Writers : w \in Procs /\ w \notin Readers /\ w \in Files
      /\ \A r \in Readers : r \in Procs
      /\ \A f \in Files : safe[f] \in Nat /\ safe[f] <= Len(text[f]) /\ Len(text[f]) \in Nat
      /\ safe \in [Files -> Nat]
      /\ \A w \in Writers : Room(w)
      /\ dir.current \in Files \cup {Missing}
  BY HistoryAssumption, FileTypes DEF HistoryInv, HistoryTypeOK, Procs, LogInv, LogFiles, Kept
<1>1. {"close", "done", "backup", "current", "dirsync"} \cap Early = {}
      /\ {"lock", "stat", "rotated", "open", "unlink", "replace"} \subseteq Early
  BY DEF Writing
<1>2. ASSUME NEW p \in Procs, TryLock(p) \/ Close(p) \/ Fail(p) \/ Kill(p)
      PROVE  UNCHANGED <<dir, text>> /\ onDisk' \subseteq onDisk /\ Longer /\ Still /\ Told
  <2>1. UNCHANGED files
    BY <1>2 DEF TryLock, Close, Fail, Kill
  <2>2. \A w \in Writers : \/ pc'[w] = pc[w] \/ pc'[w] \in {"close", "done", "backup"}
                           \/ pc'[w] = "stat" /\ pc[w] = "lock"
    BY <1>0, <1>2 DEF TryLock, Close, Fail, Kill
  <2>3. \A w \in Writers : outcome'[w] = "ok" => outcome[w] = "ok"
    BY <1>0, <1>2 DEF TryLock, Close, Fail, Kill, Verdict
  <2> HIDE DEF Early
  <2>4. Still
    BY <1>1, <2>2
  <2> QED BY <1>0, <2>1, <2>3, <2>4 DEF files, Settled, Files
<1>3. ASSUME NEW w \in Writers, Stat(w) \/ SyncRotation(w) \/ Sync(w) \/ DirSync(w)
      PROVE  UNCHANGED <<dir, text>> /\ onDisk' \subseteq onDisk /\ Longer /\ Still /\ Told
  <2>1. UNCHANGED <<dir, text>> /\ onDisk' \subseteq onDisk
    BY <1>0, <1>3 DEF Stat, SyncRotation, Sync, DirSync, files
  <2>2. \A v \in Writers : \/ pc'[v] = pc[v] \/ pc'[v] \in {"dirsync", "close"}
                           \/ pc[v] = "stat" \/ pc[v] = "rotated"
    BY <1>0, <1>3 DEF Stat, SyncRotation, Sync, DirSync
  <2>3. Told
    BY <1>0, <1>3 DEF Stat, SyncRotation, Sync, Settled, Files
  <2>4. Longer
    <3>1. CASE Sync(w)
      <4>1. dir.current \in Files /\ safe' = [safe EXCEPT ![dir.current] = Len(text[dir.current])]
        BY <1>0, <3>1 DEF Sync, Room
      <4> QED BY <1>0, <4>1
    <3>2. CASE ~Sync(w)
      <4>1. safe' = safe
        BY <1>3, <3>2 DEF Stat, SyncRotation, DirSync, files
      <4> QED BY <1>0, <4>1
    <3> QED BY <3>1, <3>2
  <2> HIDE DEF Early
  <2>5. Still
    BY <1>1, <2>2
  <2> QED BY <2>1, <2>3, <2>4, <2>5
<1>4. ASSUME NEW r \in Readers, ReadBackup(r) \/ ReadCurrent(r)
      PROVE  UNCHANGED <<dir, text>> /\ onDisk' \subseteq onDisk /\ Longer /\ Still /\ Told
  <2>1. UNCHANGED files
    BY <1>4 DEF ReadBackup, ReadCurrent
  <2>2. \A w \in Writers : pc'[w] = pc[w] /\ outcome'[w] = outcome[w]
    BY <1>0, <1>4 DEF ReadBackup, ReadCurrent
  <2> QED BY <1>0, <2>1, <2>2 DEF files, Settled, Files
<1>5. ASSUME UNCHANGED vars
      PROVE  UNCHANGED <<dir, text>> /\ onDisk' \subseteq onDisk /\ Longer /\ Still /\ Told
  BY <1>0, <1>5 DEF vars, files, procs, Settled
<1>6. UNCHANGED <<dir, text>> /\ onDisk' \subseteq onDisk /\ Longer /\ Still /\ Told
  BY <1>2, <1>3, <1>4, <1>5
<1>7. \A f \in Files : safe[f] \in Nat /\ safe'[f] \in Nat /\ safe[f] <= safe'[f] /\ safe'[f] <= Len(text[f])
  BY <1>0, <1>6
<1> QED BY <1>6, <1>7, Quiet

(* A stuttering step remembers nothing new.                                           *)
LEMMA NothingNew ==
    ASSUME HistoryInv, LogInv, UNCHANGED vars
    PROVE  Remember(ever)
<1>1. Readable' = Readable /\ ever' = ever
  <2>1. UNCHANGED <<dir, text>> /\ ever' = ever
    BY DEF vars, files
  <2> QED BY <2>1, FilesAlone
<1>2. ever \in Seq(Files) /\ Readable \in Seq(Files) /\ Range(Readable) \subseteq Range(ever)
  BY Latest
<1>3. Without(Readable, Range(ever)) = <<>>
  BY <1>2, WithoutAll
<1>4. ever \o <<>> = ever
  BY <1>2
<1> QED BY <1>1, <1>3, <1>4 DEF Remember

(* Every step is one of these moves.                                                  *)
LEMMA Moves ==
    ASSUME HistoryInv, LogInv, [Next]_vars
    PROVE  LogFiles' /\ LogMove
<1>1. CASE UNCHANGED vars
  BY <1>1, NothingNew, QuietStep DEF LogMove
<1>2. CASE PowerLoss /\ Remember(Outlasting)
  BY <1>2, Recovered DEF LogMove
<1>3. ASSUME Remember(ever), NEW w \in Writers, Unlink(w) \/ Replace(w) \/ Open(w)
      PROVE  LogFiles' /\ LogMove
  <2>1. /\ ever' = ever /\ LogFiles'
        /\ \E k \in 1..(Len(Readable) + 1) : Readable' = SubSeq(Readable, k, Len(Readable))
        /\ Range(Records(Content(dir.current))) \subseteq Range(Readable')
    BY <1>3, Relinked
  <2> QED BY <1>3, <2>1 DEF LogMove
<1>4. ASSUME Remember(ever), NEW w \in Writers, Repair(w) \/ Write(w) \/ WriteCut(w)
      PROVE  LogFiles' /\ LogMove
  <2>1. /\ LogFiles'
        /\ \/ Readable' = Readable /\ ever' = ever
           \/ \E x \in Files : /\ x \notin Range(ever) /\ ~Settled(x)
                               /\ Readable' = Append(Readable, x) /\ ever' = Append(ever, x)
        /\ Range(Readable) \subseteq Range(Readable')
    BY <1>4, Grown
  <2> QED BY <1>4, <2>1 DEF LogMove
<1>5. ASSUME Remember(ever),
             \/ \E p \in Procs : TryLock(p) \/ Close(p) \/ Fail(p) \/ Kill(p)
             \/ \E w \in Writers : Stat(w) \/ SyncRotation(w) \/ Sync(w) \/ DirSync(w)
             \/ \E r \in Readers : ReadBackup(r) \/ ReadCurrent(r)
      PROVE  LogFiles' /\ LogMove
  BY <1>5, QuietStep DEF LogMove
<1> QED
  BY <1>1, <1>2, <1>3, <1>4, <1>5 DEF Next, Step, WriterStep, ReaderStep, Finished, Procs

(* Every step keeps the invariant.                                                    *)
LEMMA LogStep == HistoryInv /\ LogInv /\ [Next]_vars => LogInv'
<1> SUFFICES ASSUME HistoryInv, LogInv, [Next]_vars PROVE LogInv'
  OBVIOUS
<1>1. LogFiles'
  BY Moves
<1>2. \A w \in Writers : At(w)'
  BY AtStep
<1> QED BY <1>1, <1>2 DEF LogInv

(* The records that are confirmed are on the disk, and the directory that a power     *)
(* loss brings back still has them: every state the program reaches is such a state.  *)
LEMMA LogInvariant == Spec => [](HistoryInv /\ LogInv)
<1>1. Init => HistoryInv /\ LogInv
  BY HistoryInit, LogStart
<1>2. HistoryInv /\ LogInv /\ [Next]_vars => (HistoryInv /\ LogInv)'
  BY HistoryStep, LogStep
<1> QED BY <1>1, <1>2, PTL DEF Spec

(* What is readable is a sequence of records; in a definition, for the next state.    *)
ReadableType == Readable \in Seq(Files)

(* What is read has that type.                                                        *)
LEMMA ReadableTyped == HistoryInv => ReadableType
BY LogTypes DEF ReadableType

(* The rotation loses nothing of the active file, wherever a process dies in it, and  *)
(* a power loss takes no record of an append that has returned (os.replace, and the   *)
(* order of the fsyncs in append_history).                                            *)
THEOREM ActiveRecordsStaying == Spec => ActiveRecordsStay
<1> DEFINE Stays == \A w \in Range(Records(Content(dir.current))) :
                      Contains(Readable', w) \/ (PowerLoss /\ ~Settled(w))
<1>1. ASSUME HistoryInv, LogInv, [Next]_vars PROVE [Stays]_vars
  <2>1. /\ Readable \in Seq(Files) /\ Records(Content(dir.current)) \in Seq(Files)
        /\ Records(Content(dir.backup)) \in Seq(Files)
    BY <1>1, LogTypes, FileTypes DEF HistoryInv
  <2>2. Readable' \in Seq(Files)
    <3>1. HistoryInv'
      BY <1>1, HistoryStep
    <3>2. (HistoryInv => ReadableType)'
      BY ReadableTyped, PTL
    <3> QED BY <3>1, <3>2 DEF ReadableType
  <2>3. Range(Records(Content(dir.current))) \subseteq Range(Readable)
    BY <2>1, RangeConcat DEF Readable
  <2>4. \A w : w \in Range(Readable') => Contains(Readable', w)
    <3>1. DOMAIN Readable' = 1..Len(Readable')
      BY <2>2
    <3> QED BY <3>1 DEF Contains, Range
  <2>5. LogMove
    BY <1>1, Moves
  <2>6. \A w \in Range(Records(Content(dir.current))) : w \in Range(Readable') \/ (PowerLoss /\ ~Settled(w))
    BY <2>3, <2>5 DEF LogMove
  <2> QED BY <2>4, <2>6
<1>2. Spec => [](HistoryInv /\ LogInv)
  BY LogInvariant
<1>3. HistoryInv /\ LogInv /\ [Next]_vars => [Stays]_vars
  BY <1>1
<1> HIDE DEF Stays
<1>4. Spec => [][Stays]_vars
  BY <1>2, <1>3, PTL DEF Spec
<1> QED BY <1>4 DEF ActiveRecordsStay, Stays

-----------------------------------------------------------------------------
(* A write that stops early makes nothing readable: the newline is missing.           *)
LEMMA CutQuiet ==
    ASSUME HistoryInv, LogInv, Remember(ever), NEW w \in Writers, WriteCut(w)
    PROVE  Readable' = Readable /\ ever' = ever
<1> DEFINE f == dir.current
<1>1. /\ f \in Files /\ text \in [Files -> Seq(Tokens)] /\ dir' = dir /\ w \in Files
      /\ dir.backup \in Files \cup {Missing} /\ f # Missing /\ Missing \notin Files
  BY HistoryAssumption, FileTypes DEF HistoryInv, HistoryTypeOK, Room, WriteCut
<1>2. PICK x \in {Text(w), Cut} : text' = [text EXCEPT ![f] = text[f] \o <<x>>]
  BY DEF WriteCut, Extend
<1>3. x \in Tokens /\ x # Newline
  BY <1>1, TextTokens, TokenTypes
<1>4. text'[f] = Append(text[f], x)
  <2>1. text[f] \in Seq(Tokens)
    BY <1>1
  <2>2. text[f] \o <<x>> = Append(text[f], x)
    BY <1>3, <2>1, OneMore
  <2> QED BY <1>1, <1>2, <2>2
<1>5. Records(text'[f]) = Records(text[f])
  <2> DEFINE t == text[f]
  <2>1. t \in Seq(Tokens)
    BY <1>1
  <2> HIDE DEF t
  <2>2. Records(Append(t, x)) = Records(t)
    BY <1>3, <2>1, OneToken
  <2> QED BY <1>4, <2>2 DEF t
<1>6. \A g \in Files : Records(text'[g]) = Records(text[g])
  <2>1. \A g \in Files : g # f => text'[g] = text[g]
    BY <1>1, <1>2
  <2> QED BY <1>5, <2>1
<1>7. \A g \in Files \cup {Missing} : Records(Content(g))' = Records(Content(g)) 
  <2> SUFFICES ASSUME NEW g \in Files \cup {Missing} PROVE Records(Content(g)') = Records(Content(g))
    OBVIOUS
  <2>1. CASE g = Missing
    BY <2>1 DEF Content
  <2>2. CASE g \in Files
    <3>1. Content(g) = text[g] /\ Content(g)' = text'[g]
      BY <1>1, <2>2 DEF Content
    <3> QED BY <1>6, <2>2, <3>1
  <2> QED BY <2>1, <2>2
<1>8. Readable' = Readable
  <2>1. Records(Content(dir.current))' = Records(Content(dir.current))
    BY <1>1, <1>7
  <2>2. Records(Content(dir.backup))' = Records(Content(dir.backup))
    BY <1>1, <1>7
  <2> HIDE DEF Records, Content
  <2> QED BY <2>1, <2>2 DEF Readable
<1>9. ever' = ever
  BY <1>8, Latest, Remembered
<1> QED BY <1>8, <1>9

(* The status of the requests, as the log sees it. *)
Status == [w \in Writers |->
             IF outcome[w] = "none" THEN "active"
             ELSE IF outcome[w] = "ok" THEN "committed" ELSE "stopped"]

(* Nobody is decided.                                                                 *)
LEMMA StatusKept ==
    ASSUME \A w \in Writers : outcome'[w] = outcome[w]
    PROVE  Status' = Status
BY DEF Status

(* One request is decided. *)
LEMMA StatusDecided ==
    ASSUME HistoryTypeOK, NEW p \in Procs, NEW how \in {"ok", "stopped"}, Decide(p, how), outcome[p] = "none"
    PROVE  IF p \in Writers
           THEN Status[p] = "active" /\
                Status' = [Status EXCEPT ![p] = IF how = "ok" THEN "committed" ELSE "stopped"]
           ELSE Status' = Status
<1>1. outcome \in [Procs -> {"none", "ok", "stopped"}] /\ \A w \in Writers : w \in Procs
  BY DEF HistoryTypeOK, Procs
<1>2. outcome' = [outcome EXCEPT ![p] = how]
  BY DEF Decide
<1>3. CASE p \notin Writers
  BY <1>1, <1>2, <1>3 DEF Status
<1>4. CASE p \in Writers
  BY <1>1, <1>2, <1>4 DEF Status
<1> QED BY <1>3, <1>4

(* The elements of a sequence, as the log writes them.                                *)
LEMMA ContainsIs ==
    ASSUME NEW S, NEW s \in Seq(S)
    PROVE  \A x : Log!Contains(s, x) <=> x \in Range(s)
<1>1. DOMAIN s = 1..Len(s)
  OBVIOUS
<1> QED BY <1>1 DEF Log!Contains, Range

(* A record becomes readable.                                                         *)
LEMMA LogAppends ==
    ASSUME HistoryInv, LogInv, NEW x \in Files, x \notin Range(ever), ~Settled(x),
           Readable' = Append(Readable, x), ever' = Append(ever, x), Status' = Status
    PROVE  Log!LogNext
<1>1. x \in Writers /\ x \notin Earlier /\ outcome[x] # "ok"
  BY DEF Settled, Files
<1>2. ~Log!Contains(ever, x)
  BY Latest, ContainsIs
<1>3. Status[x] # "committed"
  BY <1>1 DEF Status
<1>4. Log!AppendRecord(x)
  <2> HIDE DEF Readable
  <2> QED BY <1>1, <1>2, <1>3 DEF Log!AppendRecord, Status
<1> QED BY <1>1, <1>4 DEF Log!LogNext

(* A request that fails.                                                              *)
LEMMA LogGivesUp ==
    ASSUME NEW w \in Writers, Status[w] = "active", Status' = [Status EXCEPT ![w] = "stopped"],
           Readable' = Readable, ever' = ever
    PROVE  Log!LogNext
BY DEF Log!LogNext, Log!GiveUpAppend, Status

(* A request that returns.                                                            *)
LEMMA LogConfirms ==
    ASSUME HistoryInv, LogInv, NEW w \in Writers, w \in Range(ever),
           Status[w] = "active", Status' = [Status EXCEPT ![w] = "committed"],
           Readable' = Readable, ever' = ever
    PROVE  Log!LogNext
<1>1. Log!Contains(ever, w)
  BY Latest, ContainsIs
<1> QED BY <1>1 DEF Log!LogNext, Log!Confirm, Status

(* A rotation.                                                                        *)
LEMMA LogForgets ==
    ASSUME NEW k \in 1..(Len(Readable) + 1), Readable' = SubSeq(Readable, k, Len(Readable)),
           ever' = ever, Status' = Status
    PROVE  Log!LogNext
<1> HIDE DEF Readable
<1> QED BY DEF Log!LogNext, Log!ForgetOldest, Status

(* What the log calls Without is what the files call so.                              *)
LEMMA LogWithout == \A s, S : Log!Without(s, S) = Without(s, S)
BY DEF Log!Without, Without, Log!Picked, Picked, Log!PickedUpTo, PickedUpTo

(* A power loss is one of the log.                                                    *)
LEMMA LogLoses ==
    ASSUME HistoryInv, LogInv, PowerLoss, Remember(Outlasting)
    PROVE  Log!LogNext
<1>1. PICK L : /\ L = Range(ever) \ Range(ever')
               /\ \A w \in L : ~Settled(w)
               /\ ever' = Without(ever, L)
               /\ \E k \in 1..(Len(ever) - Len(Readable) + 1) :
                    Readable' = Without(SubSeq(ever, k, Len(ever)), L)
  BY Recovered
<1>2. outcome \in [Procs -> {"none", "ok", "stopped"}] /\ \A w \in Writers : w \in Procs
  BY DEF HistoryInv, HistoryTypeOK, Procs
<1>3. L \subseteq {w \in Writers : Status[w] # "committed"}
  <2>1. L \subseteq Files
    <3>1. Range(ever) \subseteq Files
      BY EverHere DEF Range
    <3> QED BY <1>1, <3>1
  <2> QED BY <1>1, <2>1 DEF Settled, Files, Status
<1>4. \E ended \in SUBSET {w \in Writers : Status[w] = "active"} :
        Status' = [w \in Writers |-> IF w \in ended THEN "stopped" ELSE Status[w]]
  <2> DEFINE E == {w \in Writers : Status[w] = "active" /\ w \in Running}
  <2>1. PICK e : e = E
    OBVIOUS
  <2>2. outcome' = [p \in Procs |-> IF p \in Running THEN Verdict(p) ELSE outcome[p]]
    BY DEF PowerLoss
  <2>3. \A w \in Writers : Status'[w] = IF w \in e THEN "stopped" ELSE Status[w]
    BY <1>2, <2>1, <2>2 DEF Status, Verdict
  <2>4. Status' = [w \in Writers |-> Status'[w]]
    BY DEF Status
  <2>5. Status' = [w \in Writers |-> IF w \in e THEN "stopped" ELSE Status[w]]
    BY <2>3, <2>4
  <2> QED BY <2>1, <2>5
<1>5. \A s : Log!Range(s) = Range(s)
  BY DEF Log!Range, Range
<1>6. Log!LogPowerLoss
  <2> HIDE DEF Readable
  <2>1. Log!Range(ever) \ Log!Range(ever') = L
    BY <1>1, <1>5
  <2>2. ever' = Log!Without(ever, L)
    BY <1>1, LogWithout
  <2>3. \E k \in 1..(Len(ever) - Len(Readable) + 1) :
          Readable' = Log!Without(SubSeq(ever, k, Len(ever)), L)
    BY <1>1, LogWithout
  <2> QED BY <1>3, <1>4, <2>1, <2>2, <2>3 DEF Log!LogPowerLoss, Status
<1> QED BY <1>6 DEF Log!LogNext

(* The record of a request whose append is about to return is in the log.             *)
LEMMA SyncedIsThere ==
    ASSUME HistoryInv, LogInv, NEW w \in Writers, pc[w] = "dirsync"
    PROVE  w \in Range(ever) /\ outcome[w] = "none"
<1>1. At(w) /\ w \in Files /\ dir.current \in Files \cup {Missing}
  BY FileTypes DEF LogInv, HistoryInv
<1>2. PICK i \in LinesAt(text[dir.current]) : Holds(dir.current, i, w)
  BY <1>1 DEF At
<1>3. dir.current # Missing /\ dir.current \in Files /\ Content(dir.current) = text[dir.current]
  BY <1>1 DEF At, Content
<1>4. text[dir.current][i].by = w
  BY <1>2, TextTokens DEF Holds
<1>5. w \in Range(Records(Content(dir.current)))
  <2>1. text[dir.current] \in Seq(Tokens)
    BY <1>3, FileTypes DEF HistoryInv
  <2> QED BY <1>2, <1>3, <1>4, <2>1, RecordsType
<1>6. Range(Records(Content(dir.current))) \subseteq Range(Readable)
  <2>1. Records(Content(dir.current)) \in Seq(Files) /\ Records(Content(dir.backup)) \in Seq(Files)
    BY LogTypes, FileTypes DEF HistoryInv
  <2> QED BY <2>1, RangeConcat DEF Readable
<1>7. outcome[w] = "none"
  BY <1>1 DEF At, Writing
<1> QED BY <1>5, <1>6, <1>7, Latest

(* Every step is one of the log, or none.                                             *)
LEMMA LogRefines ==
    ASSUME HistoryInv, LogInv, [Next]_vars
    PROVE  Log!LogNext \/ (Readable' = Readable /\ ever' = ever /\ Status' = Status)
<1> DEFINE Goal == Log!LogNext \/ (Readable' = Readable /\ ever' = ever /\ Status' = Status)
<1> USE DEF Goto
<1>0. /\ HistoryTypeOK /\ outcome \in [Procs -> {"none", "ok", "stopped"}]
      /\ \A w \in Writers : w \in Procs /\ w \notin Readers /\ At(w)
      /\ \A r \in Readers : r \in Procs
  BY HistoryAssumption DEF HistoryInv, HistoryTypeOK, Procs, LogInv
<1>1. ASSUME Remember(ever), NEW p \in Procs, TryLock(p) \/ Close(p) \/ Fail(p) \/ Kill(p) PROVE Goal
  <2>1. Readable' = Readable /\ ever' = ever
    BY <1>1, QuietStep
  <2>2. outcome' = outcome \/ Decide(p, "stopped") \/ Decide(p, Verdict(p))
    BY <1>1 DEF TryLock, Close, Fail, Kill
  <2>3. outcome[p] = "ok" => outcome' = outcome
    <3>1. outcome[p] = "ok" => pc[p] \in {"close", "done"}
      BY DEF HistoryInv, Lock
    <3>2. outcome[p] = "ok" => Close(p) \/ Kill(p)
      BY <1>1, <3>1 DEF TryLock, Fail, Writing, Reading
    <3> QED BY <1>0, <3>2 DEF Close, Kill, Decide, Verdict
  <2>4. CASE outcome' = outcome
    BY <2>1, <2>4, StatusKept
  <2>5. CASE outcome' # outcome
    <3>1. Decide(p, "stopped")
      BY <2>2, <2>3, <2>5 DEF Verdict
    <3>2. outcome[p] = "none"
      BY <1>0, <2>5, <2>3, <3>1 DEF Decide
    <3>3. CASE p \in Writers
      <4>1. Status[p] = "active" /\ Status' = [Status EXCEPT ![p] = "stopped"]
        BY <1>0, <3>1, <3>2, <3>3, StatusDecided
      <4> QED BY <2>1, <3>3, <4>1, LogGivesUp
    <3>4. CASE p \notin Writers
      <4>1. Status' = Status
        BY <1>0, <3>1, <3>2, <3>4, StatusDecided
      <4> QED BY <2>1, <4>1
    <3> QED BY <3>3, <3>4
  <2> QED BY <2>4, <2>5
<1>2. ASSUME Remember(ever), NEW w \in Writers, Stat(w) \/ SyncRotation(w) \/ Sync(w) PROVE Goal
  <2>1. Readable' = Readable /\ ever' = ever
    BY <1>2, QuietStep
  <2>2. outcome' = outcome
    BY <1>2 DEF Stat, SyncRotation, Sync
  <2> QED BY <2>1, <2>2, StatusKept
<1>3. ASSUME Remember(ever), NEW w \in Writers, DirSync(w) PROVE Goal
  <2>1. Readable' = Readable /\ ever' = ever
    BY <1>3, QuietStep
  <2>2. pc[w] = "dirsync" /\ Decide(w, "ok")
    BY <1>3 DEF DirSync
  <2>3. w \in Range(ever) /\ outcome[w] = "none"
    BY <2>2, SyncedIsThere
  <2>4. Status[w] = "active" /\ Status' = [Status EXCEPT ![w] = "committed"]
    BY <1>0, <2>2, <2>3, StatusDecided
  <2> QED BY <2>1, <2>3, <2>4, LogConfirms
<1>4. ASSUME Remember(ever), NEW r \in Readers, ReadBackup(r) \/ ReadCurrent(r) PROVE Goal
  <2>1. Readable' = Readable /\ ever' = ever
    BY <1>4, QuietStep
  <2>2. \A w \in Writers : outcome'[w] = outcome[w]
    BY <1>0, <1>4 DEF ReadBackup, ReadCurrent, Decide
  <2> QED BY <2>1, <2>2, StatusKept
<1>5. ASSUME Remember(ever), NEW w \in Writers, Unlink(w) \/ Replace(w) \/ Open(w) PROVE Goal
  <2>1. ever' = ever /\ \E k \in 1..(Len(Readable) + 1) : Readable' = SubSeq(Readable, k, Len(Readable))
    BY <1>5, Relinked
  <2>2. Status' = Status
    <3>1. outcome' = outcome
      BY <1>5 DEF Unlink, Replace, Open
    <3> QED BY <3>1, StatusKept
  <2> QED BY <2>1, <2>2, LogForgets
<1>6. ASSUME Remember(ever), NEW w \in Writers, Repair(w) \/ Write(w) PROVE Goal
  <2>1. \/ Readable' = Readable /\ ever' = ever
        \/ \E x \in Files : /\ x \notin Range(ever) /\ ~Settled(x)
                            /\ Readable' = Append(Readable, x) /\ ever' = Append(ever, x)
    BY <1>6, Grown
  <2>2. Status' = Status
    <3>1. outcome' = outcome
      BY <1>6 DEF Repair, Write
    <3> QED BY <3>1, StatusKept
  <2> QED BY <2>1, <2>2, LogAppends
<1>7. ASSUME Remember(ever), NEW w \in Writers, WriteCut(w) PROVE Goal
  <2>1. Readable' = Readable /\ ever' = ever
    BY <1>7, CutQuiet
  <2>2. pc[w] = "write" /\ Decide(w, "stopped")
    BY <1>7 DEF WriteCut
  <2>3. outcome[w] = "none"
    BY <1>0, <2>2 DEF At, Writing
  <2>4. Status[w] = "active" /\ Status' = [Status EXCEPT ![w] = "stopped"]
    BY <1>0, <2>2, <2>3, StatusDecided
  <2> QED BY <2>1, <2>4, LogGivesUp
<1>8. CASE PowerLoss /\ Remember(Outlasting)
  BY <1>8, LogLoses
<1>9. CASE UNCHANGED vars
  <2>1. UNCHANGED <<dir, text, outcome, ever>>
    BY <1>9 DEF vars, files, procs
  <2> QED BY <2>1, FilesAlone, StatusKept
<1> QED
  BY <1>1, <1>2, <1>3, <1>4, <1>5, <1>6, <1>7, <1>8, <1>9
  DEF Next, Step, WriterStep, ReaderStep, Finished, Procs

(* The log starts with what earlier requests have left.                               *)
LEMMA LogStarts == Init => Log!LogInit
<1> SUFFICES ASSUME Init PROVE Log!LogInit
  OBVIOUS
<1>1. Readable \in Seq(Earlier) /\ Log!IsInjective(Readable)
  <2>1. Ever /\ (\A w \in Range(ever) : w \in Earlier) /\ \A i \in 1..Len(ever) : ever[i] \in Range(ever)
    <3>1. LogInv /\ \A w \in Range(ever) : w \in Earlier
      BY LogStart
    <3> QED BY <3>1, EverHere DEF LogInv, LogFiles
  <2>2. ever = Readable
    BY DEF Init
  <2> HIDE DEF Readable
  <2>3. Readable \in Seq(Earlier)
    <3>1. ever \in Seq(Files)
      BY <2>1 DEF Ever
    <3> QED BY <2>1, <2>2, <3>1
  <2>4. DOMAIN Readable = 1..Len(Readable)
    BY <2>3
  <2> QED BY <2>1, <2>2, <2>3, <2>4 DEF Ever, Log!IsInjective
<1>2. Status = [w \in Writers |-> "active"]
  BY DEF Init, Status, Procs
<1> QED BY <1>1, <1>2 DEF Log!LogInit, Status, Init

(* Every execution of the files is one of the log: a record per request at most, in   *)
(* the order of the appends, the oldest forgotten first (append_history,              *)
(* read_history).                                                                     *)
THEOREM FilesImplementLog == Spec => ImplementsLog
<1>1. Init => Log!LogInit
  BY LogStarts
<1>2. HistoryInv /\ LogInv /\ [Next]_vars => [Log!LogNext]_(Log!logVars)
  BY LogRefines DEF Log!logVars, Status
<1>3. Spec => [](HistoryInv /\ LogInv)
  BY LogInvariant
<1> QED BY <1>1, <1>2, <1>3, PTL DEF Spec, ImplementsLog, Log!LogSpec

=============================================================================
