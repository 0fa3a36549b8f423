----------------------------- MODULE ConfigProofs -----------------------------
(***************************************************************************)
(* Theorems about Config: what holds of config.toml and of every command,  *)
(* however many commands run at once, however often an editor saves the    *)
(* file and however often the machine loses power.                         *)
(***************************************************************************)
EXTENDS Config, TLAPS

(* The settings p is to save. *)
Saved(p) == IF asked[p].kind = "reset" THEN Defaults ELSE Changed(got[p], asked[p])

Updating(p) == asked[p].kind = "update"

(* A process that has not renamed its file yet. *)
Fresh(p) ==
    pc[p] \in {"idle"} \cup Saving \/ (pc[p] \in Loading /\ outcome[p] = "none")

(* Where a command is when it makes its next call. *)
Shape(p) ==
    /\ pc[p] = "idle" => got[p] = None
    /\ pc[p] \in {"idle", "dirsync"} => outcome[p] = "none"
    /\ pc[p] \in Loading => got[p] = None /\ outcome[p] \in {"none", "saved"}
    /\ pc[p] \in {"open", "read"} => seen[p] \in Files
    /\ pc[p] = "read" => seen[p] \notin unsafe
    /\ pc[p] \in Saving =>
         /\ outcome[p] = "none" /\ asked[p].kind \in {"update", "reset"}
         /\ Updating(p) => got[p] \in Settings
    /\ pc[p] = "rename" => p \in synced
    /\ pc[p] \in {"sync", "rename"} => data[p] = Written(Saved(p))

(* What the directory refers to is on disk; a file that is not renamed yet is nowhere. *)
Disk ==
    /\ entry \in onDisk /\ onDisk \subseteq synced \cup {NoFile}
    /\ Foreign \subseteq synced /\ unsafe \subseteq Foreign
    /\ \A q \in Procs : Fresh(q) =>
         /\ q \notin onDisk
         /\ \A p \in Procs : pc[p] \in {"open", "read"} => seen[p] # q

(* What p loaded was in force, and is, unless p is stale. *)
Current(p) ==
    /\ pc[p] = "read" /\ data[seen[p]] # Broken => Parsed(data[seen[p]]) \in window[p]
    /\ p \notin stale =>
         /\ pc[p] \in {"open", "read"} => InForce = SettingsOf(seen[p])
         /\ pc[p] \in Saving /\ Updating(p) => InForce = got[p]
         /\ pc[p] \in {"write", "sync", "rename"} => entry \notin unsafe

(* p did not ask for this setting, or somebody may have taken it away. *)
Taken(p, key) ==
    \/ asked[p][key] = "keep"
    \/ \E q \in Procs \ {p} :
         /\ pc[q] # "idle"
         /\ \/ q \in overlapped
            \/ asked[q].kind = "reset"
            \/ asked[q][key] \notin {"keep", asked[p][key]}

(* The settings s have what p asked for. *)
Has(p, s, key) == s # Broken /\ s[key] = asked[p][key]

Keys == {"approval", "history"}

Stays(p) ==
    Updating(p) /\ edits = 0 =>
        \A key \in Keys : Taken(p, key) \/
            /\ pc[p] = "dirsync" => Has(p, InForce, key)
            /\ outcome[p] \in {"saved", "ok"} => \A f \in onDisk : Has(p, SettingsOf(f), key)

(* The inductive invariant. *)
ConfigInv ==
    /\ ConfigTypeOK /\ Disk
    /\ \A p \in Procs : Shape(p) /\ Current(p) /\ Stays(p)

-----------------------------------------------------------------------------
(* Parsing undoes writing, and settings stay settings. *)
LEMMA WrittenIsParsed ==
    ASSUME NEW c \in Settings
    PROVE  Written(c) \in Texts /\ Parsed(Written(c)) = c /\ Written(c) # Broken
<1>1. Written(c) \in Texts
  BY DEF Settings, Texts, Written, Approvals, Histories
<1>2. Written(c) # Broken
  BY <1>1, ConfigAssumption
<1>3. Parsed(Written(c)) = c
  <2>1. PICK a \in Approvals, h \in Histories : c = [approval |-> a, history |-> h]
    BY DEF Settings
  <2>2. a # "absent" /\ h # "absent"
    BY DEF Approvals, Histories
  <2>3. Written(c) = [approval |-> a, history |-> IF h = "on" THEN "absent" ELSE h]
    BY <2>1 DEF Written
  <2> QED BY <1>2, <2>1, <2>2, <2>3 DEF Parsed, Defaults
<1> QED BY <1>1, <1>2, <1>3

LEMMA ParsedType ==
    ASSUME NEW t \in Texts
    PROVE  Parsed(t) \in Settings /\ t # Broken
BY ConfigAssumption DEF Settings, Texts, Parsed, Approvals, Histories, Defaults

LEMMA DefaultsType == Defaults \in Settings /\ Defaults # None /\ Defaults # Broken
BY ConfigAssumption DEF Defaults, Settings, Approvals, Histories

LEMMA ChangedType ==
    ASSUME NEW c \in Settings, NEW j \in JobType
    PROVE  Changed(c, j) \in Settings
BY DEF Settings, JobType, Changed, Approvals, Histories

LEMMA SavedType ==
    ASSUME ConfigTypeOK, NEW p \in Procs, Updating(p) => got[p] \in Settings,
           asked[p].kind \in {"update", "reset"}
    PROVE  Saved(p) \in Settings
<1>1. asked[p] \in JobType
  BY ConfigAssumption DEF ConfigTypeOK
<1> QED BY <1>1, DefaultsType, ChangedType DEF Saved, Updating

-----------------------------------------------------------------------------
LEMMA ConfigInit == Init => ConfigInv
<1> SUFFICES ASSUME Init PROVE ConfigInv
  OBVIOUS
<1>1. ConfigTypeOK
  <2>1. edits \in 0..MaxEdits
    BY ConfigAssumption DEF Init
  <2>2. EmptyText \in Texts
    BY DEF EmptyText, Texts, Approvals, Histories
  <2>3. data \in [Files -> Texts \cup {Broken}]
    BY <2>2, ConfigAssumption DEF Init
  <2>4. entry \in Files \cup {NoFile} /\ onDisk \in SUBSET (Files \cup {NoFile})
         /\ synced \in SUBSET Files /\ unsafe \in SUBSET Files
    BY DEF Init, Files
  <2> QED BY <2>1, <2>3, <2>4 DEF Init, ConfigTypeOK
<1>2. Disk
  BY ConfigAssumption DEF Init, Disk, Fresh, Files
<1>3. \A p \in Procs : Shape(p) /\ Current(p) /\ Stays(p)
  BY DEF Init, Shape, Current, Stays, Loading, Saving
<1> QED BY <1>1, <1>2, <1>3 DEF ConfigInv

LEMMA ConfigTypeStep == ConfigInv /\ [Next]_vars => ConfigTypeOK'
<1> SUFFICES ASSUME ConfigInv, [Next]_vars PROVE ConfigTypeOK'
  OBVIOUS
<1> USE DEF ConfigInv, ConfigTypeOK, disk, Goto, End, Saving, Loading
<1>1. \A f \in Files \cup {NoFile} : SettingsOf(f) \in Settings \cup {Broken}
  BY ParsedType, DefaultsType DEF SettingsOf, Parsed
<1>2. ASSUME Remember, InForce' \in Settings \cup {Broken}
      PROVE  /\ window' \in [Procs -> SUBSET (Settings \cup {Broken})]
             /\ stale' \in SUBSET Procs /\ overlapped' \in SUBSET Procs
  BY <1>2 DEF Remember
<1>3. ASSUME entry' \in Files \cup {NoFile}, unsafe' = unsafe, data' \in [Files -> Texts \cup {Broken}]
      PROVE  InForce' \in Settings \cup {Broken}
  BY <1>3, ParsedType, DefaultsType DEF InForce, SettingsOf, Parsed
<1>4. ASSUME NEW p \in Procs, Begin(p), Remember PROVE ConfigTypeOK'
  BY <1>2, <1>3, <1>4 DEF Begin
<1>5. ASSUME NEW p \in Procs, Stat(p), Remember PROVE ConfigTypeOK'
  BY <1>2, <1>3, <1>5, DefaultsType DEF Stat, Loaded
<1>6. ASSUME NEW p \in Procs, Open(p), Remember PROVE ConfigTypeOK'
  BY <1>2, <1>3, <1>6 DEF Open
<1>7. ASSUME NEW p \in Procs, Read(p), Remember PROVE ConfigTypeOK'
  <2>1. Parsed(data[seen[p]]) \in Settings
    BY <1>7, ParsedType DEF Read, Shape
  <2> QED BY <1>2, <1>3, <1>7, <2>1 DEF Read, Loaded
<1>8. ASSUME NEW p \in Procs, Inspect(p) \/ Refuse(p) \/ Fail(p), Remember PROVE ConfigTypeOK'
  BY <1>2, <1>3, <1>8 DEF Inspect, Refuse, Fail
<1>9. ASSUME NEW p \in Procs, Write(p), Remember PROVE ConfigTypeOK'
  <2>1. Written(Saved(p)) \in Texts
    BY <1>9, SavedType, WrittenIsParsed DEF Write, Shape
  <2>2. data' = [data EXCEPT ![p] = Written(Saved(p))]
    BY <1>9 DEF Write, Saved
  <2>3. data' \in [Files -> Texts \cup {Broken}]
    BY <2>1, <2>2
  <2> QED BY <1>2, <1>3, <1>9, <2>3 DEF Write
<1>10. ASSUME NEW p \in Procs, Sync(p), Remember PROVE ConfigTypeOK'
  BY <1>2, <1>3, <1>10 DEF Sync, Files
<1>11. ASSUME NEW p \in Procs, Rename(p), Remember PROVE ConfigTypeOK'
  BY <1>2, <1>3, <1>11 DEF Rename, Files
<1>12. ASSUME NEW p \in Procs, DirSync(p), Remember PROVE ConfigTypeOK'
  BY <1>2, <1>3, <1>12 DEF DirSync
<1>13. ASSUME EditorSaves, Remember PROVE ConfigTypeOK'
  <2>1. edits' \in 0..MaxEdits
    BY <1>13, ConfigAssumption DEF EditorSaves
  <2>2. data' \in [Files -> Texts \cup {Broken}]
    BY <1>13, ConfigAssumption DEF EditorSaves
  <2>3. entry' \in Files \cup {NoFile} /\ onDisk' \in SUBSET (Files \cup {NoFile})
    BY <1>13 DEF EditorSaves, Files
  <2> QED BY <1>2, <1>3, <1>13, <2>1, <2>2, <2>3 DEF EditorSaves
<1>14. ASSUME PowerLoss, Remember PROVE ConfigTypeOK'
  <2>1. data' \in [Files -> Texts \cup {Broken}]
    <3>1. EmptyText \in Texts
      BY DEF EmptyText, Texts, Approvals, Histories
    <3> QED BY <1>14, <3>1 DEF PowerLoss
  <2> QED BY <1>2, <1>3, <1>14, <2>1 DEF PowerLoss
<1>15. CASE UNCHANGED vars
  BY <1>15 DEF vars
<1> QED
  BY <1>4, <1>5, <1>6, <1>7, <1>8, <1>9, <1>10, <1>11, <1>12, <1>13, <1>14, <1>15
  DEF Next, Step, Finished

(* The directory and the files: one step per action that touches them.                *)
LEMMA DiskStep == ConfigInv /\ [Next]_vars => Disk'
<1> SUFFICES ASSUME ConfigInv, [Next]_vars PROVE Disk'
  OBVIOUS
<1> USE ConfigAssumption DEF ConfigInv, ConfigTypeOK, Disk, Fresh, disk, Goto, End, Saving, Loading, Files
<1>1. ASSUME NEW p \in Procs, Begin(p) PROVE Disk'
  BY <1>1 DEF Begin, Shape
<1>2. ASSUME NEW p \in Procs, Stat(p) PROVE Disk'
  BY <1>2 DEF Stat, Loaded, Shape
<1>3. ASSUME NEW p \in Procs, Open(p) PROVE Disk'
  BY <1>3 DEF Open, Shape
<1>4. ASSUME NEW p \in Procs, Read(p) PROVE Disk'
  BY <1>4 DEF Read, Loaded, Shape
<1>5. ASSUME NEW p \in Procs, Inspect(p) \/ Refuse(p) \/ Fail(p) PROVE Disk'
  BY <1>5 DEF Inspect, Refuse, Fail, Shape
<1>6. ASSUME NEW p \in Procs, Write(p) \/ Sync(p) PROVE Disk'
  BY <1>6 DEF Write, Sync, Shape
<1>7. ASSUME NEW p \in Procs, Rename(p) PROVE Disk'
  BY <1>7 DEF Rename, Shape
<1>8. ASSUME NEW p \in Procs, DirSync(p) PROVE Disk'
  BY <1>8 DEF DirSync, Shape
<1>9. ASSUME EditorSaves PROVE Disk'
  BY <1>9 DEF EditorSaves
<1>10. ASSUME PowerLoss PROVE Disk'
  BY <1>10 DEF PowerLoss
<1>11. CASE UNCHANGED vars
  BY <1>11 DEF vars
<1> QED
  BY <1>1, <1>2, <1>3, <1>4, <1>5, <1>6, <1>7, <1>8, <1>9, <1>10, <1>11 DEF Next, Step, Finished

(* Where the commands are.                                                            *)
LEMMA ShapeStep ==
    ASSUME ConfigInv, [Next]_vars, NEW q \in Procs PROVE Shape(q)'
<1> USE ConfigAssumption DEF ConfigInv, ConfigTypeOK, Shape, disk, Goto, End, Saving, Loading, Files,
        Saved, Updating
<1>1. ASSUME NEW p \in Procs, Begin(p) PROVE Shape(q)'
  <2>1. asked[p].kind \in {"request", "update", "reset"} /\ got[p] = None
    BY <1>1 DEF JobType, Begin
  <2> QED BY <1>1, <2>1 DEF Begin
<1>2. ASSUME NEW p \in Procs, Stat(p) PROVE Shape(q)'
  BY <1>2, DefaultsType DEF Stat, Loaded
<1>3. ASSUME NEW p \in Procs, Open(p) PROVE Shape(q)'
  BY <1>3 DEF Open
<1>4. ASSUME NEW p \in Procs, Read(p) PROVE Shape(q)'
  <2>1. Parsed(data[seen[p]]) \in Settings
    BY <1>4, ParsedType DEF Read
  <2> QED BY <1>4, <2>1 DEF Read, Loaded
<1>5. ASSUME NEW p \in Procs, Inspect(p) \/ Refuse(p) \/ Fail(p) PROVE Shape(q)'
  BY <1>5 DEF Inspect, Refuse, Fail
<1>6. ASSUME NEW p \in Procs, Write(p) PROVE Shape(q)'
  BY <1>6 DEF Write
<1>7. ASSUME NEW p \in Procs, Sync(p) PROVE Shape(q)'
  BY <1>7 DEF Sync
<1>8. ASSUME NEW p \in Procs, Rename(p) \/ DirSync(p) PROVE Shape(q)'
  BY <1>8 DEF Rename, DirSync
<1>9. ASSUME EditorSaves PROVE Shape(q)'
  BY <1>9 DEF EditorSaves
<1>10. ASSUME PowerLoss PROVE Shape(q)'
  BY <1>10 DEF PowerLoss
<1>11. CASE UNCHANGED vars
  BY <1>11 DEF vars
<1> QED
  BY <1>1, <1>2, <1>3, <1>4, <1>5, <1>6, <1>7, <1>8, <1>9, <1>10, <1>11 DEF Next, Step, Finished

(* What Remember says of a command that goes on.                                      *)
LEMMA Remembered ==
    ASSUME ConfigTypeOK, Remember, NEW q \in Procs
    PROVE  /\ pc'[q] \in {"open", "read"} =>
                InForce' \in window'[q] /\ window[q] \subseteq window'[q]
           /\ q \notin stale' /\ pc'[q] \in Loading \cup Saving =>
                /\ q \notin stale
                /\ pc[q] \in {"open", "read"} \cup Saving =>
                     InForce' = InForce /\ (entry' \in unsafe' <=> entry \in unsafe)
           /\ overlapped \subseteq overlapped'
           /\ q \in stale /\ pc[q] = "rename" /\ pc'[q] = "dirsync" => q \in overlapped'
<1> USE DEF ConfigTypeOK, Remember
<1>1. pc'[q] \in {"open", "read"} => InForce' \in window'[q] /\ window[q] \subseteq window'[q]
  OBVIOUS
<1>2. q \notin stale' /\ pc'[q] \in Loading \cup Saving =>
         q \notin stale /\ (pc[q] \in {"open", "read"} \cup Saving => Found' = Found)
  OBVIOUS
<1>3. Found' = Found => InForce' = InForce /\ (entry' \in unsafe' <=> entry \in unsafe)
  BY DEF Found
<1> QED BY <1>1, <1>2, <1>3

(* A step that leaves the files alone.                                                *)
LEMMA SameFiles ==
    ASSUME UNCHANGED <<entry, data, unsafe>>
    PROVE  InForce' = InForce /\ \A f : SettingsOf(f)' = SettingsOf(f)
BY DEF InForce, SettingsOf, Parsed

(* The file in the directory is not one that is being written.                        *)
LEMMA WriteElsewhere ==
    ASSUME ConfigInv, NEW p \in Procs, Write(p) \/ Sync(p)
    PROVE  /\ InForce' = InForce /\ \A f \in Files \cup {NoFile} : f # p => SettingsOf(f)' = SettingsOf(f)
           /\ p # entry /\ p \notin onDisk /\ unsafe' = unsafe /\ entry' = entry
           /\ \A q \in Procs : pc[q] \in {"open", "read"} => seen[q] # p /\ data'[seen[q]] = data[seen[q]]
<1> USE DEF ConfigInv, ConfigTypeOK, Disk, Fresh, Saving, Write, Sync, disk
<1>1. p # entry /\ p \notin onDisk /\ \A q \in Procs : pc[q] \in {"open", "read"} => seen[q] # p
  OBVIOUS
<1>2. \A f \in Files : f # p => data'[f] = data[f]
  OBVIOUS
<1>3. \A f \in Files \cup {NoFile} : f # p => SettingsOf(f)' = SettingsOf(f)
  BY <1>2 DEF SettingsOf, Parsed
<1> QED BY <1>1, <1>2, <1>3 DEF InForce, SettingsOf, Parsed, Shape

LEMMA CurrentStep ==
    ASSUME ConfigInv, [Next]_vars, NEW q \in Procs PROVE Current(q)'
<1> USE ConfigAssumption DEF ConfigInv, ConfigTypeOK, Disk, Shape, Current, disk, Goto, End, Saving, Loading, Files,
        Updating
<1>1. ASSUME NEW p \in Procs, Begin(p), Remember PROVE Current(q)'
  BY <1>1, SameFiles, Remembered DEF Begin
<1>2. ASSUME NEW p \in Procs, Stat(p), Remember PROVE Current(q)'
  BY <1>2, SameFiles, Remembered, DefaultsType DEF Stat, Loaded, InForce, SettingsOf
<1>3. ASSUME NEW p \in Procs, Open(p), Remember PROVE Current(q)'
  BY <1>3, SameFiles, Remembered DEF Open, InForce, SettingsOf
<1>4. ASSUME NEW p \in Procs, Read(p), Remember PROVE Current(q)'
  BY <1>4, SameFiles, Remembered DEF Read, Loaded, SettingsOf
<1>5. ASSUME NEW p \in Procs, Inspect(p) \/ Refuse(p) \/ Fail(p), Remember PROVE Current(q)'
  BY <1>5, SameFiles, Remembered DEF Inspect, Refuse, Fail
<1>6. ASSUME NEW p \in Procs, Write(p) \/ Sync(p), Remember PROVE Current(q)'
  <2>1. /\ UNCHANGED <<entry, unsafe, asked, seen, got, outcome>>
        /\ \/ pc' = pc
           \/ pc' = [pc EXCEPT ![p] = "sync"] /\ pc[p] = "write"
           \/ pc' = [pc EXCEPT ![p] = "rename"] /\ pc[p] = "sync"
    BY <1>6 DEF Write, Sync
  <2>2. pc[q] \in {"open", "read"} =>
           data'[seen[q]] = data[seen[q]] /\ SettingsOf(seen[q])' = SettingsOf(seen[q])
    BY <1>6, <2>1, WriteElsewhere DEF SettingsOf
  <2>3. InForce' = InForce
    BY <1>6, WriteElsewhere
  <2>4. ASSUME pc'[q] = "read", data'[seen'[q]] # Broken
        PROVE  Parsed(data'[seen'[q]]) \in window'[q]
    BY <1>6, <2>1, <2>2, <2>4, Remembered DEF Parsed
  <2>5. (Parsed(data[seen[q]]))' = Parsed(data'[seen'[q]])
    BY DEF Parsed
  <2>6. ASSUME q \notin stale', pc'[q] \in {"open", "read"}
        PROVE  InForce' = SettingsOf(seen[q])'
    BY <1>6, <2>1, <2>2, <2>3, <2>6, Remembered
  <2>7. ASSUME q \notin stale', pc'[q] \in Saving
        PROVE  /\ Updating(q)' => InForce' = got'[q]
               /\ pc'[q] \in {"write", "sync", "rename"} => entry' \notin unsafe'
    BY <1>6, <2>1, <2>3, <2>7, Remembered
  <2> QED BY <2>4, <2>5, <2>6, <2>7
<1>7. ASSUME NEW p \in Procs, Rename(p), Remember PROVE Current(q)'
  BY <1>7, Remembered DEF Rename, SettingsOf
<1>8. ASSUME NEW p \in Procs, DirSync(p), Remember PROVE Current(q)'
  BY <1>8, SameFiles, Remembered DEF DirSync
<1>9. ASSUME EditorSaves, Remember PROVE Current(q)'
  BY <1>9, Remembered DEF EditorSaves, SettingsOf, InForce
<1>10. ASSUME PowerLoss, Remember PROVE Current(q)'
  BY <1>10 DEF PowerLoss
<1>11. CASE UNCHANGED vars
  BY <1>11 DEF vars, InForce, SettingsOf
<1> QED
  BY <1>1, <1>2, <1>3, <1>4, <1>5, <1>6, <1>7, <1>8, <1>9, <1>10, <1>11 DEF Next, Step, Finished

(* Who may have taken a setting away may have so for ever.                            *)
LEMMA TakenStays ==
    ASSUME ConfigTypeOK, NEW p \in Procs, NEW key, Taken(p, key), asked' = asked, overlapped \subseteq overlapped',
           \A q \in Procs : pc[q] # "idle" => pc'[q] # "idle"
    PROVE  Taken(p, key)'
BY DEF Taken

(* Nothing but an editor, or a command that has not renamed its file, writes a file.  *)
LEMMA FilesOnDiskStay ==
    ASSUME ConfigInv, [Next]_vars, edits' = edits
    PROVE  /\ \A f \in onDisk : SettingsOf(f)' = SettingsOf(f)
           /\ asked' = asked /\ \A q \in Procs : pc[q] # "idle" => pc'[q] # "idle"
<1> USE ConfigAssumption DEF ConfigInv, ConfigTypeOK, Disk, Fresh, Saving, Loading, disk, Goto, End, Files
<1>1. \A p \in Procs : Write(p) => \A f \in onDisk : SettingsOf(f)' = SettingsOf(f)
  BY WriteElsewhere
<1>2. edits \in Nat
  OBVIOUS
<1>3. unsafe' = unsafe /\ asked' = asked /\ \A q \in Procs : pc[q] # "idle" => pc'[q] # "idle"
  BY <1>2 DEF Next, vars, Finished, Step, Begin, Stat, Loaded, Open, Read, Inspect, Refuse, Fail, Write, Sync,
     Rename, DirSync, EditorSaves, PowerLoss
<1>4. ASSUME \A p \in Procs : ~Write(p) PROVE \A f \in onDisk : f # NoFile => data'[f] = data[f]
  BY <1>2, <1>4 DEF Next, vars, Finished, Step, Begin, Stat, Loaded, Open, Read, Inspect, Refuse, Fail, Sync,
     Rename, DirSync, EditorSaves, PowerLoss
<1>5. ASSUME \A p \in Procs : ~Write(p) PROVE \A f \in onDisk : SettingsOf(f)' = SettingsOf(f)
  BY <1>3, <1>4, <1>5 DEF SettingsOf, Parsed
<1> QED BY <1>1, <1>3, <1>5

(* What a rename puts into force.                                                     *)
LEMMA RenameSets ==
    ASSUME ConfigInv, NEW r \in Procs, Rename(r)
    PROVE  /\ entry' = r /\ InForce' = Saved(r) /\ SettingsOf(r)' = Saved(r)
           /\ Saved(r) \in Settings /\ Saved(r) # Broken
<1> USE ConfigAssumption DEF ConfigInv, ConfigTypeOK, Disk, Shape, Saving, Files
<1>1. Saved(r) \in Settings /\ data[r] = Written(Saved(r)) /\ r \notin unsafe /\ r # NoFile
  BY SavedType DEF Rename
<1>2. data' = data /\ unsafe' = unsafe /\ entry' = r
  BY DEF Rename
<1>3. SettingsOf(r) = Saved(r) /\ Saved(r) # Broken
  BY <1>1, WrittenIsParsed DEF SettingsOf
<1>4. SettingsOf(r)' = Saved(r)
  BY <1>2, <1>3 DEF SettingsOf, Parsed
<1> QED BY <1>1, <1>2, <1>3, <1>4 DEF InForce

(* An update that is not stale keeps what it was not asked to change.                 *)
LEMMA RenameKeeps ==
    ASSUME ConfigInv, NEW r \in Procs, NEW q \in Procs, Rename(r), Remember, NEW key \in Keys,
           ~Taken(q, key)', q = r \/ Has(q, InForce, key), Updating(q)
    PROVE  Saved(r)[key] = asked[q][key]
<1> USE ConfigAssumption DEF ConfigInv, ConfigTypeOK, Shape, Current, Saving
<1>1. asked' = asked /\ pc[r] = "rename" /\ pc'[r] = "dirsync" /\ asked[q][key] # "keep"
  BY DEF Rename, Goto, Taken
<1>2. CASE q = r
  BY <1>1, <1>2 DEF Saved, Changed, Keys, Updating
<1>3. CASE q # r
  <2>1. r \notin overlapped' /\ asked[r].kind # "reset" /\ asked[r][key] \in {"keep", asked[q][key]}
    BY <1>1, <1>3 DEF Taken
  <2>2. r \notin stale /\ Updating(r)
    BY <1>1, <2>1, Remembered DEF Updating
  <2>3. InForce = got[r]
    BY <1>1, <2>2
  <2>4. got[r][key] = asked[q][key]
    BY <1>3, <2>3 DEF Has
  <2> QED BY <2>1, <2>2, <2>4 DEF Saved, Changed, Keys, Updating
<1> QED BY <1>2, <1>3

LEMMA StaysStep ==
    ASSUME ConfigInv, [Next]_vars, NEW q \in Procs PROVE Stays(q)'
<1> SUFFICES ASSUME Updating(q)', edits' = 0, NEW key \in Keys, ~Taken(q, key)'
             PROVE  /\ pc'[q] = "dirsync" => Has(q, InForce, key)'
                    /\ outcome'[q] \in {"saved", "ok"} =>
                         \A f \in onDisk' : Has(q, SettingsOf(f), key)'
  BY DEF Stays
<1> USE ConfigAssumption DEF ConfigInv, ConfigTypeOK
<1>1. edits = 0 /\ edits' = edits
  BY DEF Next, vars, Finished, Step, Begin, Stat, Open, Read, Inspect, Refuse, Fail, Write, Sync,
     Rename, DirSync, EditorSaves, PowerLoss, disk
<1>2. /\ \A f \in onDisk : SettingsOf(f)' = SettingsOf(f)
      /\ asked' = asked /\ \A p \in Procs : pc[p] # "idle" => pc'[p] # "idle"
  BY <1>1, FilesOnDiskStay
<1>3. overlapped \subseteq overlapped' /\ Updating(q)
  BY <1>2, Remembered DEF Next, vars, Finished, Updating
<1>4. ~Taken(q, key)
  BY <1>2, <1>3, TakenStays
<1>5. /\ pc[q] = "dirsync" => Has(q, InForce, key)
      /\ outcome[q] \in {"saved", "ok"} => \A f \in onDisk : Has(q, SettingsOf(f), key)
  BY <1>1, <1>3, <1>4 DEF Stays
<1>6. entry \in onDisk /\ \A f \in onDisk : Has(q, SettingsOf(f), key) => Has(q, SettingsOf(f), key)'
  BY <1>2 DEF Has, Disk
<1>7. CASE \E r \in Procs : Rename(r) /\ Remember
  <2>1. PICK r \in Procs : Rename(r) /\ Remember
    BY <1>7
  <2>2. onDisk' = onDisk \cup {r} /\ pc' = [pc EXCEPT ![r] = "dirsync"] /\ outcome' = outcome
    BY <2>1 DEF Rename, Goto
  <2>3. q = r \/ Has(q, InForce, key) => Has(q, InForce, key)' /\ Has(q, SettingsOf(r), key)'
    BY <1>2, <1>3, <2>1, RenameKeeps, RenameSets DEF Has
  <2>4. outcome[q] \in {"saved", "ok"} => Has(q, InForce, key)
    BY <1>5, <1>6 DEF InForce
  <2> QED BY <1>5, <1>6, <2>2, <2>3, <2>4
<1>8. CASE ~\E r \in Procs : Rename(r) /\ Remember
  <2>1. /\ onDisk' \subseteq onDisk
        /\ pc'[q] = "dirsync" => pc[q] = "dirsync" /\ entry' = entry
        /\ outcome'[q] \in {"saved", "ok"} =>
             outcome[q] \in {"saved", "ok"} \/ (pc[q] = "dirsync" /\ onDisk' = {entry})
    <3>1. CASE \E r \in Procs : Step(r) /\ Remember
      BY <1>3, <1>8, <3>1 DEF Step, Begin, Stat, Loaded, Open, Read, Inspect, Refuse, Fail, Write, Sync,
         DirSync, disk, Goto, End, Disk, Shape, Loading, Saving, Updating
    <3>2. CASE EditorSaves \/ PowerLoss \/ UNCHANGED vars
      BY <1>1, <3>2 DEF EditorSaves, PowerLoss, vars, Disk, Shape
    <3> QED BY <3>1, <3>2 DEF Next, Finished
  <2>2. InForce = SettingsOf(entry) /\ (entry' = entry => InForce' = SettingsOf(entry)')
    BY DEF InForce
  <2>3. pc'[q] = "dirsync" => Has(q, InForce, key)'
    BY <1>2, <1>5, <1>6, <2>1, <2>2 DEF Has
  <2>4. pc[q] = "dirsync" => Has(q, SettingsOf(entry), key)
    BY <1>5, <2>2
  <2> QED BY <1>5, <1>6, <2>1, <2>3, <2>4
<1> QED BY <1>7, <1>8

LEMMA ConfigStep == ConfigInv /\ [Next]_vars => ConfigInv'
BY ConfigTypeStep, DiskStep, ShapeStep, CurrentStep, StaysStep DEF ConfigInv

-----------------------------------------------------------------------------
(* config.toml, the files and the commands keep their types.                          *)
THEOREM ConfigTypeCorrect == Spec => []ConfigTypeOK
<1>1. ConfigInv => ConfigTypeOK
  BY DEF ConfigInv
<1> QED BY ConfigInit, ConfigStep, <1>1, PTL DEF Spec

(* A setting that was reported as saved stays until a command asks for another, or     *)
(* overlaps (load_config, save_config).                                               *)
THEOREM SettingsStay == Spec => []AskedSettingStays
<1>1. ASSUME ConfigInv PROVE AskedSettingStays
  <2> SUFFICES ASSUME NEW p \in Procs, NEW f \in onDisk, outcome[p] \in {"saved", "ok"},
                      Updating(p), edits = 0, NEW key \in Keys
               PROVE  Taken(p, key) \/ Has(p, SettingsOf(f), key)
    BY DEF AskedSettingStays, Updating, Keys, Taken, Has
  <2> QED BY <1>1 DEF ConfigInv, Stays
<1> QED BY ConfigInit, ConfigStep, <1>1, PTL DEF Spec

(* A load returns what was in force at some instant of it (load_config).              *)
THEOREM LoadsAreCurrent == Spec => LoadsWhatWasInForce
<1> DEFINE Loads ==
      \A p \in Procs : pc'[p] # pc[p] /\ pc[p] \in Loading /\ got'[p] # None =>
           got'[p] \in window[p] \cup {InForce}
<1>1. ASSUME ConfigInv, [Next]_vars PROVE [Loads]_vars
  <2> SUFFICES ASSUME NEW p \in Procs, pc'[p] # pc[p], pc[p] \in Loading, got'[p] # None
               PROVE  got'[p] \in window[p] \cup {InForce}
    OBVIOUS
  <2> USE ConfigAssumption DEF ConfigInv, ConfigTypeOK, Shape, Current
  <2>1. got[p] = None
    BY <1>1
  <2>2. CASE \E r \in Procs : Stat(r) \/ Read(r)
    <3>1. PICK r \in Procs : Stat(r) \/ Read(r)
      BY <2>2
    <3>2. r = p
      BY <1>1, <2>1, <3>1 DEF Stat, Read, Loaded, Goto, End
    <3>3. CASE Stat(p)
      BY <1>1, <2>1, <3>3 DEF Stat, Loaded, InForce, SettingsOf
    <3>4. CASE Read(p)
      BY <1>1, <2>1, <3>4 DEF Read, Loaded
    <3> QED BY <3>1, <3>2, <3>3, <3>4
  <2>3. CASE ~\E r \in Procs : Stat(r) \/ Read(r)
    BY <1>1, <2>1, <2>3 DEF Next, Finished, vars, Step, Begin, Open, Inspect, Refuse, Fail, Write, Sync,
       Rename, DirSync, EditorSaves, PowerLoss, Goto, End, Loading
  <2> QED BY <2>2, <2>3
<1> QED BY ConfigInit, ConfigStep, <1>1, PTL DEF Spec, LoadsWhatWasInForce

(* Approvals stop being required only by a command that asks for it, an editor, a     *)
(* power loss that undoes a save, or an overlap (save_config, Config's defaults).     *)
THEOREM NoDowngrade == Spec => NoSilentDowngrade
<1> DEFINE Silent == Strict(InForce) /\ ~Strict(InForce') =>
         \/ edits' # edits
         \/ \E p \in Procs :
              /\ pc[p] = "rename" /\ pc'[p] = "dirsync"
              /\ \/ p \in stale
                 \/ asked[p].approval = "off" /\ InForce # Broken
                 \/ asked[p].kind = "reset" /\ entry \notin unsafe
         \/ /\ entry' \in onDisk \ {entry}
            /\ InForce' = SettingsOf(entry')
<1>1. ASSUME ConfigInv, [Next]_vars PROVE [Silent]_vars
  <2> SUFFICES ASSUME Strict(InForce), ~Strict(InForce'), edits' = edits PROVE Silent
    OBVIOUS
  <2> USE ConfigAssumption DEF ConfigInv, ConfigTypeOK
  <2>1. InForce' # InForce
    OBVIOUS
  <2>2. \A f \in onDisk : SettingsOf(f)' = SettingsOf(f)
    BY <1>1, FilesOnDiskStay
  <2>3. entry \in onDisk /\ (entry' = entry => InForce' = SettingsOf(entry)')
    BY <1>1 DEF Disk, InForce
  <2>4. entry' # entry
    BY <2>1, <2>2, <2>3 DEF InForce
  <2>5. CASE \E r \in Procs : Rename(r)
    <3>1. PICK r \in Procs : Rename(r)
      BY <2>5
    <3>2. pc[r] = "rename" /\ pc'[r] = "dirsync" /\ InForce' = Saved(r) /\ Saved(r) \in Settings
      BY <1>1, <3>1, RenameSets DEF Rename, Goto
    <3>3. CASE r \notin stale /\ Updating(r)
      <4>1. InForce = got[r] /\ got[r] \in Settings
        BY <1>1, <3>2, <3>3 DEF Current, Shape, Saving
      <4>2. asked[r].approval = "off" /\ InForce # Broken
        <5>1. asked[r].approval \in {"always", "off", "keep"}
          BY <1>1 DEF JobType, Approvals
        <5>2. InForce # Broken /\ InForce.approval = "always"
          BY <4>1 DEF Strict
        <5>3. Saved(r) # Broken /\ Saved(r).approval # "always"
          BY <3>2 DEF Strict
        <5>4. Saved(r).approval = IF asked[r].approval = "keep" THEN got[r].approval ELSE asked[r].approval
          BY <3>3 DEF Saved, Updating, Changed
        <5> QED BY <4>1, <5>1, <5>2, <5>3, <5>4
      <4> QED BY <3>2, <4>2
    <3>4. CASE r \notin stale /\ ~Updating(r)
      <4>1. asked[r].kind = "reset" /\ entry \notin unsafe
        BY <1>1, <3>2, <3>4 DEF Current, Shape, Saving, Updating
      <4> QED BY <3>2, <4>1
    <3> QED BY <3>2, <3>3, <3>4
  <2>6. CASE ~\E r \in Procs : Rename(r)
    <3>1. entry' \in onDisk
      <4>1. edits \in Nat
        BY <1>1
      <4> QED
        BY <1>1, <2>3, <2>6, <4>1 DEF Next, Finished, vars, Step, Begin, Stat, Open, Read, Inspect, Refuse, Fail,
           Write, Sync, DirSync, EditorSaves, PowerLoss, disk
    <3>2. InForce' = SettingsOf(entry')
      <4>1. PICK f \in onDisk : f = entry'
        BY <3>1
      <4>2. SettingsOf(f)' = SettingsOf(f)
        BY <2>2
      <4>3. InForce' = SettingsOf(f)'
        BY <4>1 DEF InForce, SettingsOf
      <4> QED BY <4>1, <4>2, <4>3
    <3> QED BY <2>4, <3>1, <3>2
  <2> QED BY <2>5, <2>6
<1> QED BY ConfigInit, ConfigStep, <1>1, PTL DEF Spec, NoSilentDowngrade

=============================================================================
