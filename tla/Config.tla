-------------------------------- MODULE Config --------------------------------
(***************************************************************************)
(* config.toml, the commands that change it and the requests that read it. *)
(* `ainv config` loads, changes one field and saves, without a lock; a     *)
(* save is atomic (temporary file, fsync, rename, fsync of the directory). *)
(* What is at stake is the approval setting: a file that does not exist,   *)
(* or is empty, reads as approval off.                                     *)
(*                                                                         *)
(* A file is an inode; a process saves at most one, named after it.  The   *)
(* temporary file a failed save may leave is not modelled: nothing reads   *)
(* it, and it holds no secret.                                             *)
(***************************************************************************)
EXTENDS Naturals

CONSTANTS
    Procs,      \* the `ainv` commands that load or change the configuration
    Foreign,    \* files an editor wrote
    NoFile,     \* config.toml does not exist
    Broken,     \* a file load_config refuses; what such a file says
    None,       \* nothing loaded
    Jobs,       \* what the commands of this instance may be asked
    Edited,     \* what an editor leaves in the file, in this instance
    MaxEdits    \* bound of the model: how often an editor saves the file

Approvals == {"always", "off"}
Histories == {"on", "off"}
Settings == [approval : Approvals, history : Histories]

(* Config(): what an absent file, or an absent key, stands for. *)
Defaults == [approval |-> "off", history |-> "on"]

(* A request only loads; "keep" is an option that is not given. *)
JobType ==
    [kind : {"request", "update", "reset"},
     approval : Approvals \cup {"keep"}, history : Histories \cup {"keep"}]

(* The text of a file: a key may be absent. *)
Texts == [approval : Approvals \cup {"absent"}, history : Histories \cup {"absent"}]

EmptyText == [approval |-> "absent", history |-> "absent"]

Files == Procs \cup Foreign

ASSUME ConfigAssumption ==
    /\ Procs \cap Foreign = {} /\ NoFile \notin Files
    /\ Broken \notin Texts \cup Settings /\ None \notin Settings \cup {Broken}
    /\ Jobs \subseteq JobType /\ Edited \subseteq Texts \cup {Broken}
    /\ MaxEdits \in Nat

VARIABLES
    entry,      \* the file config.toml refers to, or NoFile
    onDisk,     \* what the name may refer to after a power loss
    data,       \* data[f]: the text f holds, or Broken
    synced,     \* the files whose content survives a power loss
    unsafe,     \* files with the wrong owner, mode, type or link count
    asked,      \* asked[p]: p's command
    pc,         \* pc[p]: p's next call
    seen,       \* seen[p]: the file p's stat returned
    got,        \* got[p]: what p's last load returned, or None
    outcome,    \* outcome[p]: "saved" once durable, "ok" once p exits with success
    edits,      \* saves of the editor so far
    window,     \* window[p]: the settings in force since the stat of p's load
    stale,      \* processes that have found something else than is there now
    overlapped  \* processes that renamed while stale

disk == <<entry, onDisk, data, synced, unsafe, edits>>
ghosts == <<window, stale, overlapped>>
vars == <<entry, onDisk, data, synced, unsafe, asked, pc, seen, got, outcome, edits,
          window, stale, overlapped>>

Loading == {"stat", "open", "read"}
Saving == {"inspect", "write", "sync", "rename"}

ConfigTypeOK ==
    /\ entry \in Files \cup {NoFile} /\ onDisk \in SUBSET (Files \cup {NoFile})
    /\ data \in [Files -> Texts \cup {Broken}]
    /\ synced \in SUBSET Files /\ unsafe \in SUBSET Files
    /\ asked \in [Procs -> Jobs]
    /\ pc \in [Procs -> {"idle", "dirsync", "done"} \cup Loading \cup Saving]
    /\ seen \in [Procs -> Files \cup {NoFile}]
    /\ got \in [Procs -> Settings \cup {None}]
    /\ outcome \in [Procs -> {"none", "saved", "ok", "failed", "killed"}]
    /\ edits \in 0..MaxEdits
    /\ window \in [Procs -> SUBSET (Settings \cup {Broken})]
    /\ stale \in SUBSET Procs /\ overlapped \in SUBSET Procs

(* The strict parser, once the file is known to be safe. *)
Parsed(t) ==
    IF t = Broken THEN Broken
    ELSE [approval |-> IF t.approval = "absent" THEN Defaults.approval ELSE t.approval,
          history |-> IF t.history = "absent" THEN Defaults.history ELSE t.history]

(* What save_config writes: the default of history is left out. *)
Written(c) ==
    [approval |-> c.approval, history |-> IF c.history = "on" THEN "absent" ELSE c.history]

(* What a load that meets nobody returns; Broken when it fails. *)
SettingsOf(f) ==
    IF f = NoFile THEN Defaults ELSE IF f \in unsafe THEN Broken ELSE Parsed(data[f])

InForce == SettingsOf(entry)

(* What a command goes by: the settings it loads, and whether the file may be replaced. *)
Found == <<InForce, entry \in unsafe>>

(* Wrong on purpose: an update starts from the defaults. *)
ChangedFromDefaults(c, job) ==
    [approval |-> IF job.approval = "keep" THEN Defaults.approval ELSE job.approval,
     history |-> IF job.history = "keep" THEN Defaults.history ELSE job.history]

(* dataclasses.replace(current, ...) with the options that were given. *)
Changed(c, job) ==
    [approval |-> IF job.approval = "keep" THEN c.approval ELSE job.approval,
     history |-> IF job.history = "keep" THEN c.history ELSE job.history]

Init ==
    /\ entry \in Foreign \cup {NoFile}
    /\ onDisk = {entry}
    /\ \E t \in Edited : data = [f \in Files |-> IF f = entry THEN t ELSE EmptyText]
    /\ synced = Foreign
    /\ unsafe \in SUBSET ({entry} \ {NoFile})
    /\ asked \in [Procs -> Jobs]
    /\ pc = [p \in Procs |-> "idle"]
    /\ seen = [p \in Procs |-> NoFile]
    /\ got = [p \in Procs |-> None]
    /\ outcome = [p \in Procs |-> "none"]
    /\ edits = 0
    /\ window = [p \in Procs |-> {}]
    /\ stale = {} /\ overlapped = {}

-----------------------------------------------------------------------------
Goto(p, to) == pc' = [pc EXCEPT ![p] = to]

End(p, how) == Goto(p, "done") /\ outcome' = [outcome EXCEPT ![p] = how]

(* --reset saves without loading; every other command loads first. *)
Begin(p) ==
    /\ pc[p] = "idle"
    /\ Goto(p, IF asked[p].kind = "reset" THEN "inspect" ELSE "stat")
    /\ UNCHANGED <<disk, asked, seen, got, outcome>>

(* A load ended: an update that has not saved goes on to save, any other command ends. *)
Loaded(p, c) ==
    /\ got' = [got EXCEPT ![p] = c]
    /\ IF asked[p].kind = "update" /\ outcome[p] = "none"
       THEN Goto(p, "inspect") /\ UNCHANGED outcome
       ELSE End(p, "ok")

Stat(p) ==
    /\ pc[p] = "stat"
    /\ \/ entry = NoFile /\ Loaded(p, Defaults) /\ UNCHANGED seen
       \/ /\ entry # NoFile /\ entry \notin unsafe
          /\ seen' = [seen EXCEPT ![p] = entry]
          /\ Goto(p, "open")
          /\ UNCHANGED <<got, outcome>>
    /\ UNCHANGED <<disk, asked>>

(* open(O_NOFOLLOW) and fstat: the file must be the one that was listed. *)
Open(p) ==
    /\ pc[p] = "open"
    /\ entry = seen[p] /\ entry \notin unsafe
    /\ Goto(p, "read")
    /\ UNCHANGED <<disk, asked, seen, got, outcome>>

(* Wrong on purpose: a file that cannot be parsed stands for the defaults. *)
ReadLenient(p) ==
    /\ pc[p] = "read"
    /\ Loaded(p, IF data[seen[p]] = Broken THEN Defaults ELSE Parsed(data[seen[p]]))
    /\ seen' = [seen EXCEPT ![p] = NoFile]
    /\ UNCHANGED <<disk, asked>>

(* From the open descriptor, whatever the name refers to by now. *)
Read(p) ==
    /\ pc[p] = "read"
    /\ data[seen[p]] # Broken
    /\ Loaded(p, Parsed(data[seen[p]]))
    /\ seen' = [seen EXCEPT ![p] = NoFile]
    /\ UNCHANGED <<disk, asked>>

(* lstat of the existing file: an unsafe one is not replaced, a broken one is. *)
Inspect(p) ==
    /\ pc[p] = "inspect"
    /\ entry \notin unsafe
    /\ Goto(p, "write")
    /\ UNCHANGED <<disk, asked, seen, got, outcome>>

(* Every check above that does not hold ends the command with an error. *)
Refuse(p) ==
    /\ \/ pc[p] = "stat" /\ entry \in unsafe
       \/ pc[p] = "open" /\ (entry # seen[p] \/ entry \in unsafe)
       \/ pc[p] = "read" /\ data[seen[p]] = Broken
       \/ pc[p] = "inspect" /\ entry \in unsafe
    /\ End(p, "failed")
    /\ UNCHANGED <<disk, asked, seen, got>>

Write(p) ==
    /\ pc[p] = "write"
    /\ data' = [data EXCEPT ![p] =
                  Written(IF asked[p].kind = "reset" THEN Defaults ELSE Changed(got[p], asked[p]))]
    /\ Goto(p, "sync")
    /\ UNCHANGED <<entry, onDisk, synced, unsafe, edits, asked, seen, got, outcome>>

(* Wrong on purpose: the data is left to the kernel. *)
SyncSkipped(p) ==
    /\ pc[p] = "sync"
    /\ Goto(p, "rename")
    /\ UNCHANGED <<disk, asked, seen, got, outcome>>

Sync(p) ==
    /\ pc[p] = "sync"
    /\ synced' = synced \cup {p}
    /\ Goto(p, "rename")
    /\ UNCHANGED <<entry, onDisk, data, unsafe, edits, asked, seen, got, outcome>>

Rename(p) ==
    /\ pc[p] = "rename"
    /\ entry' = p
    /\ onDisk' = onDisk \cup {p}
    /\ Goto(p, "dirsync")
    /\ UNCHANGED <<data, synced, unsafe, edits, asked, seen, got, outcome>>

(* The save is durable; the command loads again to print what is in force. *)
DirSync(p) ==
    /\ pc[p] = "dirsync"
    /\ onDisk' = {entry}
    /\ outcome' = [outcome EXCEPT ![p] = "saved"]
    /\ got' = [got EXCEPT ![p] = None]
    /\ Goto(p, "stat")
    /\ UNCHANGED <<entry, data, synced, unsafe, edits, asked, seen>>

(* A system call fails, or the command is killed: nothing is held that a kill would   *)
(* not give back.  Also after the rename, or in the last load.                        *)
Fail(p) ==
    /\ pc[p] \notin {"idle", "done"}
    /\ End(p, "failed")
    /\ UNCHANGED <<disk, asked, seen, got>>

-----------------------------------------------------------------------------
(* The user's editor saves by rename, or creates the file; or removes it.  It may     *)
(* write what load_config refuses: a mistake, a mode, a setting of a later version.   *)
EditorSaves ==
    /\ edits < MaxEdits /\ edits' = edits + 1
    /\ \/ \E f \in Foreign \ onDisk, t \in Edited :
            /\ entry' = f /\ onDisk' = onDisk \cup {f}
            /\ data' = [data EXCEPT ![f] = t]
       \/ /\ entry # NoFile
          /\ entry' = NoFile /\ onDisk' = onDisk \cup {NoFile}
          /\ UNCHANGED data
    /\ UNCHANGED <<synced, unsafe, asked, pc, seen, got, outcome>>

(* Whatever runs dies; a file that was not synced comes back empty or unreadable.     *)
PowerLoss ==
    /\ entry' \in onDisk
    /\ onDisk' = {entry'}
    /\ \E lost \in {EmptyText, Broken} :
          data' = [f \in Files |-> IF f \in onDisk \ synced THEN lost ELSE data[f]]
    /\ pc' = [p \in Procs |-> IF pc[p] = "idle" THEN "idle" ELSE "done"]
    /\ outcome' = [p \in Procs |->
                     IF pc[p] \in {"idle", "done"} THEN outcome[p] ELSE "killed"]
    /\ UNCHANGED <<synced, unsafe, edits, asked, seen, got>>

Step(p) ==
    \/ Begin(p) \/ Stat(p) \/ Open(p) \/ Read(p) \/ Inspect(p) \/ Refuse(p)
    \/ Write(p) \/ Sync(p) \/ Rename(p) \/ DirSync(p) \/ Fail(p)

(* What the properties remember of the past. *)
Remember ==
    /\ window' = [p \in Procs |->
                    IF pc'[p] \in {"open", "read"} THEN window[p] \cup {InForce'} ELSE {}]
    /\ stale' = {p \in Procs :
                   /\ pc'[p] \in Loading \cup Saving
                   /\ p \in stale \/ (pc[p] \in {"open", "read"} \cup Saving /\ Found' # Found)}
    /\ overlapped' = overlapped \cup {p \in stale : pc[p] = "rename" /\ pc'[p] = "dirsync"}

Finished == (\A p \in Procs : pc[p] = "done") /\ UNCHANGED vars

Next ==
    \/ (\E p \in Procs : Step(p)) /\ Remember
    \/ EditorSaves /\ Remember
    \/ PowerLoss /\ Remember
    \/ Finished

Spec == Init /\ [][Next]_vars

-----------------------------------------------------------------------------
(* Approvals are required, or the configuration is refused and nothing is delivered. *)
Strict(c) == c = Broken \/ c.approval = "always"

(* A load returns settings that were in force at some instant of it, and never part   *)
(* of a save or an empty file between two (load_config beside save_config).           *)
LoadsWhatWasInForce ==
    [][\A p \in Procs : pc'[p] # pc[p] /\ pc[p] \in Loading /\ got'[p] # None =>
           got'[p] \in window[p] \cup {InForce}]_vars

(* Approvals stop being required only by a command that asks for it (--approval off,  *)
(* or --reset of a safe file), by an editor, by a power loss that undoes a save nobody *)
(* was told of, or by an update that overlapped a change it did not see.              *)
NoSilentDowngrade ==
    [][Strict(InForce) /\ ~Strict(InForce') =>
         \/ edits' # edits
         \/ \E p \in Procs :
              /\ pc[p] = "rename" /\ pc'[p] = "dirsync"
              /\ \/ p \in stale
                 \/ asked[p].approval = "off" /\ InForce # Broken
                 \/ asked[p].kind = "reset" /\ entry \notin unsafe
         \/ /\ entry' \in onDisk \ {entry}
            /\ InForce' = SettingsOf(entry')]_vars

(* As long as only ainv writes the file, a setting reported as saved stays, over      *)
(* power losses too, until another command resets the file, asks for another setting, *)
(* or overlapped: it loaded before and renamed after.                                 *)
AskedSettingStays ==
    \A p \in Procs, f \in onDisk :
        outcome[p] \in {"saved", "ok"} /\ asked[p].kind = "update" /\ edits = 0 =>
            \A key \in {"approval", "history"} :
                \/ asked[p][key] = "keep"
                \/ SettingsOf(f) # Broken /\ SettingsOf(f)[key] = asked[p][key]
                \/ \E q \in Procs \ {p} :
                     /\ pc[q] # "idle"
                     /\ \/ q \in overlapped
                        \/ asked[q].kind = "reset"
                        \/ asked[q][key] \notin {"keep", asked[p][key]}

(* A file load_config refuses is replaced by --reset only, or by its editor           *)
(* ("Malformed TOML and unknown settings are never silently discarded by an update",  *)
(* SPEC.md).                                                                          *)
BrokenIsKept ==
    [][InForce = Broken /\ InForce' # Broken =>
         \/ edits' # edits
         \/ onDisk # {entry} /\ onDisk' = {entry'}
         \/ \E p \in Procs : pc[p] = "rename" /\ pc'[p] = "dirsync" /\ asked[p].kind = "reset"]_vars

=============================================================================
