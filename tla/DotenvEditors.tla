---------------------------- MODULE DotenvEditors ----------------------------
(***************************************************************************)
(* DotenvFile beside programs that do not take ainv's directory lock: an   *)
(* editor that saves by rename, writes the file in place, removes it, or   *)
(* gives it a second hard link, between any two system calls of `ainv      *)
(* set`.  Nothing can be promised about a change in the last instant; the  *)
(* module states exactly which changes _read_destination and               *)
(* _destination_is_unchanged cannot notice.                                *)
(***************************************************************************)
EXTENDS DotenvFile, Naturals

CONSTANT MaxEdits       \* bound of the model: how many changes the editors make

ASSUME EditsAssumption == MaxEdits \in Nat

VARIABLES
    spare,      \* Foreign files an editor has not used yet
    edits,      \* how many changes the editors have made
    moved,      \* processes past their recheck when the destination was replaced
    edited      \* processes past their read when that file was edited in place

editorVars == <<spare, edits, moved, edited>>

EditorInit ==
    /\ Init
    /\ spare = Foreign \ {entry}
    /\ edits = 0
    /\ moved = {}
    /\ edited = {}

Rechecked == {p \in Procs : pc[p] = "rename"}

HaveRead(f) == {p \in Procs : pc[p] \in {"validate"} \cup Writing /\ seen[p] = f}

Change ==
    /\ edits < MaxEdits
    /\ edits' = edits + 1

(* A new file takes the destination's name; it may be a symlink or another user's. *)
EditorSaves(f) ==
    /\ f \in spare
    /\ spare' = spare \ {f}
    /\ entry' = f
    /\ onDisk' = onDisk \cup {f}
    /\ \E d \in Docs : data' = [data EXCEPT ![f] = d]
    /\ unsafe' \in {unsafe, unsafe \cup {f}}
    /\ moved' = moved \cup Rechecked
    /\ UNCHANGED <<synced, temps, lock, pc, local, outcome, edited>>

EditorRemoves ==
    /\ entry # NoFile
    /\ entry' = NoFile
    /\ onDisk' = onDisk \cup {NoFile}
    /\ moved' = moved \cup Rechecked
    /\ UNCHANGED <<data, synced, unsafe, temps, lock, pc, local, outcome, spare, edited>>

(* Same inode, other bytes: O_TRUNC and write, or an append. *)
EditorWrites ==
    /\ entry # NoFile
    /\ \E d \in Docs \ {data[entry]} : data' = [data EXCEPT ![entry] = d]
    /\ edited' = edited \cup HaveRead(entry)
    /\ UNCHANGED <<entry, onDisk, synced, unsafe, temps, lock, pc, local, outcome,
                   spare, moved>>

(* `ln .env other`: the destination now has two names. *)
EditorLinks ==
    /\ entry \notin unsafe \cup {NoFile}
    /\ unsafe' = unsafe \cup {entry}
    /\ moved' = moved \cup Rechecked
    /\ UNCHANGED <<entry, onDisk, data, synced, temps, lock, pc, local, outcome,
                   spare, edited>>

EditorNext ==
    \/ /\ \E p \in Procs : Begin(p) \/ Step(p) \/ Fail(p)
       /\ moved' = moved \cap Rechecked'
       /\ edited' = {p \in edited : pc'[p] \in {"validate"} \cup Writing}
       /\ UNCHANGED <<spare, edits>>
    \/ Change /\ ( \/ \E f \in Foreign : EditorSaves(f)
                  \/ EditorRemoves
                  \/ EditorWrites
                  \/ EditorLinks )
    \/ Finished /\ UNCHANGED editorVars

EditorSpec == EditorInit /\ [][EditorNext]_<<vars, editorVars>>

-----------------------------------------------------------------------------
(* When a process is about to rename over the destination, the destination is the    *)
(* very file it read, safe and with the bytes it read, unless it was replaced after  *)
(* the recheck or edited in place after the read: only those two changes by programs *)
(* that ignore the lock can be lost (_read_destination, _destination_is_unchanged).  *)
OnlyLateChangesAreLost ==
    \A p \in Rechecked :
        /\ p \in moved \/ Unchanged(p)
        /\ p \in moved \cup edited \/ buf[p] = Contents(entry)

(* A process that refuses the destination, or fails before the rename, leaves what   *)
(* an editor put there: a step of a process changes the name only by renaming its    *)
(* own, whole, temporary file, and never changes the content of a file in use.       *)
OnlyRenamesPublish ==
    [][\A p \in Procs :
         (pc'[p] # pc[p] /\ Contents(entry)' # Contents(entry)) =>
            /\ entry' = p /\ p \in temps /\ p \in synced
            /\ outcome[p] = "none" /\ Acceptable(buf[p], request[p])]_vars

=============================================================================
