-------------------------- MODULE DotenvTemporaries --------------------------
(***************************************************************************)
(* DotenvEditors with the record of whose creation, close or clean-up of   *)
(* its temporary file failed: what is known of these files, which hold     *)
(* plaintext, after a command has ended with an error, whatever else       *)
(* writes the destination.                                                 *)
(***************************************************************************)
EXTENDS DotenvEditors

VARIABLE broken     \* history: the processes for which one of these calls failed

temporariesVars == <<vars, editorVars, broken>>

(* The create, the close, or a call of the `finally` does not return as it should. *)
Breaks(p) ==
    /\ pc[p] \in Clearing \cup {"create", "close"}
    /\ FailInside(p) \/ InterruptCreate(p)

TemporariesInit == EditorInit /\ broken = {}

TemporariesNext == EditorNext /\ broken' = broken \cup {p \in Procs : Breaks(p)}

TemporariesSpec == TemporariesInit /\ [][TemporariesNext]_temporariesVars

-----------------------------------------------------------------------------
(* A temporary file stays in the directory only where the process was killed, where   *)
(* Ctrl-C hit its creation (it is empty then), or where the clean-up itself broke:    *)
(* its close or its unlink failed, or the close before the recheck did, after which   *)
(* the `finally` closes a second time and raises before the unlink.  A write, fsync,  *)
(* recheck or rename that fails never leaves plaintext behind by itself, whoever else *)
(* writes the same destination (_atomic_replace).                                     *)
NoPlaintextLeft ==
    \A p \in temps :
        \/ pc[p] \in Writing \cup Clearing
        \/ outcome[p] = "killed"
        \/ p \in broken

=============================================================================
