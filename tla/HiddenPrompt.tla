----------------------------- MODULE HiddenPrompt -----------------------------
(***************************************************************************)
(* _prompt_new_secret and _read_hidden_input of src/ainv/cli.py: a line    *)
(* read from the terminal with echo off, while the person types ahead,     *)
(* pastes several lines, ends the input or interrupts, calls fail, the     *)
(* process is killed, and the job is stopped and continued by a shell that *)
(* turns echo on.                                                          *)
(*                                                                         *)
(* The terminal hands out whole lines.  A key is a character, the end of a *)
(* line or the end of input, typed while echo was on or off.               *)
(***************************************************************************)
EXTENDS Sequences, SequencesExt, Naturals

CONSTANT MaxKeys        \* bound of the model: keys typed during one call

ASSUME HiddenPromptAssumption == MaxKeys \in Nat

VARIABLES
    tpc,        \* the next call, "idle" before and "done" after them
    echo,       \* what the terminal does
    queue,      \* the keys typed and not yet read
    value,      \* the keys read so far
    original,   \* echo, as tcgetattr returned it
    result,     \* "none", or how it ends: "secret", an exit status, "interrupted", "killed"
    keys,       \* keys typed so far
    lapse       \* history: what befell the terminal's settings

promptVars == <<tpc, echo, queue, value, original, result, keys, lapse>>

Lapses == {"stopped", "interrupted between", "restore failed"}

Key == [kind : {"char", "newline", "eof"}, hidden : BOOLEAN]

PromptTypeOK ==
    /\ tpc \in {"idle", "open", "getattr", "hide", "hidden", "prompt", "read", "restore",
                "newline", "close", "decode", "done"}
    /\ echo \in BOOLEAN /\ original \in BOOLEAN
    /\ queue \in Seq(Key) /\ value \in Seq(Key)
    /\ result \in {"none", "secret", "2", "5", "7", "interrupted", "killed"}
    /\ keys \in 0..MaxKeys
    /\ lapse \in SUBSET Lapses

PromptInit ==
    /\ tpc = "idle"
    /\ echo = TRUE /\ original = TRUE
    /\ queue = <<>> /\ value = <<>> /\ result = "none" /\ keys = 0 /\ lapse = {}

PromptStart ==
    /\ tpc = "idle"
    /\ echo' \in BOOLEAN /\ original' = echo'
    /\ tpc' = "open"
    /\ UNCHANGED <<queue, value, result, keys, lapse>>

-----------------------------------------------------------------------------
Call(at, next) == tpc = at /\ tpc' = next /\ UNCHANGED <<keys, lapse>>

OpenTerminal ==
    /\ Call("open", "getattr")
    /\ UNCHANGED <<echo, queue, value, original, result>>

GetAttributes ==
    /\ Call("getattr", "hide")
    /\ original' = echo
    /\ UNCHANGED <<echo, queue, value, result>>

(* Wrong on purpose: TCSANOW keeps what was typed ahead. *)
HideNow ==
    /\ Call("hide", "hidden")
    /\ echo' = FALSE
    /\ UNCHANGED <<queue, value, original, result>>

(* tcsetattr with TCSAFLUSH: what was typed ahead is discarded. *)
Hide ==
    /\ Call("hide", "hidden")
    /\ echo' = FALSE /\ queue' = <<>>
    /\ UNCHANGED <<value, original, result>>

(* Only now is the inner `try` entered, whose `finally` restores echo. *)
EnterTry ==
    /\ Call("hidden", "prompt")
    /\ UNCHANGED <<echo, queue, value, original, result>>

WritePrompt ==
    /\ Call("prompt", "read")
    /\ UNCHANGED <<echo, queue, value, original, result>>

(* The first line that can be read ends with the n-th key. *)
LineEndsAt(n) ==
    queue[n].kind # "char" /\ \A i \in 1..(n - 1) : queue[i].kind = "char"

(* _read_terminal_line: an end of input that follows some keys only hands them over. *)
ReadLine ==
    /\ tpc = "read"
    /\ \E n \in DOMAIN queue :
          /\ LineEndsAt(n)
          /\ value' = value \o SubSeq(queue, 1, n - 1)
          /\ queue' = SubSeq(queue, n + 1, Len(queue))
          /\ IF queue[n].kind = "newline"
             THEN tpc' = "restore" /\ UNCHANGED result
             ELSE IF n = 1 THEN tpc' = "restore" /\ result' = "5"
             ELSE UNCHANGED <<tpc, result>>
    /\ UNCHANGED <<echo, original, keys, lapse>>

Restore ==
    /\ Call("restore", "newline")
    /\ echo' = original /\ queue' = <<>>
    /\ UNCHANGED <<value, original, result>>

WriteNewline ==
    /\ Call("newline", "close")
    /\ UNCHANGED <<echo, queue, value, original, result>>

CloseTerminal ==
    /\ Call("close", IF result = "none" THEN "decode" ELSE "done")
    /\ UNCHANGED <<echo, queue, value, original, result>>

Decode ==
    /\ Call("decode", "done")
    /\ result' \in IF value = <<>> THEN {"2"} ELSE {"secret", "7"}
    /\ UNCHANGED <<echo, queue, value, original>>

(* Wrong on purpose: echo is restored behind the read, not in a `finally`. *)
UnwoundWithoutFinally(at) ==
    IF at \in {"open", "close", "decode"} THEN "done" ELSE "close"

(* Where an exception raised at a call goes: the `finally` blocks, from the inside. *)
Unwound(at) ==
    CASE at \in {"open", "close", "decode"} -> "done"
      [] at \in {"prompt", "read"} -> "restore"
      [] OTHER -> "close"

CallFails ==
    /\ tpc \in {"open", "getattr", "hide", "prompt", "read", "restore", "newline"}
    /\ tpc' = Unwound(tpc)
    /\ result' = "5"
    /\ lapse' = lapse \cup (IF tpc = "restore" THEN {"restore failed"} ELSE {})
    /\ UNCHANGED <<echo, queue, value, original, keys>>

-----------------------------------------------------------------------------
(* Ctrl-C: the terminal drops its input, and KeyboardInterrupt is raised wherever the  *)
(* program is, also between tcsetattr and `try`, and inside `finally`.                *)
Interrupt ==
    /\ tpc \notin {"idle", "done"}
    /\ tpc' = Unwound(tpc)
    /\ result' = "interrupted"
    /\ queue' = <<>>
    /\ lapse' = lapse \cup
                  (IF tpc \in {"hidden", "restore"} THEN {"interrupted between"} ELSE {})
    /\ UNCHANGED <<echo, value, original, keys>>

KillPrompt ==
    /\ tpc \notin {"idle", "done"}
    /\ tpc' = "done" /\ result' = "killed"
    /\ UNCHANGED <<echo, queue, value, original, keys, lapse>>

Type ==
    /\ tpc \notin {"idle", "done"} /\ keys < MaxKeys
    /\ keys' = keys + 1
    /\ \E kind \in {"char", "newline", "eof"} :
         queue' = Append(queue, [kind |-> kind, hidden |-> ~echo])
    /\ UNCHANGED <<tpc, echo, value, original, result, lapse>>

(* Ctrl-Z, and a shell that sets the terminal up for itself before the job goes on. *)
StopAndContinue ==
    /\ tpc \notin {"idle", "done"}
    /\ echo' = TRUE /\ queue' = <<>>
    /\ lapse' = lapse \cup {"stopped"}
    /\ UNCHANGED <<tpc, value, original, result, keys>>

PromptDone == tpc = "done" /\ UNCHANGED promptVars

PromptNext ==
    \/ PromptStart \/ OpenTerminal \/ GetAttributes \/ Hide \/ EnterTry \/ WritePrompt
    \/ ReadLine \/ Restore \/ WriteNewline \/ CloseTerminal \/ Decode \/ CallFails
    \/ Interrupt \/ KillPrompt \/ Type \/ StopAndContinue \/ PromptDone

PromptSpec == PromptInit /\ [][PromptNext]_promptVars

-----------------------------------------------------------------------------
(* However the prompt ends, the terminal does not stay mute, unless the process was   *)
(* killed, the restoring call itself failed, or an interrupt hit one of the two       *)
(* places no `finally` covers (_read_hidden_input).                                   *)
EchoComesBack ==
    tpc = "done" /\ result # "killed" /\ original /\ ~echo =>
        lapse \cap {"restore failed", "interrupted between"} # {}

(* A secret that was read is made of keys the terminal did not show, unless the job   *)
(* was stopped meanwhile: nothing typed before the prompt is part of it.  And no key  *)
(* typed unseen, such as the rest of a paste, is left to the shell ("discarding any   *)
(* input already read after it"), unless the process was killed, the terminal was     *)
(* mute to begin with, the job was stopped, the restoring call failed, or an          *)
(* interrupt hit one of the two places no `finally` covers.                           *)
SecretStaysHidden ==
    /\ result = "secret" /\ "stopped" \notin lapse =>
         \A i \in DOMAIN value : value[i].kind = "char" /\ value[i].hidden
    /\ tpc = "done" /\ result # "killed" /\ original /\ lapse = {} =>
         \A i \in DOMAIN queue : ~queue[i].hidden

=============================================================================
