------------------------------ MODULE Delivery ------------------------------
(***************************************************************************)
(* One `ainv set` or `ainv run` request from its parsed bindings to its    *)
(* exit, while everything it consults may change under it: the directory   *)
(* --file goes through, Git's view of the destination, the documents other *)
(* programs write, the configuration.  The steps are the calls of          *)
(* set_command, run_command and _authorize_delivery, in their order; the   *)
(* mutation is one step, as DotenvStore promises and DotenvFile implements *)
(* (it takes effect as a whole, and may fail before or after it did).  A   *)
(* Ctrl-C, a kill or an output nobody reads any more may end it anywhere.  *)
(***************************************************************************)
EXTENDS DotenvView, Naturals, Sequences

CONSTANTS
    Unquotable,     \* a secret a child can be given and dotenv cannot hold
    Dirs,           \* directories --file may go through
    None,           \* nothing yet
    Broken,         \* a configuration file that load_config refuses
    Jobs,           \* the requests of this instance
    Statuses,       \* what Git may say in this instance
    Others,         \* the documents other programs leave
    MaxChanges      \* bound of the model: how often the environment changes

GitStatuses == {"outside", "ignored", "tracked", "untracked", "error"}

JobType ==
    [action : {"set", "run"}, names : SUBSET Names \ {{}}, force : BOOLEAN,
     noInput : BOOLEAN, many : BOOLEAN, allow : SUBSET {"tracked", "untracked"}]

Configs == [approval : {"always", "off"}, history : {"on", "off"}]

Decisions == {"allowed", "denied", "not_requested", "error"}

Outcomes == {"0", "1", "2", "3", "4", "5", "6", "7", "child", "interrupted", "killed"}

ASSUME DeliveryAssumption ==
    /\ Jobs \subseteq JobType /\ Statuses \subseteq GitStatuses
    /\ Others \subseteq Docs /\ MaxChanges \in Nat
    /\ None \notin Dirs \cup Configs \cup Decisions \cup Outcomes /\ Broken \notin Configs
    /\ Unquotable \notin Marks

VARIABLES
    link,       \* the directory --file denotes now
    git,        \* git[d]: destination_status in directory d
    file,       \* file[d]: the document of the destination in d
    config,     \* the configuration file: a setting, or Broken
    changes,    \* changes of the environment so far
    job,        \* what was asked
    pc,         \* the next call of the request
    canonical,  \* the destination that was resolved for the dialog and the record
    loaded,     \* the configuration the request works with
    decision,   \* the authorization outcome
    shown,      \* the destination the dialog showed
    log,        \* the records of this request in the activity history, oldest first
    warned,     \* whether the history warning was printed
    got,        \* the values resolved so far
    late,       \* Git or the directory changed after the second policy check
    written,    \* the directory whose destination was replaced
    exit        \* the exit status, or "child" once the process is the command

world == <<link, git, file, config, changes>>
auth == <<canonical, loaded, decision, shown, log, warned>>
vars == <<link, git, file, config, changes, job, pc, canonical, loaded, decision, shown,
          log, warned, got, late, written, exit>>

Places == {"validate", "git", "canonical", "config", "authorize", "dialog", "record",
           "resolve", "recheck", "mutate", "report", "exec", "done"}

Records == [decision : Decisions, destination : Dirs \cup {None}]

Secrets == Values \cup {Empty, Unquotable}

DeliveryTypeOK ==
    /\ link \in Dirs /\ git \in [Dirs -> GitStatuses] /\ file \in [Dirs -> Docs]
    /\ config \in Configs \cup {Broken} /\ changes \in 0..MaxChanges
    /\ job \in Jobs /\ pc \in Places
    /\ canonical \in Dirs \cup {None} /\ shown \in Dirs \cup {None, "command"}
    /\ loaded \in Configs \cup {None} /\ decision \in Decisions \cup {None}
    /\ log \in Seq(Records)
    /\ warned \in BOOLEAN /\ late \in BOOLEAN
    /\ \E S \in SUBSET job.names : got \in [S -> Secrets]
    /\ written \in Dirs \cup {None} /\ exit \in Outcomes \cup {None}

Init ==
    /\ link \in Dirs /\ git \in [Dirs -> Statuses] /\ file \in [Dirs -> Others]
    /\ config \in Configs \cup {Broken} /\ changes = 0
    /\ job \in Jobs
    /\ pc = IF job.action = "set" THEN "validate" ELSE "config"
    /\ canonical = None /\ shown = None /\ loaded = None /\ decision = None
    /\ log = <<>> /\ warned = FALSE /\ late = FALSE
    /\ got = <<>> /\ written = None /\ exit = None

-----------------------------------------------------------------------------
(* What set_command asks of the destination: before the values are known, and after. *)
Wanted(values) == [force |-> job.force, values |-> values]

Placeholders == [n \in job.names |-> Empty]

(* enforce_destination_policy *)
PolicyAllows(status) ==
    /\ status # "error"
    /\ status \in {"tracked", "untracked"} => status \in job.allow

Exit(code) == pc' = "done" /\ exit' = code

(* _fail prints the error first, and where nobody reads it (EPIPE) the status is 1.   *)
Fail(code) == \E status \in {code, "1"} : Exit(status)

Continue(to) == pc' = to /\ UNCHANGED exit

(* validate_dotenv_destinations; it also fails on an unsafe or unreadable file, and   *)
(* with status 1 when its lock cannot be released.                                    *)
ValidateDestination ==
    /\ pc = "validate"
    /\ \/ Acceptable(file[link], Wanted(Placeholders)) /\ Continue("git")
       \/ Fail("6")
    /\ UNCHANGED <<world, job, auth, got, late, written>>

CheckGit ==
    /\ pc = "git"
    /\ IF PolicyAllows(git[link]) THEN Continue("canonical") ELSE Fail("6")
    /\ UNCHANGED <<world, job, auth, got, late, written>>

(* _approval_file_destination *)
Canonicalize ==
    /\ pc = "canonical"
    /\ \/ canonical' = link /\ Continue("config")
       \/ Fail("6") /\ UNCHANGED canonical
    /\ UNCHANGED <<world, job, loaded, decision, shown, log, warned, got, late, written>>

(* load_config, at the top of _authorize_delivery. *)
LoadConfig ==
    /\ pc = "config"
    /\ IF config = Broken
       THEN Fail("5") /\ UNCHANGED loaded
       ELSE loaded' = config /\ Continue("authorize")
    /\ UNCHANGED <<world, job, canonical, decision, shown, log, warned, got, late, written>>

(* Wrong on purpose: with approval off the request goes on without a record. *)
AuthorizeUnrecorded ==
    /\ pc = "authorize"
    /\ loaded.approval = "off"
    /\ decision' = "not_requested" /\ Continue("resolve")
    /\ UNCHANGED <<world, job, canonical, loaded, shown, log, warned, got, late, written>>

(* The early returns of _authorize_delivery; the working directory may be gone. *)
Authorize ==
    /\ pc = "authorize"
    /\ IF loaded.approval = "off"
       THEN decision' = "not_requested" /\ Continue("record") /\ UNCHANGED shown
       ELSE \/ decision' = "error" /\ Continue("record") /\ UNCHANGED shown
            \/ /\ ~job.many /\ ~job.noInput
               /\ shown' = IF job.action = "set" THEN canonical ELSE "command"
               /\ Continue("dialog")
               /\ UNCHANGED decision
    /\ UNCHANGED <<world, job, canonical, loaded, log, warned, got, late, written>>

(* MacOSApprover.approve: Allow Once, anything else, or no dialog at all. *)
Answer ==
    /\ pc = "dialog"
    /\ decision' \in {"allowed", "denied", "error"}
    /\ Continue("record")
    /\ UNCHANGED <<world, job, canonical, loaded, shown, log, warned, got, late, written>>

(* Wrong on purpose: only an explicit denial stops the request. *)
RecordFailsOpen ==
    /\ pc = "record"
    /\ IF decision # "denied" THEN Continue("resolve") ELSE Fail("5")
    /\ warned' = TRUE
    /\ UNCHANGED <<world, job, canonical, loaded, decision, shown, log, got, late, written>>

(* The record of this request, as bounded_history_record makes it. *)
Entry == [decision |-> decision, destination |-> canonical]

(* Then the outcome is acted on. *)
Obey == IF decision \in {"allowed", "not_requested"} THEN Continue("resolve") ELSE Fail("5")

(* Wrong on purpose: an append that failed, its record written or not, is tried again. *)
RecordRetried ==
    /\ pc = "record"
    /\ \E n \in 0..2 : log' = [i \in 1..n |-> Entry] /\ warned' = (n = 0)
    /\ Obey
    /\ UNCHANGED <<world, job, canonical, loaded, decision, shown, got, late, written>>

(* record(): an append that fails, before or after its record was written (fsync and  *)
(* close come after the write), is only warned about; a warning nobody reads is fatal. *)
Record ==
    /\ pc = "record"
    /\ \/ loaded.history = "off" /\ Obey /\ UNCHANGED <<log, warned>>
       \/ loaded.history = "on" /\ log' = Append(log, Entry) /\ Obey /\ UNCHANGED warned
       \/ /\ loaded.history = "on" /\ log' \in {log, Append(log, Entry)}
          /\ \/ Obey /\ warned' = TRUE
             \/ Exit("1") /\ UNCHANGED warned
    /\ UNCHANGED <<world, job, canonical, loaded, decision, shown, got, late, written>>

(* Wrong on purpose: a binding that cannot be resolved is skipped. *)
ResolveSome ==
    /\ pc = "resolve"
    /\ \E S \in SUBSET job.names : got' = [n \in S |-> Empty]
    /\ Continue(IF job.action = "set" THEN "recheck" ELSE "exec")
    /\ UNCHANGED <<world, job, auth, late, written>>

(* provider.resolve and _secret_text for one binding; _fail_provider gives the code. *)
Resolve ==
    /\ pc = "resolve"
    /\ \/ \E n \in job.names \ DOMAIN got, s \in Secrets :
            /\ got' = [m \in DOMAIN got \cup {n} |-> IF m = n THEN s ELSE got[m]]
            /\ UNCHANGED <<pc, exit>>
       \/ DOMAIN got # job.names /\ (\E code \in {"1", "2", "3", "4", "5", "7"} : Fail(code)) /\ UNCHANGED got
       \/ /\ DOMAIN got = job.names
          /\ Continue(IF job.action = "set" THEN "recheck" ELSE "exec")
          /\ UNCHANGED got
    /\ UNCHANGED <<world, job, auth, late, written>>

(* Wrong on purpose: the answer of the first check is still trusted. *)
RecheckSkipped ==
    /\ pc = "recheck"
    /\ Continue("mutate")
    /\ UNCHANGED <<world, job, auth, got, late, written>>

(* The second destination_status and enforce_destination_policy. *)
RecheckGit ==
    /\ pc = "recheck"
    /\ IF PolicyAllows(git[link]) THEN Continue("mutate") ELSE Fail("6")
    /\ UNCHANGED <<world, job, auth, got, late, written>>

(* Wrong on purpose: the mutation relies on the preflight's validation. *)
MutateUnvalidated ==
    /\ pc = "mutate"
    /\ \A n \in job.names : got[n] # Unquotable
    /\ file' = [file EXCEPT ![link] = Updated(@, Wanted(got))]
    /\ written' = link
    /\ Continue("report")
    /\ UNCHANGED <<link, git, config, changes, job, auth, got, late>>

(* mutate_dotenv_many resolves --file again, and encodes before it takes the lock.    *)
(* It fails with status 6, or 1 when the lock cannot be released, and either may come *)
(* after the rename: the last fsync and the release follow it.                        *)
Mutate ==
    /\ pc = "mutate"
    /\ \/ /\ \E n \in job.names : got[n] = Unquotable
          /\ Fail("7")
          /\ UNCHANGED <<file, written>>
       \/ /\ \A n \in job.names : got[n] # Unquotable
          /\ Fail("6")
          /\ UNCHANGED <<file, written>>
       \/ /\ \A n \in job.names : got[n] # Unquotable
          /\ Acceptable(file[link], Wanted(got))
          /\ file' = [file EXCEPT ![link] = Updated(@, Wanted(got))]
          /\ written' = link
          /\ Continue("report") \/ Fail("6")
    /\ UNCHANGED <<link, git, config, changes, job, auth, got, late>>

(* set_command tells what it did, if somebody still reads it. *)
Report ==
    /\ pc = "report"
    /\ Fail("0")
    /\ UNCHANGED <<world, job, auth, got, late, written>>

(* os.execvpe replaces the process, or fails. *)
Exec ==
    /\ pc = "exec"
    /\ Exit("child") \/ Fail("1")
    /\ UNCHANGED <<world, job, auth, got, late, written>>

(* Ctrl-C, which no handler of set and run catches (the dialog catches an Exception,  *)
(* and a KeyboardInterrupt is none); it may come while the record is written.         *)
Interrupt ==
    /\ pc # "done"
    /\ \/ UNCHANGED log
       \/ pc = "record" /\ loaded.history = "on" /\ log' = Append(log, Entry)
    /\ Exit("interrupted")
    /\ UNCHANGED <<world, job, canonical, loaded, decision, shown, warned, got, late, written>>

Kill ==
    /\ pc # "done"
    /\ Exit("killed")
    /\ UNCHANGED <<world, job, auth, got, late, written>>

-----------------------------------------------------------------------------
(* The environment: a directory of the path is replaced, `git add`, another program   *)
(* writes the destination, `ainv config` or an editor changes the configuration.      *)
Change ==
    /\ changes < MaxChanges /\ pc # "done"
    /\ changes' = changes + 1
    /\ \/ link' \in Dirs /\ UNCHANGED <<git, file, config>>
       \/ (\E d \in Dirs, s \in Statuses : git' = [git EXCEPT ![d] = s])
            /\ UNCHANGED <<link, file, config>>
       \/ (\E d \in Dirs, t \in Others : file' = [file EXCEPT ![d] = t])
            /\ UNCHANGED <<link, git, config>>
       \/ config' \in Configs \cup {Broken} /\ UNCHANGED <<link, git, file>>
    /\ late' = (late \/ (pc = "mutate" /\ (link' # link \/ git' # git)))
    /\ UNCHANGED <<job, pc, auth, got, written, exit>>

Done == pc = "done" /\ UNCHANGED vars

Step ==
    \/ ValidateDestination \/ CheckGit \/ Canonicalize \/ LoadConfig \/ Authorize
    \/ Answer \/ Record \/ Resolve \/ RecheckGit \/ Mutate \/ Report \/ Exec

Next == Step \/ Interrupt \/ Kill \/ Change \/ Done

Spec == Init /\ [][Next]_vars

-----------------------------------------------------------------------------
Delivered == written # None \/ exit = "child"

(* No credential is read, no file written and no command started unless the outcome   *)
(* allows it: approval was off in the configuration that was loaded, or the person    *)
(* allowed a dialog that showed the request ("Denial starts no command, resolves no   *)
(* credential, and mutates no file").                                                 *)
NothingWithoutApproval ==
    DOMAIN got # {} \/ Delivered =>
        \/ decision = "not_requested" /\ loaded.approval = "off"
        \/ /\ decision = "allowed" /\ loaded.approval = "always"
           /\ shown = IF job.action = "set" THEN canonical ELSE "command"
           /\ ~job.many /\ ~job.noInput

(* The history holds at most one record of the request, however its append failed and *)
(* however the request ended, and it is of its real outcome; it is there before the   *)
(* first credential is read, unless history is off or the person was warned.  (A      *)
(* warning does not say that the record is missing: it may have been written.)        *)
OneTrueRecord ==
    /\ Len(log) <= 1
    /\ \A i \in DOMAIN log : log[i] = Entry
    /\ loaded # None /\ loaded.history = "off" => log = <<>> /\ ~warned
    /\ (DOMAIN got # {} \/ Delivered) /\ loaded.history = "on" => log # <<>> \/ warned

(* A destination changes at the hand of the request only once, only when every        *)
(* binding was resolved, and then by the whole request, validated against what the    *)
(* destination holds at that moment and not against the preflight ("Resolve every     *)
(* binding before mutation and replace the destination exactly once").                *)
WholeRequestOrNothing ==
    [][pc' # pc /\ file' # file =>
         /\ written = None /\ DOMAIN got = job.names
         /\ \E d \in Dirs :
              /\ Acceptable(file[d], Wanted(got))
              /\ file' = [file EXCEPT ![d] = Updated(@, Wanted(got))]]_vars

(* What an exit status tells: 0 that the whole set was written, the child's own that  *)
(* every binding was resolved, and 2, 3, 4, 5 and 7 that nothing was delivered.  Only *)
(* 1, 6 and an interrupt leave it open, and a delivery they hide is one that had      *)
(* resolved every binding and was being written or reported.                          *)
ExitTellsTheTruth ==
    /\ exit = "0" => written # None /\ job.action = "set"
    /\ exit \in {"2", "3", "4", "5", "7"} => ~Delivered
    /\ exit = "child" => job.action = "run"
    /\ Delivered => DOMAIN got = job.names

(* When the mutation starts, Git's policy allows the destination as it is after the   *)
(* credentials were resolved, unless Git or the path changed in the last instant.     *)
OnlyLateGitChangesAreMissed ==
    pc = "mutate" => late \/ PolicyAllows(git[link])

(* The destination that is written is the one the dialog showed and the history       *)
(* recorded ("Set records use the canonical destination file path", SPEC.md).         *)
WritesWhatWasShown ==
    written # None /\ (decision = "allowed" \/ log # <<>>) => written = canonical

(* The person was told, or need not be. *)
Traced == log # <<>> \/ warned \/ (loaded # None /\ loaded.history = "off")

(* Once the configuration is loaded, a request that ends by a status of its own       *)
(* choice, whatever failed on the way, left its outcome in the history or a warning,  *)
(* unless history is off ("record the authorization outcome", SPEC.md 5.7); and so    *)
(* did one that ended in any other way after it had read a credential.  Left open are *)
(* a kill, a Ctrl-C (in the dialog it leaves nothing) and the status 1 before that,   *)
(* when the warning itself found no reader.                                           *)
EveryOutcomeRecorded ==
    loaded # None /\ exit # None =>
        Traced \/ (exit \in {"killed", "interrupted", "1"} /\ DOMAIN got = {} /\ ~Delivered)

(* What SPEC.md 5.7 says of every request that passes destination validation: its     *)
(* outcome is recorded, as an error "when authorization could not be completed".      *)
AuthorizationRecorded ==
    exit \in Outcomes \ {"killed", "interrupted", "1"} =>
        Traced \/ (job.action = "set" /\ canonical = None)

=============================================================================
