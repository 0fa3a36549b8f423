--------------------------- MODULE DeliveryProofs ---------------------------
(***************************************************************************)
(* Theorems about Delivery: what holds of every request, whatever its      *)
(* names, whatever the directories and documents, and however often the    *)
(* environment changes under it.                                           *)
(***************************************************************************)
EXTENDS Delivery, TLAPS

(* The places where credentials are read or delivered. *)
Delivering == {"resolve", "recheck", "mutate", "report", "exec"}

(* The outcome allows delivery. *)
Consented ==
    /\ loaded \in Configs
    /\ \/ decision = "not_requested" /\ loaded.approval = "off"
       \/ /\ decision = "allowed" /\ loaded.approval = "always"
          /\ shown = IF job.action = "set" THEN canonical ELSE "command"
          /\ ~job.many /\ ~job.noInput

(* The history holds the outcome once at most, and nothing when it is off. *)
Recorded ==
    /\ log \in {<<>>, <<Entry>>}
    /\ loaded # None /\ loaded.history = "off" => log = <<>> /\ ~warned

Unrecorded == log = <<>> /\ ~warned

(* What the request has established when it makes its next call. *)
Stage ==
    /\ pc \in {"validate", "git", "canonical", "config"} =>
         loaded = None /\ decision = None /\ shown = None /\ Unrecorded
    /\ pc \in {"validate", "git", "canonical"} => job.action = "set"
    /\ pc = "authorize" =>
         loaded \in Configs /\ decision = None /\ shown = None /\ Unrecorded
    /\ pc = "dialog" =>
         /\ loaded \in Configs /\ loaded.approval = "always" /\ Unrecorded
         /\ shown = IF job.action = "set" THEN canonical ELSE "command"
         /\ ~job.many /\ ~job.noInput
    /\ pc = "record" =>
         /\ loaded \in Configs /\ Unrecorded /\ decision \in Decisions
         /\ decision \in {"allowed", "not_requested"} => Consented
    /\ pc \in {"recheck", "mutate", "report"} => job.action = "set" /\ DOMAIN got = job.names
    /\ pc = "exec" => job.action = "run" /\ DOMAIN got = job.names
    /\ pc \notin Delivering \cup {"done"} => got = <<>>
    /\ pc # "done" => exit = None
    /\ pc \notin {"report", "done"} => written = None
    /\ pc = "report" => written # None

(* The inductive invariant: Stage, what holds from the first credential on, and what  *)
(* an exit status says.                                                               *)
DeliveryInv ==
    /\ link \in Dirs /\ config \in Configs \cup {Broken}
    /\ pc \in Places /\ job \in JobType
    /\ late \in BOOLEAN /\ warned \in BOOLEAN
    /\ Stage /\ Recorded
    /\ pc \in Delivering \/ DOMAIN got # {} \/ Delivered =>
         Consented /\ (loaded.history = "on" => log # <<>> \/ warned)
    /\ ExitTellsTheTruth
    /\ OnlyLateGitChangesAreMissed
    /\ EveryOutcomeRecorded

(* The initial states. *)
LEMMA DeliveryInvInit == Init => DeliveryInv
<1> SUFFICES ASSUME Init PROVE DeliveryInv
  OBVIOUS
<1>1. job \in JobType /\ None \notin Outcomes
  BY DeliveryAssumption DEF Init
<1>2. pc \in {"validate", "config"} /\ (pc = "validate" => job.action = "set")
  BY DEF Init
<1>3. ~Delivered /\ DOMAIN got = {}
  BY <1>1 DEF Init, Delivered, Outcomes
<1>4. Stage /\ Recorded
  BY <1>2, <1>3 DEF Init, Stage, Recorded, Unrecorded, Delivering
<1>5. ExitTellsTheTruth /\ OnlyLateGitChangesAreMissed
  BY <1>1, <1>2, <1>3 DEF Init, ExitTellsTheTruth, OnlyLateGitChangesAreMissed, Outcomes
<1>6. EveryOutcomeRecorded
  BY DEF Init, EveryOutcomeRecorded
<1> QED
  BY <1>1, <1>2, <1>3, <1>4, <1>5, <1>6 DEF Init, DeliveryInv, Places, Delivering

(* No step of the request, of a kill or of the environment leaves the invariant.      *)
LEMMA DeliveryInvStep == DeliveryInv /\ [Next]_vars => DeliveryInv'
<1> SUFFICES ASSUME DeliveryInv, [Next]_vars PROVE DeliveryInv'
  OBVIOUS
<1> USE DEF DeliveryInv, Stage, Recorded, Unrecorded, Consented, Delivered, Delivering,
            ExitTellsTheTruth, OnlyLateGitChangesAreMissed, EveryOutcomeRecorded, Places, Outcomes, Decisions,
            Traced, Entry, world, auth, Exit, Fail, Continue
<1>0. None \notin Dirs \cup Configs \cup Decisions \cup Outcomes
  BY DeliveryAssumption
<1>a. pc \in Delivering \/ DOMAIN got # {} => log # <<>> \/ warned \/ loaded.history = "off"
  BY DEF Configs
<1>1. ASSUME ValidateDestination PROVE DeliveryInv'
  BY <1>0, <1>1 DEF ValidateDestination
<1>2. ASSUME CheckGit PROVE DeliveryInv'
  BY <1>0, <1>2 DEF CheckGit
<1>3. ASSUME Canonicalize PROVE DeliveryInv'
  BY <1>0, <1>3 DEF Canonicalize
<1>4. ASSUME LoadConfig PROVE DeliveryInv'
  BY <1>0, <1>4 DEF LoadConfig, Configs
<1>5. ASSUME Authorize PROVE DeliveryInv'
  BY <1>0, <1>5 DEF Authorize, Configs
<1>6. ASSUME Answer PROVE DeliveryInv'
  BY <1>0, <1>6 DEF Answer
<1>7. ASSUME Record PROVE DeliveryInv'
  <2>1. /\ pc = "record" /\ loaded \in Configs /\ decision \in Decisions /\ got = <<>>
        /\ UNCHANGED <<world, job, canonical, loaded, decision, shown, got, late, written>>
    BY <1>7 DEF Record
  <2>2. log' = log \/ (loaded.history = "on" /\ log' = <<Entry>>)
    BY <1>7 DEF Record
  <2>a. log = <<>> /\ ~warned /\ UNCHANGED Entry
    BY <2>1
  <2>b. warned' = warned \/ (warned' = TRUE /\ loaded.history = "on")
    BY <1>7 DEF Record
  <2>3. Recorded' /\ warned' \in BOOLEAN
    <3>1. warned' \in BOOLEAN
      BY <2>a, <2>b
    <3>2. decision' = decision /\ canonical' = canonical /\ loaded' = loaded
      BY <2>1
    <3>3. log' \in {<<>>, <<Entry'>>}
      BY <2>2, <2>a, <3>2
    <3>4. loaded.history = "off" => log' = <<>> /\ ~warned'
      BY <2>2, <2>a, <2>b
    <3> QED BY <3>1, <3>2, <3>3, <3>4
  <2>4. loaded.history = "on" /\ exit' # "1" => log' # <<>> \/ warned'
    BY <1>7, <2>1 DEF Record
  <2>5. \/ /\ pc' = "resolve" /\ decision \in {"allowed", "not_requested"} /\ UNCHANGED exit
           /\ loaded.history = "on" => log' # <<>> \/ warned'
        \/ pc' = "done" /\ exit' \in {"1", "5"}
    BY <1>7, <2>1 DEF Record, Obey
  <2>6. loaded.history \in {"on", "off"}
    BY <2>1 DEF Configs
  <2> QED BY <1>0, <2>1, <2>3, <2>4, <2>5, <2>6
<1>8. ASSUME Resolve PROVE DeliveryInv'
  <2>1. CASE UNCHANGED <<pc, exit>>
    <3>1. pc = "resolve" /\ written = None /\ exit = None
            /\ UNCHANGED <<world, job, auth, late, written>>
      BY <1>8 DEF Resolve
    <3>2. Consented' /\ Recorded' /\ (loaded'.history = "on" => log' # <<>> \/ warned')
      BY <2>1, <3>1
    <3>3. Stage'
      BY <2>1, <3>1
    <3> QED BY <1>0, <2>1, <3>1, <3>2, <3>3
  <2>2. CASE ~UNCHANGED <<pc, exit>>
    <3>1. /\ pc = "resolve" /\ UNCHANGED <<world, job, auth, got, late, written>>
          /\ \/ pc' = "done" /\ exit' \in {"1", "2", "3", "4", "5", "7"}
             \/ /\ DOMAIN got = job.names /\ UNCHANGED exit
                /\ pc' = IF job.action = "set" THEN "recheck" ELSE "exec"
      BY <1>8, <2>2 DEF Resolve
    <3>2. job.action \in {"set", "run"}
      BY DEF JobType
    <3> QED BY <1>0, <1>a, <3>1, <3>2
  <2> QED BY <2>1, <2>2
<1>9. ASSUME RecheckGit PROVE DeliveryInv'
  BY <1>0, <1>a, <1>9 DEF RecheckGit, PolicyAllows
<1>10. ASSUME Mutate PROVE DeliveryInv'
  BY <1>0, <1>a, <1>10 DEF Mutate
<1>11. ASSUME Exec PROVE DeliveryInv'
  BY <1>0, <1>a, <1>11 DEF Exec
<1>12. ASSUME Kill PROVE DeliveryInv'
  BY <1>0, <1>a, <1>12 DEF Kill
<1>13. ASSUME Change PROVE DeliveryInv'
  <2>1. UNCHANGED <<job, pc, auth, got, written, exit>> /\ pc # "done"
    BY <1>13 DEF Change
  <2>2. link' \in Dirs /\ config' \in Configs \cup {Broken} /\ late' \in BOOLEAN
    BY <1>13 DEF Change
  <2>3. OnlyLateGitChangesAreMissed'
    <3>1. CASE pc = "mutate" /\ link' = link /\ git' = git /\ ~late
      BY <2>1, <3>1 DEF PolicyAllows
    <3>2. CASE pc = "mutate" /\ ~(link' = link /\ git' = git /\ ~late)
      BY <1>13, <3>2 DEF Change
    <3> QED BY <2>1, <3>1, <3>2
  <2> QED BY <1>0, <2>1, <2>2, <2>3
<1>14. CASE UNCHANGED vars
  BY <1>0, <1>14 DEF vars, PolicyAllows
<1>15. ASSUME Report PROVE DeliveryInv'
  BY <1>0, <1>a, <1>15 DEF Report
<1>16. ASSUME Interrupt PROVE DeliveryInv'
  <2>1. /\ pc # "done" /\ pc' = "done" /\ exit' = "interrupted"
        /\ UNCHANGED <<world, job, canonical, loaded, decision, shown, warned, got, late, written>>
    BY <1>16 DEF Interrupt
  <2>2. log' = log \/ (pc = "record" /\ loaded.history = "on" /\ log' = <<Entry>>)
    <3>1. CASE UNCHANGED log
      BY <3>1
    <3>2. CASE pc = "record" /\ loaded.history = "on" /\ log' = Append(log, Entry)
      BY <3>2
    <3> QED BY <1>16, <3>1, <3>2 DEF Interrupt
  <2>3. Recorded'
    BY <2>1, <2>2, <1>0
  <2> QED BY <1>0, <1>a, <2>1, <2>2, <2>3
<1> QED
  BY <1>1, <1>2, <1>3, <1>4, <1>5, <1>6, <1>7, <1>8, <1>9, <1>10, <1>11, <1>12, <1>13,
     <1>14, <1>15, <1>16 DEF Next, Step, Done

(* Every state satisfies the invariant.                                               *)
THEOREM DeliveryInvHolds == Spec => []DeliveryInv
  BY DeliveryInvInit, DeliveryInvStep, PTL DEF Spec

(* What was resolved is a function of some of the names that were asked, and every    *)
(* document a document, whoever wrote it.                                             *)
DataTypes ==
    /\ \E S \in SUBSET job.names : got \in [S -> Secrets]
    /\ file \in [Dirs -> Docs]

LEMMA DataTypesStep == DeliveryInv /\ DataTypes /\ [Next]_vars => DataTypes'
<1> SUFFICES ASSUME DeliveryInv, DataTypes, [Next]_vars PROVE DataTypes'
  OBVIOUS
<1>1. PICK S \in SUBSET job.names : got \in [S -> Secrets]
  BY DEF DataTypes
<1>2. file \in [Dirs -> Docs] /\ Others \subseteq Docs
  BY DeliveryAssumption DEF DataTypes
<1>3. CASE Resolve
  <2>1. job' = job /\ file' = file
    BY <1>3 DEF Resolve, world
  <2>2. CASE got' = got
    BY <1>1, <1>2, <2>1, <2>2 DEF DataTypes
  <2>3. ASSUME NEW n \in job.names \ DOMAIN got, NEW s \in Secrets,
               got' = [m \in DOMAIN got \cup {n} |-> IF m = n THEN s ELSE got[m]]
        PROVE  DataTypes'
    <3>1. S \cup {n} \in SUBSET job.names /\ got' \in [S \cup {n} -> Secrets]
      BY <1>1, <2>3
    <3> HIDE DEF Secrets
    <3> QED BY <1>2, <2>1, <3>1 DEF DataTypes
  <2> QED BY <1>3, <2>2, <2>3 DEF Resolve
<1>4. CASE Mutate
  <2>1. job' = job /\ got' = got /\ pc = "mutate" /\ link \in Dirs
    BY <1>4 DEF Mutate, DeliveryInv
  <2>2. CASE file' = file
    BY <1>1, <1>2, <2>1, <2>2 DEF DataTypes
  <2>3. CASE /\ \A n \in job.names : got[n] # Unquotable
             /\ file' = [file EXCEPT ![link] = Updated(file[link], Wanted(got))]
    <3>1. DOMAIN got = job.names /\ S = job.names
      BY <1>1, <2>1 DEF DeliveryInv, Stage
    <3>2. \A n \in job.names : got[n] \in Values \cup {Empty}
      BY <1>1, <2>3, <3>1 DEF Secrets
    <3>3. \A n \in Names : (IF n \in DOMAIN got THEN got[n] ELSE file[link][n]) \in Marks
      BY <1>2, <2>1, <3>1, <3>2 DEF Docs, Marks
    <3>4. Updated(file[link], Wanted(got)) \in Docs
      BY <3>3 DEF Updated, Wanted, Targets, Docs
    <3> QED BY <1>1, <1>2, <2>1, <2>3, <3>4 DEF DataTypes
  <2> QED BY <1>4, <2>2, <2>3 DEF Mutate
<1>5. CASE Change
  <2>1. job' = job /\ got' = got
    BY <1>5 DEF Change
  <2>2. file' \in [Dirs -> Docs]
    BY <1>2, <1>5 DEF Change
  <2> QED BY <1>1, <2>1, <2>2 DEF DataTypes
<1>6. CASE UNCHANGED <<job, got, file>>
  BY <1>1, <1>2, <1>6 DEF DataTypes
<1> QED
  BY <1>3, <1>4, <1>5, <1>6
  DEF Next, Step, Kill, Done, vars, ValidateDestination, CheckGit, Canonicalize,
      LoadConfig, Authorize, Answer, Record, RecheckGit, Report, Exec, Interrupt, world

(* What is left of the type invariant. *)
LabelTypes ==
    /\ git \in [Dirs -> GitStatuses] /\ changes \in 0..MaxChanges /\ job \in Jobs
    /\ canonical \in Dirs \cup {None} /\ shown \in Dirs \cup {None, "command"}
    /\ loaded \in Configs \cup {None} /\ decision \in Decisions \cup {None}
    /\ log \in Seq(Records)
    /\ written \in Dirs \cup {None} /\ exit \in Outcomes \cup {None}

LEMMA LabelTypesStep == DeliveryInv /\ LabelTypes /\ [Next]_vars => LabelTypes'
<1> SUFFICES ASSUME DeliveryInv, LabelTypes, [Next]_vars PROVE LabelTypes'
  OBVIOUS
<1> USE DeliveryAssumption DEF LabelTypes, Exit, Fail, Continue, world, auth
<1>1. CASE ValidateDestination \/ CheckGit \/ RecheckGit \/ Report \/ Exec \/ Kill
  BY <1>1 DEF ValidateDestination, CheckGit, RecheckGit, Report, Exec, Kill, Outcomes
<1>2. CASE Canonicalize \/ LoadConfig
  BY <1>2 DEF Canonicalize, LoadConfig, DeliveryInv, Outcomes
<1>3. CASE Authorize \/ Answer
  BY <1>3 DEF Authorize, Answer, Decisions
<1>4. CASE Record
  <2>1. decision \in Decisions
    BY <1>4 DEF Record, DeliveryInv, Stage
  <2>2. Entry \in Records
    BY <2>1 DEF Entry, Records
  <2>3. log' \in Seq(Records)
    BY <1>4, <2>2 DEF Record
  <2> QED BY <1>4, <2>3 DEF Record, Obey, Outcomes
<1>5. CASE Resolve
  <2>1. UNCHANGED <<world, job, auth, written>> /\ exit' \in Outcomes \cup {None}
    BY <1>5 DEF Resolve, Outcomes
  <2> QED BY <2>1
<1>6. CASE Mutate
  <2>1. /\ UNCHANGED <<git, changes, job, auth>>
        /\ written' \in {written, link} /\ exit' \in {exit, "1", "6", "7"} /\ link \in Dirs
    BY <1>6 DEF Mutate, DeliveryInv
  <2> QED BY <2>1 DEF Outcomes
<1>7. CASE Change
  <2>1. UNCHANGED <<job, auth, written, exit>> /\ changes' \in 0..MaxChanges
    BY <1>7 DEF Change
  <2>2. git' \in [Dirs -> GitStatuses]
    BY <1>7 DEF Change
  <2> QED BY <2>1, <2>2
<1>8. CASE UNCHANGED vars
  BY <1>8 DEF vars
<1>9. CASE Interrupt
  <2>1. pc = "record" => Entry \in Records
    BY DEF DeliveryInv, Stage, Entry, Records
  <2>2. log' \in Seq(Records)
    BY <1>9, <2>1 DEF Interrupt
  <2> QED BY <1>9, <2>2 DEF Interrupt, Outcomes
<1> QED
  BY <1>1, <1>2, <1>3, <1>4, <1>5, <1>6, <1>7, <1>8, <1>9 DEF Next, Step, Done

(* Every variable keeps its type (the state of set_command and run_command).          *)
THEOREM DeliveryTypeCorrect == Spec => []DeliveryTypeOK
<1>1. Init => LabelTypes /\ DataTypes
  <2> SUFFICES ASSUME Init PROVE LabelTypes /\ DataTypes
    OBVIOUS
  <2>1. got \in [{} -> Secrets] /\ {} \in SUBSET job.names
    BY DEF Init
  <2>2. git \in [Dirs -> GitStatuses] /\ file \in [Dirs -> Docs] /\ changes \in 0..MaxChanges
    BY DeliveryAssumption DEF Init
  <2> HIDE DEF Secrets
  <2>3. log \in Seq(Records)
    BY DEF Init
  <2> QED BY <2>1, <2>2, <2>3 DEF Init, LabelTypes, DataTypes
<1>2. DeliveryInv /\ LabelTypes /\ DataTypes => DeliveryTypeOK
  BY DEF DeliveryInv, LabelTypes, DataTypes, DeliveryTypeOK
<1> QED
  BY <1>1, <1>2, DeliveryInvHolds, LabelTypesStep, DataTypesStep, PTL DEF Spec

(* No credential is read and nothing delivered without an outcome that allows it      *)
(* (_authorize_delivery before provider.resolve).                                     *)
THEOREM NothingWithoutApprovalHolds == Spec => []NothingWithoutApproval
<1>1. DeliveryInv => NothingWithoutApproval
  BY DEF DeliveryInv, Consented, NothingWithoutApproval
<1> QED BY <1>1, DeliveryInvHolds, PTL

(* One record at most however an append fails, true to the outcome, and there before  *)
(* the first credential is read unless history is off or the person was warned        *)
(* (record).                                                                          *)
THEOREM OneTrueRecordHolds == Spec => []OneTrueRecord
<1>1. DeliveryInv => OneTrueRecord
  BY DEF DeliveryInv, Recorded, OneTrueRecord, Delivered
<1> QED BY <1>1, DeliveryInvHolds, PTL

(* Success means that the whole request was delivered and 2, 3, 4, 5 and 7 that       *)
(* nothing was; what 1, 6 or an interrupt hides had resolved every binding            *)
(* (set_command, run_command, _fail_provider).                                        *)
THEOREM ExitTellsTheTruthHolds == Spec => []ExitTellsTheTruth
<1>1. DeliveryInv => ExitTellsTheTruth
  BY DEF DeliveryInv
<1> QED BY <1>1, DeliveryInvHolds, PTL

(* Git's policy allows the destination when the mutation starts, but for a change in  *)
(* the last instant (the second enforce_destination_policy).                          *)
THEOREM OnlyLateGitChangesAreMissedHolds == Spec => []OnlyLateGitChangesAreMissed
<1>1. DeliveryInv => OnlyLateGitChangesAreMissed
  BY DEF DeliveryInv
<1> QED BY <1>1, DeliveryInvHolds, PTL

(* No request ends without a trace once the configuration is known, but a kill, a     *)
(* Ctrl-C or a status 1 before any credential was read: a record, a warning, or a     *)
(* history that is off (record in _authorize_delivery).                               *)
THEOREM EveryOutcomeRecordedHolds == Spec => []EveryOutcomeRecorded
<1>1. DeliveryInv => EveryOutcomeRecorded
  BY DEF DeliveryInv
<1> QED BY <1>1, DeliveryInvHolds, PTL

(* A request changes its destination once, as a whole, validated against what is      *)
(* there then (mutate_dotenv_many after every binding was resolved).                  *)
THEOREM WholeRequestOrNothingHolds == Spec => WholeRequestOrNothing
<1> DEFINE Whole ==
      pc' # pc /\ file' # file =>
         /\ written = None /\ DOMAIN got = job.names
         /\ \E d \in Dirs :
              /\ Acceptable(file[d], Wanted(got))
              /\ file' = [file EXCEPT ![d] = Updated(@, Wanted(got))]
<1>1. DeliveryInv /\ [Next]_vars => [Whole]_vars
  <2> SUFFICES ASSUME DeliveryInv, Next, pc' # pc, file' # file PROVE Whole
    BY DEF vars
  <2>1. Mutate
    BY DEF Next, Step, Kill, Change, Done, vars, ValidateDestination, CheckGit,
           Canonicalize, LoadConfig, Authorize, Answer, Record, Resolve, RecheckGit,
           Report, Exec, Interrupt, world
  <2>2. pc = "mutate" /\ link \in Dirs /\ written = None /\ DOMAIN got = job.names
    BY <2>1 DEF Mutate, DeliveryInv, Stage
  <2>3. Acceptable(file[link], Wanted(got))
          /\ file' = [file EXCEPT ![link] = Updated(file[link], Wanted(got))]
    BY <2>1 DEF Mutate
  <2> QED BY <2>2, <2>3
<1> QED BY <1>1, DeliveryInvHolds, PTL DEF Spec, WholeRequestOrNothing

=============================================================================
