----------------------------- MODULE CallsProofs -----------------------------
(***************************************************************************)
(* Theorems about the calls a request makes for itself: the look at Git,   *)
(* the hidden prompt and the walk to the requesting application, whatever  *)
(* the number of changes, of keys and of processes; and about the pure     *)
(* algorithms: how a command line is read, whatever the words, which       *)
(* record of a request is written, whatever its texts, and what a search   *)
(* returns, whatever the items.                                            *)
(***************************************************************************)
EXTENDS GitStatus, Requester, HiddenPrompt, MCValues, FiniteSetTheorems,
        SequenceTheorems, TLAPS

(* Nothing has happened that the answer of destination_status could not survive. *)
Steady == ~early /\ "tree" \notin since /\ \A x, y \in since : x = y

(* What the ignore rules alone say of the destination that was resolved. *)
ByRules == IF <<root, dest>> \in ignored THEN "ignored" ELSE "untracked"

(* What the looks for a worktree know, unless the path or a .git changed under them. *)
Searching ==
    /\ directory = through
    /\ gpc = "marker" => \A j \in 1..(step - 1) : Above[directory][j] \notin markers
    /\ gpc = "resolve" => root \in Tops(through)

(* What the later looks still know of the earlier ones. *)
Known ==
    /\ root \in markers /\ root \in Up(dest)
    /\ "path" \notin since => root \in Tops(through) /\ goal = dest
    /\ Classified(root, dest) \in truths
    /\ gpc = "checkignore" =>
         ByRules \in truths /\ ("index" \notin since => <<root, dest>> \notin tracked)

(* The inductive invariant. *)
GitInv ==
    /\ GitTypeOK
    /\ gpc # "idle" => Truth \subseteq truths
    /\ gpc # "done" => answer = "none"
    /\ gpc \in {"marker", "git", "toplevel", "resolve"} /\ ~early => Searching
    /\ gpc \in {"lsfiles", "checkignore"} /\ Steady => Known
    /\ answer \in truths \cup {"none", "error"} \/ ~Steady \/ (blank /\ answer = "outside")

LEMMA GitInvInit == GitInit => GitInv
<1> SUFFICES ASSUME GitInit PROVE GitInv
  OBVIOUS
<1>1. gchanges \in 0..MaxGitChanges /\ 1 \in DOMAIN Above[directory] /\ through \in Dirs
  BY GitAssumption DEF GitInit
<1> QED BY <1>1 DEF GitInit, GitInv, GitTypeOK

(* git finds a worktree from its own top. *)
LEMMA TopOfItself ==
    ASSUME NEW r \in Dirs, r \in markers
    PROVE  Tops(r) = {r}
<1>1. Above[r] \in Seq(Dirs) /\ Above[r] # <<>> /\ Above[r][1] = r
  BY GitAssumption
<1>2. 1 \in DOMAIN Above[r]
  BY <1>1
<1>3. r \in Tops(r)
  BY <1>1, <1>2 DEF Tops
<1>4. ASSUME NEW t \in Tops(r) PROVE t = r
  <2>1. PICK i \in DOMAIN Above[r] :
          Above[r][i] = t /\ \A j \in 1..(i - 1) : Above[r][j] \notin markers
    BY <1>4 DEF Tops
  <2>2. i \in Nat \ {0}
    BY <1>1
  <2>3. i = 1
    BY <1>1, <2>1, <2>2
  <2> QED BY <1>1, <2>1, <2>3
<1> QED BY <1>3, <1>4

(* What is the case is what the worktree of the path says. *)
LEMMA TruthFacts ==
    /\ \A r \in Dirs, d \in Dirs : Classified(r, d) \in GitStatuses
    /\ Tops(through) = {} => Truth = {"outside"}
    /\ \A r \in Tops(through) : Classified(r, goal) \in Truth
BY DEF Truth, Classified, GitStatuses

(* An answer that was true once, or is one of the exceptions. *)
LEMMA GitAnswered ==
    ASSUME GitInv, gpc # "idle", NEW a \in GitStatuses \cup {"error"}, Answered(a),
           a \in truths \cup {"error"} \/ ~Steady \/ (blank /\ a = "outside")
    PROVE  GitInv'
<1> USE DEF GitInv, worktree, looked, history, Answered
<1>1. GitTypeOK'
  BY DEF GitTypeOK
<1>2. (Truth \subseteq truths)'
  BY DEF Truth, Classified, Tops
<1>3. (answer \in truths \cup {"none", "error"} \/ ~Steady \/ (blank /\ answer = "outside"))'
  BY DEF Steady
<1> QED BY <1>1, <1>2, <1>3

(* A look that decides nothing. *)
LEMMA GitLooked ==
    ASSUME GitInv, gpc \notin {"idle", "done"}, NEW to, Look(to),
           \/ gpc = "marker" /\ to = "git"
           \/ gpc = "git" /\ to = "toplevel"
           \/ gpc = "lsfiles" /\ to = "checkignore" /\ (Steady => <<root, dest>> \notin tracked)
    PROVE  GitInv'
<1> USE DEF GitInv, worktree, looked, history, Look
<1>1. GitTypeOK'
  BY DEF GitTypeOK
<1>2. (Truth \subseteq truths)'
  BY DEF Truth, Classified, Tops
<1>3. gpc' \in {"git", "toplevel"} /\ ~early' => Searching'
  BY DEF Searching
<1>4. gpc' = "checkignore" /\ Steady' => Known'
  <2> SUFFICES ASSUME gpc' = "checkignore", Steady' PROVE Known'
    OBVIOUS
  <2>1. Steady /\ Known /\ gpc = "lsfiles" /\ <<root, dest>> \notin tracked
    BY DEF Steady
  <2>2. Classified(root, dest) = ByRules
    BY <2>1 DEF Known, Classified, ByRules
  <2> QED BY <2>1, <2>2 DEF Known, Classified, ByRules, Tops
<1>5. (answer \in truths \cup {"none", "error"})'
  BY DEF GitTypeOK
<1> QED BY <1>1, <1>2, <1>3, <1>4, <1>5

(* The looks for a worktree. *)
LEMMA GitSearches ==
    ASSUME GitInv, GitStart \/ FindMarker \/ FindGit \/ ShowToplevel \/ ResolveDestination
    PROVE  GitInv'
<1> USE DEF GitInv, worktree, looked, history
<1>1. CASE GitStart
  <2>1. GitTypeOK'
    <3>1. 1 \in DOMAIN Above[directory'] /\ directory' \in Places
      BY <1>1, GitAssumption DEF GitStart
    <3>2. /\ through' \in Places /\ goal' \in Places /\ markers' \in SUBSET Dirs
          /\ tracked' \in SUBSET Pairs /\ ignored' \in SUBSET Pairs
          /\ directory' = through' /\ step' = 1 /\ gpc' = "marker" /\ truths' = Truth'
          /\ UNCHANGED <<root, dest, answer, early, since, gchanges>>
      BY <1>1 DEF GitStart
    <3>3. Truth' \in SUBSET GitStatuses
      BY DEF Truth, Classified, GitStatuses
    <3>4. blank' \in BOOLEAN
      BY Zenon, <1>1 DEF GitStart
    <3> QED BY <3>1, <3>2, <3>3, <3>4 DEF GitTypeOK
  <2>2. Searching' /\ gpc' = "marker" /\ answer' = "none" /\ truths' = Truth'
    BY <1>1 DEF GitStart, Searching
  <2> QED BY <2>1, <2>2
<1>2. CASE FindMarker
  <2>1. CASE Above[directory][step] \in markers
    BY <1>2, <2>1, GitLooked DEF FindMarker
  <2>2. CASE Above[directory][step] \notin markers /\ step = Len(Above[directory])
    <3>1. ~early => "outside" \in truths
      <4> SUFFICES ASSUME ~early PROVE "outside" \in truths
        OBVIOUS
      <4>1. directory = through /\ directory \in Dirs
              /\ \A j \in 1..(step - 1) : Above[directory][j] \notin markers
        BY <1>2, GitAssumption DEF FindMarker, Searching, GitTypeOK
      <4>2. DOMAIN Above[directory] = 1..step /\ step \in Nat
        BY <2>2, <4>1, GitAssumption
      <4>3. \A j \in DOMAIN Above[directory] : Above[directory][j] \notin markers
        BY <2>2, <4>1, <4>2
      <4>4. Tops(through) = {}
        BY <4>1, <4>3 DEF Tops
      <4> QED BY <1>2, <4>4, TruthFacts DEF FindMarker
    <3> QED BY <1>2, <2>2, <3>1, GitAnswered DEF FindMarker, Steady, GitStatuses
  <2>3. CASE Above[directory][step] \notin markers /\ step # Len(Above[directory])
    <3>1. /\ step' = step + 1 /\ gpc = "marker"
          /\ UNCHANGED <<gpc, worktree, directory, root, dest, answer, history>>
      BY <1>2, <2>3 DEF FindMarker
    <3>2. step \in 1..Len(Above[directory]) /\ Len(Above[directory]) \in Nat
      <4>1. Above[directory] \in Seq(Dirs) /\ step \in DOMAIN Above[directory]
        BY GitAssumption DEF GitTypeOK
      <4> QED BY <4>1
    <3>3. step' \in DOMAIN Above[directory']
      BY <2>3, <3>1, <3>2, GitAssumption DEF GitTypeOK
    <3>4. GitTypeOK'
      BY <3>1, <3>3 DEF GitTypeOK
    <3>5. ~early' => Searching'
      <4> SUFFICES ASSUME ~early PROVE Searching'
        BY <3>1
      <4>1. directory = through /\ \A j \in 1..(step - 1) : Above[directory][j] \notin markers
        BY <3>1 DEF Searching
      <4>2. \A j \in 1..step : Above[directory][j] \notin markers
        <5>1. \A j \in 1..step : j \in 1..(step - 1) \/ j = step
          BY <3>2
        <5> QED BY <2>3, <4>1, <5>1
      <4>3. step' - 1 = step
        BY <3>1, <3>2
      <4> QED BY <3>1, <4>1, <4>2, <4>3 DEF Searching
    <3>6. (Truth \subseteq truths)'
      BY <3>1 DEF Truth, Classified, Tops
    <3> QED BY <3>1, <3>4, <3>5, <3>6
  <2> QED BY <2>1, <2>2, <2>3
<1>3. CASE FindGit
  BY <1>3, GitAnswered, GitLooked DEF FindGit
<1>4. CASE ShowToplevel
  <2>1. CASE Answered("error")
    BY <1>4, <2>1, GitAnswered DEF ShowToplevel
  <2>2. CASE ~Answered("error")
    <3>1. /\ gpc = "toplevel" /\ root' \in Tops(directory) /\ gpc' = "resolve"
          /\ UNCHANGED <<worktree, directory, step, dest, answer, history>>
      BY <1>4, <2>2 DEF ShowToplevel
    <3>2. GitTypeOK'
      BY <3>1 DEF GitTypeOK, Tops
    <3>3. ~early' => Searching'
      BY <3>1 DEF Searching, Tops
    <3>4. (Truth \subseteq truths)'
      BY <3>1 DEF Truth, Classified, Tops
    <3> QED BY <3>1, <3>2, <3>3, <3>4
  <2> QED BY <2>1, <2>2
<1>5. CASE ResolveDestination
  <2>1. gpc = "resolve" /\ (~early => root \in Tops(through)) /\ Truth \subseteq truths
    BY <1>5 DEF ResolveDestination, Searching
  <2>2. ~early => Classified(root, goal) \in truths
    BY <2>1, TruthFacts
  <2>3. CASE blank \/ root \notin Up(goal)
    <3>1. root \notin Up(goal) => Classified(root, goal) = "outside"
      BY DEF Classified
    <3> QED BY <1>5, <2>1, <2>2, <2>3, <3>1, GitAnswered DEF ResolveDestination, Steady, GitStatuses
  <2>4. CASE ~blank /\ root \in Up(goal)
    <3>1. /\ dest' = goal /\ gpc' = "lsfiles" /\ since' = {}
          /\ UNCHANGED <<worktree, directory, step, root, answer, truths, early, gchanges>>
      BY <1>5, <2>4 DEF ResolveDestination
    <3>2. GitTypeOK'
      BY <3>1 DEF GitTypeOK
    <3>3. Steady' => Known'
      <4> SUFFICES ASSUME ~early PROVE Known'
        BY <3>1 DEF Steady
      <4>1. root \in markers /\ root \in Tops(through)
        BY <2>1 DEF Tops
      <4>2. (root \in markers /\ root \in Up(dest) /\ root \in Tops(through) /\ goal = dest)'
        BY <2>4, <3>1, <4>1 DEF Tops, Up
      <4>3. (Classified(root, dest) \in truths)'
        BY <2>2, <3>1 DEF Classified
      <4> QED BY <3>1, <4>2, <4>3 DEF Known
    <3>4. (Truth \subseteq truths)'
      BY <2>1, <3>1 DEF Truth, Classified, Tops
    <3> QED BY <2>1, <3>1, <3>2, <3>3, <3>4
  <2> QED BY <2>3, <2>4
<1> QED BY <1>1, <1>2, <1>3, <1>4, <1>5

(* The questions to the worktree that was found. *)
LEMMA GitAsks ==
    ASSUME GitInv, ListFiles \/ CheckIgnore \/ GitFails
    PROVE  GitInv'
<1> USE DEF GitInv
<1>1. CASE Answered("error")
  BY <1>1, GitAnswered DEF ListFiles, CheckIgnore, GitFails
<1>2. ASSUME Steady, gpc \in {"lsfiles", "checkignore"} PROVE Tops(root) = {root}
  BY <1>2, TopOfItself DEF Known, GitTypeOK
<1>3. CASE ListFiles /\ ~Answered("error")
  <2>1. PICK r \in Tops(root) :
          IF <<r, dest>> \in tracked THEN Answered("tracked") ELSE Look("checkignore")
    BY <1>3 DEF ListFiles
  <2>2. gpc = "lsfiles" /\ (Steady => r = root /\ Known)
    BY <1>2, <1>3, <2>1 DEF ListFiles
  <2>3. CASE <<r, dest>> \in tracked
    <3>1. Steady => "tracked" \in truths
      BY <2>2, <2>3 DEF Known, Classified
    <3> QED BY <2>1, <2>2, <2>3, <3>1, GitAnswered DEF GitStatuses
  <2>4. CASE <<r, dest>> \notin tracked
    BY <2>1, <2>2, <2>4, GitLooked
  <2> QED BY <2>3, <2>4
<1>4. CASE CheckIgnore /\ ~Answered("error")
  <2>1. PICK r \in Tops(root) :
          Answered(IF <<r, dest>> \in ignored THEN "ignored" ELSE "untracked")
    BY <1>4 DEF CheckIgnore
  <2>2. gpc = "checkignore" /\ (Steady => r = root /\ Known)
    BY <1>2, <1>4, <2>1 DEF CheckIgnore
  <2>3. Steady => (IF <<r, dest>> \in ignored THEN "ignored" ELSE "untracked") \in truths
    BY <2>2 DEF Known, ByRules
  <2> QED BY <2>1, <2>2, <2>3, GitAnswered DEF GitStatuses
<1> QED BY <1>1, <1>3, <1>4 DEF GitFails

(* Whatever others do. *)
LEMMA GitChanged ==
    ASSUME GitInv, GitChange
    PROVE  GitInv'
<1> USE DEF GitInv, looked
<1>1. /\ gpc \notin {"idle", "done"} /\ answer = "none"
      /\ truths' = truths \cup Truth'
      /\ UNCHANGED <<gpc, blank, directory, step, root, dest, answer>>
  BY DEF GitChange
<1>2. gchanges' \in 0..MaxGitChanges
  BY GitAssumption DEF GitChange, GitTypeOK
<1>3. /\ through' \in Places /\ goal' \in Places /\ markers' \in SUBSET Dirs
      /\ tracked' \in SUBSET Pairs /\ ignored' \in SUBSET Pairs
  <2>1. CASE Retarget \/ Stage \/ EditRules
    BY <2>1 DEF Retarget, Stage, EditRules, GitTypeOK
  <2>2. CASE Rearrange
    BY <2>2 DEF Rearrange, GitTypeOK
  <2> QED BY <2>1, <2>2 DEF GitChange
<1>4. early' \in BOOLEAN /\ since' \in SUBSET {"path", "tree", "index", "rules"}
  <2>1. PICK kind \in {"path", "tree", "index", "rules"} : Changed(kind)
    BY DEF GitChange, Retarget, Rearrange, Stage, EditRules
  <2> QED BY <2>1 DEF Changed, GitTypeOK
<1>5. Truth' \in SUBSET GitStatuses
  BY DEF Truth, Classified, GitStatuses
<1>6. GitTypeOK'
  BY <1>1, <1>2, <1>3, <1>4, <1>5 DEF GitTypeOK
<1>7. (Truth \subseteq truths)'
  BY <1>1
<1>8. gpc \in {"marker", "git", "toplevel", "resolve"} /\ ~early' => Searching'
  <2> SUFFICES ASSUME gpc \in {"marker", "git", "toplevel", "resolve"}, ~early' PROVE Searching'
    OBVIOUS
  <2>1. ~early /\ (Stage \/ EditRules)
    BY DEF GitChange, Retarget, Rearrange, Stage, EditRules, Changed
  <2>2. UNCHANGED <<through, goal, markers>> /\ Searching
    BY <2>1 DEF Stage, EditRules
  <2> QED BY <1>1, <2>2 DEF Searching, Tops
<1>9. gpc \in {"lsfiles", "checkignore"} /\ Steady' => Known'
  <2> SUFFICES ASSUME gpc \in {"lsfiles", "checkignore"}, Steady' PROVE Known'
    OBVIOUS
  <2>1. PICK kind \in {"path", "index", "rules"} :
          /\ since' = since \cup {kind} /\ early' = early
          /\ kind = "path" => Retarget
          /\ kind = "index" => Stage
          /\ kind = "rules" => EditRules
    BY DEF GitChange, Retarget, Rearrange, Stage, EditRules, Changed, Steady
  <2>2. Steady /\ Known /\ since' = {kind} /\ \A x \in since : x = kind
    BY <2>1 DEF Steady
  <2>3. root \in Dirs /\ UNCHANGED <<markers, root, dest>>
    BY <1>1, <2>1 DEF Retarget, Stage, EditRules, GitTypeOK
  <2>4. (root \in markers /\ root \in Up(dest))'
    BY <2>2, <2>3 DEF Known
  <2>5. CASE kind = "path"
    <3>1. UNCHANGED <<tracked, ignored>> /\ truths \subseteq truths'
      BY <1>1, <2>1, <2>5 DEF Retarget
    <3>2. Classified(root, dest)' = Classified(root, dest) /\ ByRules' = ByRules
      BY <2>3, <3>1 DEF Classified, ByRules
    <3> QED BY <1>1, <2>2, <2>3, <2>4, <2>5, <3>1, <3>2 DEF Known
  <2>6. CASE kind # "path"
    <3>1. UNCHANGED <<through, goal>> /\ root \in Tops(through) /\ goal = dest
      BY <2>1, <2>2, <2>6 DEF Stage, EditRules, Known
    <3>2. (root \in Tops(through) /\ goal = dest)'
      BY <2>3, <3>1 DEF Tops
    <3>3. (Classified(root, dest) \in truths)'
      <4>1. (Classified(root, goal) \in Truth)'
        BY <3>2 DEF Truth
      <4> QED BY <1>7, <3>2, <4>1
    <3>4. gpc = "checkignore" =>
            ByRules' \in truths' /\ ("index" \notin since' => <<root, dest>> \notin tracked')
      <4> SUFFICES ASSUME gpc = "checkignore"
                   PROVE  ByRules' \in truths' /\ ("index" \notin since' => <<root, dest>> \notin tracked')
        OBVIOUS
      <4>1. CASE kind = "index"
        BY <1>1, <2>1, <2>2, <2>3, <4>1 DEF Known, ByRules, Stage
      <4>2. CASE kind = "rules"
        <5>1. UNCHANGED tracked /\ <<root, dest>> \notin tracked
          BY <2>1, <2>2, <4>2 DEF EditRules, Known
        <5>2. Classified(root, dest)' = ByRules'
          BY <2>3, <2>4, <5>1 DEF Classified, ByRules
        <5> QED BY <2>3, <3>3, <5>1, <5>2
      <4> QED BY <2>6, <4>1, <4>2
    <3> QED BY <1>1, <2>3, <2>4, <3>2, <3>3, <3>4 DEF Known
  <2> QED BY <2>5, <2>6
<1> QED BY <1>1, <1>6, <1>7, <1>8, <1>9

LEMMA GitInvStep == GitInv /\ [GitNext]_gitVars => GitInv'
<1> SUFFICES ASSUME GitInv, [GitNext]_gitVars PROVE GitInv'
  OBVIOUS
<1>1. CASE UNCHANGED gitVars
  <2>1. GitTypeOK'
    BY <1>1 DEF gitVars, GitInv, GitTypeOK
  <2>2. Truth' = Truth /\ Classified(root, dest)' = Classified(root, dest) /\ ByRules' = ByRules
    BY <1>1 DEF gitVars, Truth, Classified, ByRules, Tops
  <2>3. (Searching' <=> Searching) /\ (Known' <=> Known) /\ (Steady' <=> Steady)
    BY <1>1, <2>2 DEF gitVars, Searching, Known, Steady, Tops
  <2> QED BY <1>1, <2>1, <2>2, <2>3 DEF gitVars, GitInv
<1> QED BY <1>1, GitSearches, GitAsks, GitChanged DEF GitNext, GitDone

(* What destination_status answers was the truth at one instant of the call, unless a *)
(* link of the path or a .git changed under it, or an index and ignore rules both     *)
(* (git.py).                                                                          *)
THEOREM StatusWasTrueOnce == GitSpec => []AnswerWasTrueOnce
<1>1. ASSUME GitInv PROVE AnswerWasTrueOnce
  <2>1. ASSUME NEW x \in since, NEW y \in since, x # y PROVE Cardinality(since) > 1
    <3>2. IsFiniteSet({"path", "tree", "index", "rules"})
      <4>1. IsFiniteSet((({"path"} \cup {"tree"}) \cup {"index"}) \cup {"rules"})
        BY FS_Singleton, FS_Union
      <4>2. {"path", "tree", "index", "rules"} = (({"path"} \cup {"tree"}) \cup {"index"}) \cup {"rules"}
        OBVIOUS
      <4> QED BY <4>1, <4>2
    <3>3. IsFiniteSet(since)
      BY <1>1, <3>2, FS_Subset DEF GitInv, GitTypeOK
    <3>4. Cardinality({x, y}) = 2
      <4>1. IsFiniteSet({x}) /\ Cardinality({x}) = 1
        BY FS_Singleton
      <4>2. {x, y} = {x} \cup {y} /\ y \notin {x}
        BY <2>1
      <4> QED BY <4>1, <4>2, FS_AddElement
    <3>5. Cardinality({x, y}) <= Cardinality(since) /\ Cardinality(since) \in Nat
      BY <2>1, <3>3, FS_Subset, FS_CardinalityType
    <3> QED BY <3>4, <3>5
  <2> QED BY <1>1, <2>1 DEF GitInv, AnswerWasTrueOnce, Steady
<1> QED BY GitInvInit, GitInvStep, <1>1, PTL DEF GitSpec

-----------------------------------------------------------------------------
(* Nothing has befallen the settings that no `finally` makes good. *)
Covered == lapse \cap {"restore failed", "interrupted between"} = {}

AllHidden(s) == \A i \in DOMAIN s : s[i].hidden

NoneHidden(s) == \A i \in DOMAIN s : ~s[i].hidden

Unread == {"idle", "open", "getattr", "hide"}

Mute == {"hidden", "prompt", "read", "restore"}

(* The inductive invariant: when echo may be off, when keys may be typed unseen, and  *)
(* what has been read.                                                                *)
PromptInv ==
    /\ PromptTypeOK
    /\ tpc \in {"idle", "open", "getattr"} /\ "stopped" \notin lapse => (echo <=> original)
    /\ original /\ ~echo /\ Covered => tpc \in Mute \/ (tpc = "done" /\ result = "killed")
    /\ tpc \in Unread => value = <<>> /\ result = "none"
    /\ tpc = "idle" => queue = <<>>
    /\ "stopped" \notin lapse =>
         /\ \A i \in DOMAIN value : value[i].kind = "char" /\ value[i].hidden
         /\ tpc \in {"hidden", "prompt", "read"} => ~echo /\ AllHidden(queue)
    /\ original /\ lapse = {} =>
         tpc \in Mute \/ (tpc = "done" /\ result = "killed") \/ NoneHidden(queue)

LEMMA PromptInvInit == PromptInit => PromptInv
<1> SUFFICES ASSUME PromptInit PROVE PromptInv
  OBVIOUS
<1>1. echo \in BOOLEAN /\ original \in BOOLEAN
  BY Zenon DEF PromptInit
<1>2. keys \in 0..MaxKeys /\ queue \in Seq(Key) /\ value \in Seq(Key)
  BY HiddenPromptAssumption DEF PromptInit
<1> QED
  BY <1>1, <1>2 DEF PromptInit, PromptInv, PromptTypeOK, Covered, NoneHidden, Unread, Lapses

(* A line taken off the keys typed. *)
LEMMA LineTaken ==
    ASSUME NEW q \in Seq(Key), NEW v \in Seq(Key), NEW n \in DOMAIN q
    PROVE  /\ v \o SubSeq(q, 1, n - 1) \in Seq(Key)
           /\ \A i \in DOMAIN (v \o SubSeq(q, 1, n - 1)) :
                \/ i \in DOMAIN v /\ (v \o SubSeq(q, 1, n - 1))[i] = v[i]
                \/ \E j \in 1..(n - 1) : j \in DOMAIN q /\ (v \o SubSeq(q, 1, n - 1))[i] = q[j]
           /\ SubSeq(q, n + 1, Len(q)) \in Seq(Key)
           /\ \A i \in DOMAIN SubSeq(q, n + 1, Len(q)) :
                i + n \in DOMAIN q /\ SubSeq(q, n + 1, Len(q))[i] = q[i + n]
<1> DEFINE t == SubSeq(q, 1, n - 1)
<1>1. n \in 1..Len(q) /\ Len(q) \in Nat
  OBVIOUS
<1>2. t \in Seq(Key) /\ Len(t) = n - 1 /\ \A j \in 1..(n - 1) : j \in DOMAIN q /\ t[j] = q[j]
  BY <1>1
<1>3. v \o t \in Seq(Key)
  BY <1>2
<1>4. ASSUME NEW i \in DOMAIN (v \o t)
      PROVE  \/ i \in DOMAIN v /\ (v \o t)[i] = v[i]
             \/ \E j \in 1..(n - 1) : j \in DOMAIN q /\ (v \o t)[i] = q[j]
  <2> HIDE DEF t
  <2>1. i \in 1..(Len(v) + Len(t)) /\ Len(v) \in Nat
    BY <1>2
  <2>2. CASE i <= Len(v)
    BY <1>2, <2>1, <2>2
  <2>3. CASE i > Len(v)
    <3>1. i - Len(v) \in 1..(n - 1) /\ (v \o t)[i] = t[i - Len(v)]
      BY <1>1, <1>2, <2>1, <2>3
    <3> QED BY <1>2, <3>1
  <2> QED BY <2>1, <2>2, <2>3
<1>5. /\ SubSeq(q, n + 1, Len(q)) \in Seq(Key)
      /\ \A i \in DOMAIN SubSeq(q, n + 1, Len(q)) :
           i + n \in DOMAIN q /\ SubSeq(q, n + 1, Len(q))[i] = q[i + n]
  BY <1>1
<1> QED BY <1>3, <1>4, <1>5

LEMMA NoKeys == <<>> \in Seq(Key) /\ NoneHidden(<<>>) /\ AllHidden(<<>>)
BY DEF NoneHidden, AllHidden

LEMMA KeyAppended ==
    ASSUME NEW q \in Seq(Key), NEW k \in Key
    PROVE  /\ Append(q, k) \in Seq(Key)
           /\ \A i \in DOMAIN Append(q, k) :
                (i \in DOMAIN q /\ Append(q, k)[i] = q[i]) \/ Append(q, k)[i] = k
OBVIOUS

LEMMA PromptInvStep == PromptInv /\ [PromptNext]_promptVars => PromptInv'
<1> SUFFICES ASSUME PromptInv, [PromptNext]_promptVars PROVE PromptInv'
  OBVIOUS
<1> USE DEF PromptInv, PromptTypeOK, Covered, AllHidden, NoneHidden, Unread, Mute, Lapses, Call
<1>1. ASSUME PromptStart PROVE PromptInv'
  <2>1. echo' \in BOOLEAN /\ original' \in BOOLEAN /\ (echo' <=> original')
    BY Zenon, <1>1 DEF PromptStart
  <2>2. tpc = "idle" /\ tpc' = "open" /\ UNCHANGED <<queue, value, result, keys, lapse>>
    BY <1>1 DEF PromptStart
  <2> QED BY <2>1, <2>2, NoKeys
<1>2. ASSUME OpenTerminal PROVE PromptInv'
  BY <1>2 DEF OpenTerminal
<1>3. ASSUME GetAttributes PROVE PromptInv'
  <2>1. original' \in BOOLEAN /\ (original' <=> echo)
    BY Zenon, <1>3 DEF GetAttributes
  <2> QED BY <1>3, <2>1 DEF GetAttributes
<1>4. ASSUME Hide PROVE PromptInv'
  BY <1>4 DEF Hide
<1>5. ASSUME EnterTry PROVE PromptInv'
  BY <1>5 DEF EnterTry
<1>6. ASSUME WritePrompt PROVE PromptInv'
  BY <1>6 DEF WritePrompt
<1>7. ASSUME ReadLine PROVE PromptInv'
  <2>1. PICK n \in DOMAIN queue :
          /\ LineEndsAt(n)
          /\ value' = value \o SubSeq(queue, 1, n - 1)
          /\ queue' = SubSeq(queue, n + 1, Len(queue))
          /\ tpc' \in {"read", "restore"} /\ result' \in {result, "5"}
    BY <1>7 DEF ReadLine
  <2>2. tpc = "read" /\ UNCHANGED <<echo, original, keys, lapse>>
    BY <1>7 DEF ReadLine
  <2>3. /\ value' \in Seq(Key) /\ queue' \in Seq(Key)
        /\ \A i \in DOMAIN value' :
             \/ i \in DOMAIN value /\ value'[i] = value[i]
             \/ \E j \in 1..(n - 1) : j \in DOMAIN queue /\ value'[i] = queue[j]
        /\ \A i \in DOMAIN queue' : i + n \in DOMAIN queue /\ queue'[i] = queue[i + n]
    <3>1. queue \in Seq(Key) /\ value \in Seq(Key)
      OBVIOUS
    <3> HIDE DEF PromptInv
    <3> DEFINE t == SubSeq(queue, 1, n - 1)  r == SubSeq(queue, n + 1, Len(queue))
    <3>2. /\ value \o t \in Seq(Key)
          /\ \A i \in DOMAIN (value \o t) :
               \/ i \in DOMAIN value /\ (value \o t)[i] = value[i]
               \/ \E j \in 1..(n - 1) : j \in DOMAIN queue /\ (value \o t)[i] = queue[j]
          /\ r \in Seq(Key)
          /\ \A i \in DOMAIN r : i + n \in DOMAIN queue /\ r[i] = queue[i + n]
      BY Zenon, <3>1, LineTaken
    <3> QED BY Zenon, <2>1, <3>2
  <2>5. \A i \in DOMAIN value' :
          \/ i \in DOMAIN value /\ value'[i] = value[i]
          \/ \E j \in DOMAIN queue : value'[i] = queue[j] /\ queue[j].kind = "char"
    BY <2>1, <2>3 DEF LineEndsAt
  <2>6. "stopped" \notin lapse =>
          \A i \in DOMAIN value' : value'[i].kind = "char" /\ value'[i].hidden
    BY <2>2, <2>5
  <2> QED BY <2>1, <2>2, <2>3, <2>6
<1>8. ASSUME Restore PROVE PromptInv'
  <2>1. echo' \in BOOLEAN /\ (echo' <=> original)
    BY Zenon, <1>8 DEF Restore
  <2>2. /\ tpc = "restore" /\ tpc' = "newline" /\ queue' = <<>>
        /\ UNCHANGED <<value, original, result, keys, lapse>>
    BY <1>8 DEF Restore
  <2>3. queue' \in Seq(Key) /\ NoneHidden(queue')
    BY <2>2, NoKeys
  <2> QED BY <2>1, <2>2, <2>3
<1>9. ASSUME WriteNewline \/ CloseTerminal PROVE PromptInv'
  <2>1. /\ tpc \in {"newline", "close"} /\ tpc' \in {"close", "decode", "done"}
        /\ UNCHANGED <<echo, queue, value, original, result, keys, lapse>>
    BY <1>9 DEF WriteNewline, CloseTerminal
  <2> QED BY <2>1
<1>10. ASSUME Decode PROVE PromptInv'
  BY <1>10 DEF Decode
<1>11. ASSUME CallFails PROVE PromptInv'
  BY <1>11 DEF CallFails, Unwound
<1>12. ASSUME Interrupt PROVE PromptInv'
  <2>1. /\ tpc \notin {"idle", "done"} /\ tpc' \in {"restore", "close", "done"}
        /\ tpc' = "restore" <=> tpc \in {"prompt", "read"}
        /\ result' = "interrupted" /\ queue' = <<>>
        /\ UNCHANGED <<echo, value, original, keys>>
    BY <1>12 DEF Interrupt, Unwound
  <2>2. /\ lapse' \in SUBSET Lapses /\ lapse \subseteq lapse'
        /\ "stopped" \in lapse' => "stopped" \in lapse
        /\ tpc \in {"hidden", "restore"} => "interrupted between" \in lapse'
    BY <1>12 DEF Interrupt
  <2>3. queue' \in Seq(Key) /\ NoneHidden(queue')
    BY <2>1, NoKeys
  <2> QED BY <2>1, <2>2, <2>3
<1>13. ASSUME KillPrompt PROVE PromptInv'
  BY <1>13 DEF KillPrompt
<1>14. ASSUME Type PROVE PromptInv'
  <2>1. PICK k \in Key : queue' = Append(queue, k) /\ (k.hidden <=> ~echo)
    <3>1. PICK kind \in {"char", "newline", "eof"} :
            queue' = Append(queue, [kind |-> kind, hidden |-> ~echo])
      BY Zenon, <1>14 DEF Type
    <3> DEFINE k == [kind |-> kind, hidden |-> ~echo]
    <3>2. (~echo) \in BOOLEAN
      OBVIOUS
    <3>3. k \in Key
      BY <3>2 DEF Key
    <3>4. k.hidden <=> ~echo
      OBVIOUS
    <3> QED BY Zenon, <3>1, <3>3, <3>4
  <2>2. keys' \in 0..MaxKeys
    <3>1. keys < MaxKeys /\ keys' = keys + 1
      BY Zenon, <1>14 DEF Type
    <3>2. keys \in 0..MaxKeys
      OBVIOUS
    <3> HIDE DEF PromptInv
    <3> QED BY <3>1, <3>2, HiddenPromptAssumption
  <2>3. UNCHANGED <<tpc, echo, value, original, result, lapse>>
    BY <1>14 DEF Type
  <2>4. /\ queue' \in Seq(Key)
        /\ \A i \in DOMAIN queue' : (i \in DOMAIN queue /\ queue'[i] = queue[i]) \/ queue'[i] = k
    BY <2>1, KeyAppended
  <2>5. echo /\ NoneHidden(queue) => NoneHidden(queue')
    BY Zenon, <2>1, <2>4
  <2>6. ~echo /\ AllHidden(queue) => AllHidden(queue')
    BY Zenon, <2>1, <2>4
  <2>7. tpc \notin {"idle", "done"} /\ queue' \in Seq(Key)
    BY <1>14, <2>4 DEF Type
  <2> HIDE DEF AllHidden, NoneHidden
  <2> QED BY <2>2, <2>3, <2>5, <2>6, <2>7
<1>15. ASSUME StopAndContinue PROVE PromptInv'
  <2>1. echo' /\ echo' \in BOOLEAN
    BY Zenon, <1>15 DEF StopAndContinue
  <2>2. /\ tpc \notin {"idle", "done"} /\ queue' = <<>> /\ lapse' = lapse \cup {"stopped"}
        /\ UNCHANGED <<tpc, value, original, result, keys>>
    BY <1>15 DEF StopAndContinue
  <2>3. queue' \in Seq(Key)
    BY <2>2, NoKeys
  <2> QED BY <2>1, <2>2, <2>3
<1>16. CASE UNCHANGED promptVars
  BY <1>16 DEF promptVars
<1> QED
  BY <1>1, <1>2, <1>3, <1>4, <1>5, <1>6, <1>7, <1>8, <1>9, <1>10, <1>11, <1>12, <1>13, <1>14,
     <1>15, <1>16 DEF PromptNext, PromptDone

(* Echo is back when the prompt ends, but for a kill, a restoring call that fails and *)
(* an interrupt at one of two places (_read_hidden_input).                            *)
THEOREM EchoRestored == PromptSpec => []EchoComesBack
<1>1. PromptInv => EchoComesBack
  BY DEF PromptInv, EchoComesBack, Covered, Mute
<1> QED BY PromptInvInit, PromptInvStep, <1>1, PTL DEF PromptSpec

(* No key of the secret was shown, and no key typed unseen is left to the shell       *)
(* (the two TCSAFLUSH of _read_hidden_input).                                         *)
THEOREM SecretHidden == PromptSpec => []SecretStaysHidden
<1>1. PromptInv => SecretStaysHidden
  BY DEF PromptInv, SecretStaysHidden, Mute, NoneHidden
<1> QED BY PromptInvInit, PromptInvStep, <1>1, PTL DEF PromptSpec

-----------------------------------------------------------------------------
(* A set of processes that contains the parent of each of its members.                *)
Closed(tree, S) == \A s \in S : tree[s] \in S

(* The ancestors of a process form the least closed set that holds its parent.        *)
LEMMA AncestorsClosed ==
    ASSUME NEW tree \in [Pids -> Pids], NEW p \in Pids
    PROVE  /\ AncestorsIn(tree, p) \subseteq Pids
           /\ tree[p] \in AncestorsIn(tree, p)
           /\ Closed(tree, AncestorsIn(tree, p))
           /\ \A S \in SUBSET Pids :
                tree[p] \in S /\ Closed(tree, S) => AncestorsIn(tree, p) \subseteq S
BY DEF AncestorsIn, Closed

(* The ancestors of an ancestor are ancestors.                                        *)
LEMMA AncestorsTransitive ==
    ASSUME NEW tree \in [Pids -> Pids], NEW p \in Pids, NEW q \in AncestorsIn(tree, p)
    PROVE  AncestorsIn(tree, q) \subseteq AncestorsIn(tree, p)
<1>1. q \in Pids /\ tree[q] \in AncestorsIn(tree, p)
  BY AncestorsClosed DEF Closed
<1> QED BY <1>1, AncestorsClosed

(* No process but launchd is its own ancestor.                                        *)
Acyclic(tree) == \A p \in Pids : Launchd = p \/ p \notin AncestorsIn(tree, p)

(* What the walk has seen, as long as no identifier was reused: a chain from ainv to   *)
(* the current process, without one that should have been named.                      *)
Chain ==
    /\ Self \in seen /\ current \in seen
    /\ current = Self \/ current \in AncestorsIn(family, Self)
    /\ \A s \in seen : s = current \/ family[s] \in seen
    /\ current # Launchd
    /\ \A s \in seen : s \in bundled \ passed => rpc = "identity" /\ s = current
    /\ \A p \in Pids : parent[p] \in {family[p], Launchd}
    /\ Self \notin bundled

(* The inductive invariant. *)
RequesterInv ==
    /\ RequesterTypeOK
    /\ rpc = "idle" => current = Self /\ seen = {Self} /\ named = NoApp
    /\ rpc # "idle" => Acyclic(family)
    /\ rpc # "done" => named = NoApp
    /\ rpc \in {"parent", "identity"} /\ reused = {} => Chain
    /\ NamesAnAncestor

LEMMA RequesterInvInit == RequesterInit => RequesterInv
<1> SUFFICES ASSUME RequesterInit PROVE RequesterInv
  OBVIOUS
<1>1. RequesterTypeOK
  BY RequesterAssumption DEF RequesterInit, RequesterTypeOK, Alone
<1> QED BY <1>1, RequesterAssumption DEF RequesterInit, RequesterInv, NamesAnAncestor

(* The process the walk has come to is the nearest of an application.                 *)
LEMMA NearestIsNamed ==
    ASSUME RequesterInv, rpc = "identity", reused = {}, current \in bundled,
           named' = current, UNCHANGED <<bundled, reused, passed, family>>
    PROVE  NamesAnAncestor'
<1> USE DEF RequesterInv, RequesterTypeOK
<1>1. Chain /\ Acyclic(family) /\ family \in [Pids -> Pids] /\ Self \in Pids
  BY RequesterAssumption
<1>2. current \in AncestorsIn(family, Self) /\ current \in Pids /\ current # Launchd
  BY <1>1 DEF Chain
<1>3. AncestorsIn(family, Self) \subseteq seen \cup AncestorsIn(family, current)
  <2> DEFINE S == seen \cup AncestorsIn(family, current)
  <2>1. S \in SUBSET Pids
    BY <1>1, <1>2, AncestorsClosed
  <2>2. family[current] \in S /\ Closed(family, AncestorsIn(family, current))
    BY <1>1, <1>2, AncestorsClosed
  <2>3. Closed(family, S)
    BY <1>1, <2>2 DEF Chain, Closed
  <2>4. family[Self] \in S
    BY <1>1, <2>3 DEF Chain, Closed
  <2> QED BY <1>1, <2>1, <2>3, <2>4, AncestorsClosed
<1>4. ASSUME NEW q \in AncestorsIn(family, Self), current \in AncestorsIn(family, q)
      PROVE  q \notin bundled \ passed
  <2>1. current \notin AncestorsIn(family, current)
    BY <1>1, <1>2 DEF Acyclic
  <2>2. q # current
    BY <1>4, <2>1
  <2>3. q \notin AncestorsIn(family, current)
    BY <1>1, <1>2, <1>4, <2>1, AncestorsTransitive
  <2>4. q \in seen
    BY <1>3, <2>3
  <2> QED BY <1>1, <2>2, <2>4 DEF Chain
<1> QED BY <1>2, <1>4 DEF NamesAnAncestor

LEMMA RequesterInvStep == RequesterInv /\ [RequesterNext]_requesterVars => RequesterInv'
<1> SUFFICES ASSUME RequesterInv, [RequesterNext]_requesterVars PROVE RequesterInv'
  OBVIOUS
<1> USE RequesterAssumption DEF RequesterInv, RequesterTypeOK, processes
<1>1. ASSUME RequesterStart PROVE RequesterInv'
  <2>1. RequesterTypeOK' /\ Acyclic(family')
    BY <1>1 DEF RequesterStart, Acyclic
  <2>2. Chain'
    BY <1>1 DEF RequesterStart, Chain
  <2> QED BY <1>1, <2>1, <2>2 DEF RequesterStart, NamesAnAncestor
<1>2. ASSUME LookUpParent PROVE RequesterInv'
  <2>1. CASE GiveUpWalk
    BY <1>2, <2>1 DEF GiveUpWalk, LookUpParent, NamesAnAncestor, Acyclic
  <2>2. CASE ~GiveUpWalk
    <3>1. /\ rpc = "parent" /\ rpc' = "identity"
          /\ depth < MaxDepth /\ current \in alive
          /\ parent[current] \notin seen \cup {Launchd}
          /\ current' = parent[current]
          /\ seen' = seen \cup {parent[current]}
          /\ depth' = depth + 1
          /\ UNCHANGED <<named, passed, alive, parent, bundled, reused, family>>
      BY <1>2, <2>2 DEF LookUpParent
    <3>2. RequesterTypeOK'
      BY <3>1
    <3>3. ASSUME reused = {} PROVE Chain'
      <4>1. Chain /\ current \in Pids /\ Self \in Pids /\ family \in [Pids -> Pids]
        BY <3>1, <3>3
      <4>2. parent[current] = family[current] /\ current' = family[current]
        BY <3>1, <4>1 DEF Chain
      <4>3. current' \in AncestorsIn(family, Self)
        BY <4>1, <4>2, AncestorsClosed DEF Chain, Closed
      <4> QED BY <3>1, <4>1, <4>2, <4>3 DEF Chain
    <3> QED BY <3>1, <3>2, <3>3 DEF Acyclic, NamesAnAncestor
  <2> QED BY <2>1, <2>2
<1>3. ASSUME Identify PROVE RequesterInv'
  <2>1. /\ rpc = "identity" /\ named = NoApp
        /\ UNCHANGED <<current, seen, depth, alive, parent, bundled, reused, family>>
    BY <1>3 DEF Identify
  <2>2. CASE named' = current /\ current \in bundled /\ rpc' = "done" /\ UNCHANGED passed
    <3>1. RequesterTypeOK'
      BY <2>1, <2>2
    <3>2. reused = {} => NamesAnAncestor'
      BY <2>1, <2>2, NearestIsNamed
    <3>3. NamesAnAncestor'
      BY <2>1, <3>2 DEF NamesAnAncestor
    <3> QED BY <2>1, <2>2, <3>1, <3>3 DEF Acyclic
  <2>3. CASE passed' = passed \cup ({current} \cap bundled) /\ rpc' = "parent" /\ UNCHANGED named
    BY <2>1, <2>3 DEF Acyclic, NamesAnAncestor, Chain
  <2> QED BY <1>3, <2>2, <2>3 DEF Identify
<1>4. ASSUME ProcessEnds PROVE RequesterInv'
  <2>1. PICK p \in alive \ {Launchd, Self} :
          /\ alive' = alive \ {p}
          /\ parent' = [q \in Pids |-> IF parent[q] = p THEN Launchd ELSE parent[q]]
          /\ bundled' = bundled \ {p}
    BY <1>4 DEF ProcessEnds
  <2>2. rpc \in {"parent", "identity"} /\ UNCHANGED <<rpc, current, seen, depth, named, passed, reused, family>>
    BY <1>4 DEF ProcessEnds, walk
  <2>3. RequesterTypeOK'
    BY <2>1, <2>2
  <2> QED BY <2>1, <2>2, <2>3 DEF Acyclic, NamesAnAncestor, Chain
<1>5. ASSUME PidReused PROVE RequesterInv'
  <2>1. PICK p \in Pids \ alive, q \in alive :
          /\ alive' = alive \cup {p}
          /\ parent' = [parent EXCEPT ![p] = q]
          /\ bundled' \in {bundled, bundled \cup {p}}
          /\ reused' = reused \cup {p}
    BY <1>5 DEF PidReused
  <2>2. rpc \in {"parent", "identity"} /\ UNCHANGED <<rpc, current, seen, depth, named, passed, family>>
    BY <1>5 DEF PidReused, walk
  <2>3. RequesterTypeOK' /\ reused' # {}
    BY <2>1, <2>2
  <2> QED BY <2>2, <2>3 DEF Acyclic, NamesAnAncestor
<1>6. CASE UNCHANGED requesterVars
  BY <1>6 DEF requesterVars, Acyclic, NamesAnAncestor, Chain
<1> QED BY <1>1, <1>2, <1>3, <1>4, <1>5, <1>6 DEF RequesterNext, RequesterDone

(* Unless an identifier was reused, the application named is one ainv was started     *)
(* under, and the nearest whose identity could be read (_requesting_application).     *)
THEOREM NearestAncestorNamed == RequesterSpec => []NamesAnAncestor
<1>1. RequesterInv => NamesAnAncestor
  BY DEF RequesterInv
<1> QED BY RequesterInvInit, RequesterInvStep, <1>1, PTL DEF RequesterSpec

-----------------------------------------------------------------------------
(* A set of naturals has a least element: its intervals 0..n are finite.              *)
LEMMA LeastElement ==
    ASSUME NEW S \in SUBSET Nat, S # {}
    PROVE  \E n \in S : \A m \in S : n <= m
<1> DEFINE Intervals == {0..n : n \in S}
<1>1. Intervals # {} /\ Intervals \subseteq FiniteSubsetsOf(Nat)
  <2>1. \A n \in Nat : IsFiniteSet(0..n) /\ 0..n \subseteq Nat
    BY FS_Interval
  <2> QED BY <2>1 DEF FiniteSubsetsOf
<1>2. PICK x \in Intervals : \A y \in Intervals : <<y, x>> \notin StrictSubsetOrdering(Nat)
  <2> HIDE DEF Intervals
  <2> QED BY <1>1, WFMin, FS_StrictSubsetOrderingWellFounded
<1>3. PICK n \in S : x = 0..n
  OBVIOUS
<1>4. ASSUME NEW m \in S, m < n PROVE FALSE
  <2>1. 0..m \in Intervals /\ 0..m \subseteq 0..n /\ 0..m # 0..n
    BY <1>3, <1>4
  <2>2. <<0..m, 0..n>> \in StrictSubsetOrdering(Nat)
    <3>1. 0..m \in SUBSET Nat /\ 0..n \in SUBSET Nat
      BY <1>3
    <3> QED BY <2>1, <3>1 DEF StrictSubsetOrdering
  <2> QED BY <1>2, <1>3, <2>1, <2>2
<1> QED BY <1>3, <1>4

(* A word that binds something is read as a binding, under a name a variable may have. *)
LEMMA BindableFacts ==
    ASSUME NEW w \in Word, Bindable(w)
    PROVE  /\ IsBinding(w) /\ Binding(w)[1] \in Valid /\ Binding(w)[2] = w.value
           /\ Binding(w) = <<Binding(w)[1], w.value>>
           /\ w.name = None => Binding(w)[1] \notin Sensitive
           /\ \A v \in Valid :
                LET e == [w EXCEPT !.name = v]
                IN  e \in Word /\ Bindable(e) /\ Binding(e) = <<v, w.value>> /\ e.name = v
<1>1. w.name \in Valid \cup {Odd, None}
  BY DEF Word
<1>2. w.name \in Valid => w.name # None
  BY CommandLineAssumption
<1>3. IsBinding(w) /\ Binding(w)[1] \in Valid /\ Binding(w)[2] = w.value
      /\ Binding(w) = <<Binding(w)[1], w.value>>
      /\ (w.name = None => Binding(w)[1] \notin Sensitive)
  BY <1>1, <1>2 DEF Bindable, IsBinding, Binding, Inferrable, Routed, WellFormed
<1>4. ASSUME NEW v \in Valid
      PROVE  LET e == [w EXCEPT !.name = v]
             IN  e \in Word /\ Bindable(e) /\ Binding(e) = <<v, w.value>> /\ e.name = v
  <2> DEFINE e == [w EXCEPT !.name = v]
  <2>1. e \in Word /\ e.name = v /\ e.value = w.value
    BY DEF Word
  <2>2. v # None
    BY CommandLineAssumption
  <2> HIDE DEF e
  <2>3. Bindable(e) /\ Binding(e) = <<v, w.value>>
    BY <2>1, <2>2 DEF Bindable, Binding
  <2> QED BY <2>1, <2>3 DEF e
<1> QED BY <1>3, <1>4

(* What _parse_bindings makes of words it does not refuse.                            *)
LEMMA BindingsFacts ==
    ASSUME NEW words \in Seq(Word), words # <<>>, Bindings(words) # Refused
    PROVE  LET bound == Bindings(words)
           IN  /\ bound = [i \in 1..Len(words) |-> Binding(words[i])]
               /\ Len(bound) = Len(words) /\ DOMAIN bound = 1..Len(words)
               /\ Len(words) \in Nat \ {0}
               /\ \A i \in 1..Len(words) : words[i] \in Word /\ Bindable(words[i])
               /\ \A i, j \in 1..Len(words) : bound[i][1] = bound[j][1] => i = j
<1>1. DOMAIN words = 1..Len(words) /\ Len(words) \in Nat \ {0}
      /\ \A i \in 1..Len(words) : words[i] \in Word
  OBVIOUS
<1>2. /\ Bindings(words) = [i \in DOMAIN words |-> Binding(words[i])]
      /\ \A i \in DOMAIN words : Bindable(words[i])
      /\ \A i, j \in DOMAIN words : Binding(words[i])[1] = Binding(words[j])[1] => i = j
  BY DEF Bindings
<1>3. Len(Bindings(words)) = Len(words)
  BY <1>1, <1>2
<1> QED BY <1>1, <1>2, <1>3

LEMMA BindingsAccept ==
    ASSUME NEW words \in Seq(Word), \A i \in 1..Len(words) : Bindable(words[i]),
           \A i, j \in 1..Len(words) : Binding(words[i])[1] = Binding(words[j])[1] => i = j
    PROVE  Bindings(words) = [i \in 1..Len(words) |-> Binding(words[i])]
<1>1. DOMAIN words = 1..Len(words)
  OBVIOUS
<1> QED BY <1>1 DEF Bindings

(* The names written out say what they said.                                          *)
LEMMA ExplicitBindings ==
    ASSUME NEW words \in Seq(Word), words # <<>>, NEW bound,
           bound = [i \in 1..Len(words) |-> bound[i]],
           \A i \in 1..Len(words) : WellFormed(words[i].value) /\ bound[i][1] \in Valid
                                      /\ bound[i] = <<bound[i][1], words[i].value>>,
           \A i, j \in 1..Len(words) : bound[i][1] = bound[j][1] => i = j
    PROVE  LET e == Explicit(words, bound)
           IN  /\ e \in Seq(Word) /\ Len(e) = Len(words)
               /\ \A i \in 1..Len(words) : Bindable(e[i]) /\ IsBinding(e[i])
               /\ Bindings(e) = bound /\ bound # <<>>
<1> DEFINE e == Explicit(words, bound)
<1>1. Len(words) \in Nat \ {0} /\ \A i \in 1..Len(words) : words[i] \in Word
  OBVIOUS
<1>2. e = [i \in 1..Len(words) |-> [words[i] EXCEPT !.name = bound[i][1]]]
  BY DEF Explicit
<1> HIDE DEF e
<1>3. ASSUME NEW i \in 1..Len(words)
      PROVE  /\ e[i] \in Word /\ Bindable(e[i]) /\ IsBinding(e[i])
             /\ Binding(e[i]) = bound[i]
  <2>1. e[i] = [words[i] EXCEPT !.name = bound[i][1]] /\ words[i] \in Word /\ bound[i][1] \in Valid
    BY <1>1, <1>2
  <2>2. e[i] \in Word /\ e[i].name = bound[i][1] /\ e[i].value = words[i].value
    BY <2>1 DEF Word
  <2>3. bound[i][1] # None
    BY CommandLineAssumption, <2>1
  <2> QED BY <2>2, <2>3, <2>1 DEF Bindable, Binding, IsBinding
<1>4. e \in Seq(Word) /\ Len(e) = Len(words)
  BY <1>1, <1>2, <1>3
<1>5. Bindings(e) = [i \in 1..Len(words) |-> Binding(e[i])]
  BY <1>3, <1>4, BindingsAccept
<1>6. Bindings(e) = bound /\ bound # <<>>
  BY <1>1, <1>3, <1>5
<1> QED BY <1>1, <1>3, <1>4, <1>6 DEF e
(* What `set` reads, as such and with the names written out.                          *)
LEMMA SetReadsOnce ==
    ASSUME NEW words \in Seq(Word), NEW as \in Valid \cup {Odd, None},
           SetRequest(words, as) # Refused
    PROVE  LET bound == SetRequest(words, as)
           IN  /\ words # <<>> /\ Len(bound) = Len(words) /\ DOMAIN bound = 1..Len(words)
               /\ bound = [i \in 1..Len(words) |-> bound[i]]
               /\ \A i \in 1..Len(words) :
                    /\ WellFormed(words[i].value) /\ bound[i][1] \in Valid
                    /\ bound[i] = <<bound[i][1], words[i].value>>
                    /\ bound[i][1] \in Sensitive => words[i].name # None \/ as # None
                    /\ as = None => Bindable(words[i])
               /\ \A i, j \in 1..Len(words) : bound[i][1] = bound[j][1] => i = j
<1> DEFINE bound == SetRequest(words, as)
<1>0. words # <<>> /\ Len(words) \in Nat \ {0} /\ \A i \in 1..Len(words) : words[i] \in Word
  <2>1. words # <<>>
    BY DEF SetRequest
  <2> QED BY <2>1
<1>1. CASE as = None
  <2>1. bound = Bindings(words) /\ bound # Refused
    BY <1>0, <1>1 DEF SetRequest
  <2> HIDE DEF bound
  <2>2. /\ bound = [i \in 1..Len(words) |-> Binding(words[i])]
        /\ Len(bound) = Len(words) /\ DOMAIN bound = 1..Len(words)
        /\ \A i \in 1..Len(words) : words[i] \in Word /\ Bindable(words[i])
        /\ \A i, j \in 1..Len(words) : bound[i][1] = bound[j][1] => i = j
    BY <1>0, <2>1, BindingsFacts
  <2>3. \A i \in 1..Len(words) :
          /\ WellFormed(words[i].value) /\ bound[i][1] \in Valid
          /\ bound[i] = <<bound[i][1], words[i].value>>
          /\ bound[i][1] \in Sensitive => words[i].name # None
    BY <2>2, BindableFacts DEF Bindable
  <2> QED BY <1>0, <1>1, <2>2, <2>3 DEF bound
<1>2. CASE as # None
  <2> DEFINE w == words[1]
             e == [w EXCEPT !.name = as]
             one == <<e>>
  <2>1. Len(words) = 1 /\ bound = Bindings(one) /\ bound # Refused
    BY <1>0, <1>2 DEF SetRequest
  <2>2. w \in Word /\ e \in Word /\ e.name = as /\ e.value = w.value
    <3>1. w \in Word
      BY <1>0, <2>1
    <3> QED BY <3>1 DEF Word
  <2> HIDE DEF bound, e
  <2>3. one \in Seq(Word) /\ one # <<>> /\ Len(one) = 1 /\ one[1] = e
    BY <2>2
  <2> HIDE DEF one
  <2>4. bound = [i \in 1..1 |-> Binding(one[i])] /\ Bindable(e)
    BY <2>1, <2>3, BindingsFacts
  <2>5. bound[1] = Binding(e) /\ Len(bound) = 1 /\ DOMAIN bound = 1..1
        /\ bound = [i \in 1..1 |-> bound[i]]
    BY <2>3, <2>4
  <2>6. bound[1][1] \in Valid /\ bound[1] = <<bound[1][1], w.value>> /\ WellFormed(w.value)
    BY <2>2, <2>4, <2>5, BindableFacts DEF Bindable
  <2>7. \A i \in 1..Len(words) : i = 1 /\ words[i] = w
    BY <2>1
  <2> HIDE DEF w
  <2> QED BY <1>0, <1>2, <2>1, <2>5, <2>6, <2>7 DEF bound
<1> QED BY <1>1, <1>2

(* Where the command begins: at the first word that is no binding.                    *)
LEMMA CommandIndexIs ==
    ASSUME NEW words \in Seq(Word), NEW k \in 1..Len(words), ~IsBinding(words[k]),
           \A i \in 1..(k - 1) : IsBinding(words[i])
    PROVE  CommandIndex(words) = k
<1> DEFINE others == {i \in DOMAIN words : ~IsBinding(words[i])}
           c == CHOOSE i \in others : \A j \in others : i <= j
<1>1. k \in others /\ \A j \in others : k <= j
  <2>1. \A j \in 1..Len(words) : j < k => j \in 1..(k - 1)
    OBVIOUS
  <2> QED BY <2>1
<1>2. c \in others /\ \A j \in others : c <= j
  BY <1>1
<1>3. others \subseteq Nat
  OBVIOUS
<1>4. c = k
  <2> HIDE DEF c, others
  <2> QED BY <1>1, <1>2, <1>3
<1> QED BY <1>1, <1>4 DEF CommandIndex

LEMMA CommandIndexFacts ==
    ASSUME NEW words \in Seq(Word)
    PROVE  LET k == CommandIndex(words)
           IN  /\ k \in 1..(Len(words) + 1)
               /\ \A i \in 1..(k - 1) : i \in 1..Len(words) /\ IsBinding(words[i])
               /\ k <= Len(words) => ~IsBinding(words[k])
<1> DEFINE others == {i \in DOMAIN words : ~IsBinding(words[i])}
<1>1. CASE others = {}
  <2>1. CommandIndex(words) = Len(words) + 1
    BY <1>1 DEF CommandIndex
  <2>2. Len(words) \in Nat /\ DOMAIN words = 1..Len(words)
    OBVIOUS
  <2> DEFINE k == CommandIndex(words)
  <2>3. \A i \in 1..(k - 1) : i \in 1..Len(words) /\ IsBinding(words[i])
    BY <1>1, <2>1, <2>2
  <2> QED BY <2>1, <2>2, <2>3
<1>2. CASE others # {}
  <2>1. PICK k \in others : \A m \in others : k <= m
    <3>1. others \in SUBSET Nat
      OBVIOUS
    <3> HIDE DEF others
    <3> QED BY <1>2, <3>1, LeastElement
  <2>2. k \in 1..Len(words) /\ ~IsBinding(words[k])
    BY <2>1
  <2>3. ASSUME NEW i \in 1..(k - 1) PROVE i \in 1..Len(words) /\ IsBinding(words[i])
    BY <2>1, <2>2
  <2> QED BY <2>2, <2>3, CommandIndexIs
<1> QED BY <1>1, <1>2

LEMMA PrefixFacts ==
    ASSUME NEW words \in Seq(Word), NEW n \in 0..Len(words)
    PROVE  /\ SubSeq(words, 1, n) \in Seq(Word) /\ Len(SubSeq(words, 1, n)) = n
           /\ \A i \in 1..n : i \in 1..Len(words) /\ SubSeq(words, 1, n)[i] = words[i]
           /\ SubSeq(words, n + 1, Len(words)) \in Seq(Word)
           /\ Len(SubSeq(words, n + 1, Len(words))) = Len(words) - n
           /\ \A i \in 1..(Len(words) - n) :
                 n + i \in 1..Len(words) /\ SubSeq(words, n + 1, Len(words))[i] = words[n + i]
<1>1. Len(words) \in Nat /\ n \in Nat /\ n <= Len(words)
      /\ \A i \in 1..Len(words) : words[i] \in Word
  OBVIOUS
<1> QED BY <1>1, SubSeqProperties

(* When `run` begins its child: the words behind the bindings are the command.        *)
LEMMA RunAccepts ==
    ASSUME NEW words \in Seq(Word), NEW n \in 1..(Len(words) - 1),
           \A i \in 1..n : IsBinding(words[i]), ~IsBinding(words[n + 1]),
           words[n + 1].value.kind # "empty",
           Bindings(SubSeq(words, 1, n)) # Refused
    PROVE  RunRequest(words) = [bindings |-> Bindings(SubSeq(words, 1, n)),
                                command |-> SubSeq(words, n + 1, Len(words))]
<1> DEFINE command == SubSeq(words, n + 1, Len(words))
<1>1. Len(words) \in Nat /\ n \in 0..Len(words) /\ n + 1 \in 1..Len(words) /\ (n + 1) - 1 = n
      /\ n + 1 # 1 /\ 1 \in 1..(Len(words) - n)
  OBVIOUS
<1>2. CommandIndex(words) = n + 1
  <2> DEFINE k == n + 1
  <2>1. k \in 1..Len(words) /\ ~IsBinding(words[k]) /\ \A i \in 1..(k - 1) : IsBinding(words[i])
    BY <1>1
  <2> HIDE DEF k
  <2>2. CommandIndex(words) = k
    BY <2>1, CommandIndexIs
  <2> QED BY <2>2 DEF k
<1>3. command # <<>> /\ command[1] = words[n + 1]
  <2>1. Len(command) = Len(words) - n /\ command[1] = words[n + 1]
    BY <1>1, PrefixFacts
  <2> HIDE DEF command
  <2> QED BY <1>1, <2>1
<1>4. SubSeq(words, 1, (n + 1) - 1) = SubSeq(words, 1, n)
  BY <1>1
<1> HIDE DEF command
<1>5. RunRequest(words) = [bindings |-> Bindings(SubSeq(words, 1, n)), command |-> command]
  BY <1>1, <1>2, <1>3, <1>4 DEF RunRequest, command
<1> QED BY <1>5 DEF command

LEMMA RunRefusesOrReads ==
    ASSUME NEW words \in Seq(Word), RunRequest(words).bindings # Refused
    PROVE  \E n \in 1..(Len(words) - 1) :
             /\ \A i \in 1..n : IsBinding(words[i])
             /\ ~IsBinding(words[n + 1]) /\ words[n + 1].value.kind # "empty"
             /\ Bindings(SubSeq(words, 1, n)) # Refused
<1> DEFINE k == CommandIndex(words)
           command == SubSeq(words, k, Len(words))
           bound == Bindings(SubSeq(words, 1, k - 1))
<1>1. ~(k = 1 \/ command = <<>> \/ command[1].value.kind = "empty" \/ bound = Refused)
  BY DEF RunRequest
<1>2. k \in 1..(Len(words) + 1) /\ \A i \in 1..(k - 1) : IsBinding(words[i])
      /\ (k <= Len(words) => ~IsBinding(words[k]))
  BY CommandIndexFacts
<1> HIDE DEF k
<1>3. Len(words) \in Nat /\ k - 1 \in 0..Len(words) /\ (k - 1) + 1 = k
  BY <1>2
<1>4. Len(command) = Len(words) - (k - 1)
      /\ \A i \in 1..(Len(words) - (k - 1)) : command[i] = words[(k - 1) + i]
  <2> DEFINE n == k - 1
  <2>1. n \in 0..Len(words) /\ n + 1 = k
    BY <1>3
  <2> HIDE DEF n
  <2>2. Len(SubSeq(words, n + 1, Len(words))) = Len(words) - n
        /\ \A i \in 1..(Len(words) - n) : SubSeq(words, n + 1, Len(words))[i] = words[n + i]
    BY <2>1, PrefixFacts
  <2> QED BY <2>1, <2>2 DEF n
<1>5. k # Len(words) + 1
  <2>1. k = Len(words) + 1 => command = <<>>
    <3>1. k = Len(words) + 1 => Len(words) < k /\ k \in Int /\ Len(words) \in Int
      BY <1>3
    <3> QED BY <3>1, SubSeqEmpty
  <2> QED BY <1>1, <2>1
<1>6. command[1] = words[k]
  <2>1. 1 \in 1..(Len(words) - (k - 1)) /\ (k - 1) + 1 = k
    BY <1>2, <1>3, <1>5
  <2>2. command[1] = words[(k - 1) + 1]
    BY <1>4, <2>1
  <2> QED BY <2>1, <2>2
<1> HIDE DEF command, bound
<1>7. k - 1 \in 1..(Len(words) - 1) /\ k <= Len(words)
  BY <1>1, <1>2, <1>3, <1>5
<1>8. words[k].value.kind # "empty" /\ ~IsBinding(words[k]) /\ bound # Refused
  BY <1>1, <1>2, <1>6, <1>7
<1> DEFINE n == k - 1
<1>9. n \in 1..(Len(words) - 1) /\ n + 1 = k
  BY <1>3, <1>7
<1>10. \A i \in 1..n : IsBinding(words[i])
  BY <1>2
<1>11. Bindings(SubSeq(words, 1, n)) # Refused
  BY <1>8 DEF bound
<1> HIDE DEF n
<1> QED BY <1>8, <1>9, <1>10, <1>11

(* Words written out, and what follows them: each is where it was.                    *)
LEMMA JoinedFacts ==
    ASSUME NEW e \in Seq(Word), NEW c \in Seq(Word)
    PROVE  /\ e \o c \in Seq(Word) /\ Len(e \o c) = Len(e) + Len(c)
           /\ \A i \in 1..Len(e) : (e \o c)[i] = e[i]
           /\ \A i \in 1..Len(c) : (e \o c)[Len(e) + i] = c[i]
           /\ SubSeq(e \o c, 1, Len(e)) = e
           /\ SubSeq(e \o c, Len(e) + 1, Len(e \o c)) = c
<1> DEFINE j == e \o c
           n == Len(e)
           m == Len(c)
<1>1. /\ j \in Seq(Word) /\ Len(j) = n + m /\ n \in Nat /\ m \in Nat
      /\ \A i \in 1..n : j[i] = e[i]
      /\ \A i \in 1..m : j[n + i] = c[i]
  OBVIOUS
<1>2. n \in 0..Len(j) /\ Len(j) - n = m
  BY <1>1
<1>3. SubSeq(j, 1, n) \in Seq(Word) /\ Len(SubSeq(j, 1, n)) = n
      /\ (\A i \in 1..n : SubSeq(j, 1, n)[i] = j[i])
      /\ SubSeq(j, n + 1, Len(j)) \in Seq(Word) /\ Len(SubSeq(j, n + 1, Len(j))) = m
      /\ (\A i \in 1..m : SubSeq(j, n + 1, Len(j))[i] = j[n + i])
  <2> HIDE DEF j, n, m
  <2> QED BY <1>1, <1>2, PrefixFacts
<1>4. SubSeq(j, 1, n) = e
  <2> DEFINE s == SubSeq(j, 1, n)
  <2>1. s \in Seq(Word) /\ Len(s) = Len(e) /\ \A i \in 1..Len(e) : s[i] = e[i]
    BY <1>1, <1>3
  <2> HIDE DEF s
  <2>2. s = e
    BY <2>1
  <2> QED BY <2>2 DEF s
<1>5. SubSeq(j, n + 1, Len(j)) = c
  <2> DEFINE s == SubSeq(j, n + 1, Len(j))
  <2>1. s \in Seq(Word) /\ Len(s) = Len(c) /\ \A i \in 1..Len(c) : s[i] = c[i]
    BY <1>1, <1>3
  <2> HIDE DEF s
  <2>2. s = c
    BY <2>1
  <2> QED BY <2>2 DEF s
<1> HIDE DEF j, n, m
<1> QED BY <1>1, <1>4, <1>5 DEF j, n, m

LEMMA SetSaysTheSame ==
    ASSUME NEW words \in Seq(Word), NEW as \in Valid \cup {Odd, None},
           SetRequest(words, as) # Refused
    PROVE  LET e == Explicit(words, SetRequest(words, as))
           IN  /\ e \in Seq(Word) /\ Len(e) = Len(words)
               /\ \A i \in 1..Len(words) : Bindable(e[i]) /\ IsBinding(e[i])
               /\ Bindings(e) = SetRequest(words, as)
               /\ SetRequest(e, None) = SetRequest(words, as)
<1> DEFINE bound == SetRequest(words, as)
           e == Explicit(words, bound)
<1>1. /\ words # <<>> /\ bound = [i \in 1..Len(words) |-> bound[i]]
      /\ \A i \in 1..Len(words) : WellFormed(words[i].value) /\ bound[i][1] \in Valid
                                    /\ bound[i] = <<bound[i][1], words[i].value>>
      /\ \A i, j \in 1..Len(words) : bound[i][1] = bound[j][1] => i = j
  BY SetReadsOnce
<1> HIDE DEF bound
<1>2. /\ e \in Seq(Word) /\ Len(e) = Len(words)
      /\ \A i \in 1..Len(words) : Bindable(e[i]) /\ IsBinding(e[i])
      /\ Bindings(e) = bound /\ bound # <<>>
  BY <1>1, ExplicitBindings
<1>3. e # <<>>
  <2>1. Len(words) # 0
    BY <1>1
  <2> HIDE DEF e
  <2> QED BY <1>2, <2>1
<1>4. SetRequest(e, None) = bound
  BY <1>2, <1>3 DEF SetRequest
<1> QED BY <1>2, <1>4 DEF bound

(* Whatever the words are, and however many: `set` and `run` read each of them once,  *)
(* as ReadOnce says (_parse_bindings, _parse_set_bindings, _parse_run_arguments).     *)
THEOREM WordsAreReadOnce ==
    ASSUME NEW words \in Seq(Word), NEW as \in Valid \cup {Odd, None}
    PROVE  ReadOnce(words, as)
<1> DEFINE asSet == SetRequest(words, as)
           asRun == RunRequest(words)
<1>1. ASSUME asSet # Refused
      PROVE  /\ Len(asSet) = Len(words)
             /\ Cardinality({asSet[i][1] : i \in DOMAIN asSet}) = Len(words)
             /\ SetRequest(Explicit(words, asSet), None) = asSet
             /\ \A i \in DOMAIN words :
                  asSet[i][1] \in Sensitive => words[i].name # None \/ as # None
  <2>1. /\ Len(asSet) = Len(words) /\ DOMAIN asSet = 1..Len(words)
        /\ \A i \in 1..Len(words) :
             asSet[i][1] \in Sensitive => words[i].name # None \/ as # None
        /\ \A i, j \in 1..Len(words) : asSet[i][1] = asSet[j][1] => i = j
    BY <1>1, SetReadsOnce
  <2>2. SetRequest(Explicit(words, asSet), None) = asSet
    BY <1>1, SetSaysTheSame
  <2> HIDE DEF asSet
  <2>3. Cardinality({asSet[i][1] : i \in DOMAIN asSet}) = Len(words)
    <3> DEFINE S == 1..Len(words)
               N == {asSet[i][1] : i \in S}
               f == [i \in S |-> asSet[i][1]]
    <3>1. f \in Bijection(S, N)
      BY <2>1 DEF Bijection, Injection, Surjection, IsInjective
    <3>2. IsFiniteSet(S) /\ Cardinality(S) = Len(words)
      <4>1. Len(words) \in Nat
        OBVIOUS
      <4> QED BY <4>1, FS_Interval
    <3> HIDE DEF S, N, f
    <3>3. Cardinality(N) = Len(words)
      BY <3>1, <3>2, FS_Bijection DEF ExistsBijection
    <3> QED BY <2>1, <3>3 DEF N, S
  <2>4. DOMAIN words = 1..Len(words)
    OBVIOUS
  <2> QED BY <2>1, <2>2, <2>3, <2>4
<1>2. ASSUME asRun.bindings # Refused
      PROVE  LET n == Len(asRun.bindings)
             IN  /\ asRun.bindings = SetRequest(SubSeq(words, 1, n), None)
                 /\ asRun.command = SubSeq(words, n + 1, Len(words))
                 /\ asRun.command # <<>> /\ ~IsBinding(asRun.command[1])
                 /\ RunRequest(Explicit(SubSeq(words, 1, n), asRun.bindings)
                                 \o asRun.command) = asRun
  <2>1. PICK n \in 1..(Len(words) - 1) :
             /\ \A i \in 1..n : IsBinding(words[i])
             /\ ~IsBinding(words[n + 1]) /\ words[n + 1].value.kind # "empty"
             /\ Bindings(SubSeq(words, 1, n)) # Refused
    BY <1>2, RunRefusesOrReads
  <2> DEFINE first == SubSeq(words, 1, n)
             c == SubSeq(words, n + 1, Len(words))
             bound == Bindings(first)
             e == Explicit(first, bound)
  <2>2. asRun = [bindings |-> bound, command |-> c]
    BY <2>1, RunAccepts
  <2>3. n \in 0..Len(words) /\ n \in Nat \ {0} /\ Len(words) - n \in Nat \ {0}
    <3>1. Len(words) \in Nat
      OBVIOUS
    <3> QED BY <3>1
  <2>4. /\ first \in Seq(Word) /\ Len(first) = n /\ c \in Seq(Word) /\ Len(c) = Len(words) - n
        /\ 1 \in 1..Len(c) /\ c[1] = words[n + 1]
    <3>1. 1 \in 1..(Len(words) - n)
      BY <2>3
    <3> QED BY <2>3, <3>1, PrefixFacts
  <2> HIDE DEF first, c, asRun
  <2>5. first # <<>> /\ c # <<>> /\ bound # Refused
    BY <2>1, <2>3, <2>4 DEF first
  <2>6. SetRequest(first, None) = bound /\ bound # Refused
    BY <2>5 DEF SetRequest
  <2>7. Len(bound) = n
    BY <2>4, <2>5, BindingsFacts
  <2> HIDE DEF bound
  <2>8. /\ e \in Seq(Word) /\ Len(e) = n
        /\ \A i \in 1..n : IsBinding(e[i])
        /\ Bindings(e) = bound
    BY <2>4, <2>6, SetSaysTheSame
  <2> HIDE DEF e
  <2> DEFINE j == e \o c
  <2>9. /\ j \in Seq(Word) /\ Len(j) = n + Len(c)
        /\ \A i \in 1..n : j[i] = e[i]
        /\ j[n + 1] = c[1]
        /\ SubSeq(j, 1, n) = e /\ SubSeq(j, n + 1, Len(j)) = c
    <3>1. /\ j \in Seq(Word) /\ Len(j) = Len(e) + Len(c)
          /\ \A i \in 1..Len(e) : j[i] = e[i]
          /\ \A i \in 1..Len(c) : j[Len(e) + i] = c[i]
          /\ SubSeq(j, 1, Len(e)) = e /\ SubSeq(j, Len(e) + 1, Len(j)) = c
      BY <2>4, <2>8, JoinedFacts
    <3> HIDE DEF j
    <3> QED BY <2>4, <2>8, <3>1
  <2> HIDE DEF j
  <2>10. n \in 1..(Len(j) - 1)
    BY <2>3, <2>4, <2>9
  <2>11. RunRequest(j) = [bindings |-> bound, command |-> c]
    BY <2>1, <2>4, <2>6, <2>8, <2>9, <2>10, RunAccepts
  <2>12. ~IsBinding(c[1])
    BY <2>1, <2>4
  <2> QED BY <2>2, <2>5, <2>6, <2>7, <2>11, <2>12 DEF first, c, e, j
<1>3. ASSUME asRun.bindings = Refused, NEW n \in 1..(Len(words) - 1),
             SetRequest(SubSeq(words, 1, n), None) # Refused,
             ~IsBinding(words[n + 1]), words[n + 1].value.kind # "empty"
      PROVE  FALSE
  <2> DEFINE first == SubSeq(words, 1, n)
  <2>1. n \in 0..Len(words)
    <3>1. Len(words) \in Nat
      OBVIOUS
    <3> QED BY <3>1
  <2>2. first \in Seq(Word) /\ Len(first) = n
        /\ \A i \in 1..n : i \in 1..Len(words) /\ first[i] = words[i]
    BY <2>1, PrefixFacts
  <2> HIDE DEF first
  <2>3. /\ SetRequest(first, None) # Refused /\ first # <<>>
        /\ SetRequest(first, None) = Bindings(first)
    <3>1. SetRequest(first, None) # Refused
      BY <1>3 DEF first
    <3> QED BY <3>1 DEF SetRequest
  <2>4. \A i \in 1..n : IsBinding(words[i])
    BY <2>2, <2>3, BindingsFacts, BindableFacts
  <2>5. asRun.bindings = Bindings(first)
    BY <1>3, <2>3, <2>4, RunAccepts DEF first
  <2> QED BY <1>3, <2>3, <2>5
<1> HIDE DEF asSet, asRun
<1>4. asRun.bindings = Refused =>
        \A n \in 1..(Len(words) - 1) :
            \/ SetRequest(SubSeq(words, 1, n), None) = Refused
            \/ IsBinding(words[n + 1]) \/ words[n + 1].value.kind = "empty"
  BY <1>3
<1> QED BY <1>1, <1>2, <1>4 DEF ReadOnce, asSet, asRun

(* The same of the words the command line gives: EveryWordOnce of every run.          *)
THEOREM EveryWordIsReadOnce == Spec => []EveryWordOnce
<1>1. ASSUME NEW w \in WordsGiven PROVE ReadOnce(w[1], w[2])
  <2>1. \A n \in Nat : Lines(n) \subseteq Seq(Word)
    BY DEF Lines
  <2>2. w[1] \in Seq(Word) /\ w[2] \in Valid \cup {Odd, None}
    BY <2>1 DEF WordsGiven
  <2> QED BY <2>2, WordsAreReadOnce
<1> DEFINE I == given = "words" => input \in WordsGiven
<1>2. Init => I
  BY DEF Init
<1>3. I /\ [Next]_<<given, input>> => I'
  BY DEF Next
<1>4. I => EveryWordOnce
  BY <1>1 DEF EveryWordOnce
<1> QED BY <1>2, <1>3, <1>4, PTL DEF Spec

-----------------------------------------------------------------------------
(* Every text of every length. *)
Text == [kind : {"ascii", "wide", "control", "escapes", "surrogate", "before", "behind"},
         chars : Nat, tail : BOOLEAN]

(* The requests of the command line: what is set or referred to is ASCII, a request   *)
(* without a requester gives an empty one, and no other text is empty.                *)
AnyRequest ==
    {r \in [action : {"run", "set"}, outcome : Outcomes, count : Nat, arguments : Nat,
            texts : [Fields -> Text]] :
        /\ \A f \in PerBinding : r.texts[f].kind = "ascii"
        /\ \A f \in Fields : r.texts[f].chars = 0 => f = "requester" /\ r.texts[f] = Ascii(0)}

(* What escaping makes of a text. *)
LEMMA EncodedText ==
    ASSUME NEW t \in Text
    PROVE  /\ Encoded(t) \in Text
           /\ ~Escaped(Encoded(t))
           /\ t.chars > 0 => Encoded(t).chars > 0
           /\ t.kind = "ascii" => Encoded(t).kind = "ascii"
<1>1. CASE Escaped(t)
  <2> DEFINE n == 6 * EscapesPer(t.kind) * t.chars
  <2>1. Encoded(t) = [kind |-> "escapes", chars |-> n, tail |-> t.tail]
    BY <1>1 DEF Encoded, Text
  <2>2. n \in Nat /\ (t.chars > 0 => n > 0) /\ t.tail \in BOOLEAN
    BY DEF Text, EscapesPer
  <2> HIDE DEF n
  <2> QED BY <1>1, <2>1, <2>2 DEF Escaped, Text
<1>2. CASE ~Escaped(t)
  BY <1>2 DEF Encoded, Escaped, Text
<1> QED BY <1>1, <1>2

(* A cut text keeps its bound, and still has a character. *)
LEMMA CutText ==
    ASSUME NEW t \in Text, NEW max \in 128..512
    PROVE  /\ CutTo(t, max) \in Text
           /\ CutTo(t, max).kind = t.kind
           /\ Utf8(CutTo(t, max)) \in 1..max
<1> DEFINE n == (max - MarkerBytes) \div Width(t.kind)
<1>1. n \in Nat /\ n * Width(t.kind) + 3 \in 1..max
  <2>1. CASE t.kind = "wide"
    <3>1. (max - 3) \div 3 \in Nat /\ ((max - 3) \div 3) * 3 <= max - 3
      OBVIOUS
    <3> QED BY <2>1, <3>1 DEF Width, MarkerBytes
  <2>2. CASE t.kind # "wide"
    <3>1. (max - 3) \div 1 = max - 3
      OBVIOUS
    <3> QED BY <2>2, <3>1 DEF Width, MarkerBytes
  <2> QED BY <2>1, <2>2
<1>2. CutTo(t, max) = [kind |-> t.kind, chars |-> n, tail |-> TRUE]
  BY DEF CutTo
<1>3. CutTo(t, max) \in Text
  BY <1>1, <1>2 DEF Text
<1>4. Utf8(CutTo(t, max)) = n * Width(t.kind) + 3
  BY <1>2 DEF Utf8, MarkerBytes
<1> QED BY <1>1, <1>2, <1>3, <1>4

(* JSON makes a text six times as long at most, and leaves ASCII alone. *)
LEMMA JsonText ==
    ASSUME NEW t \in Text, NEW max \in 128..512, Utf8(t) \in 1..max
    PROVE  /\ JsonBytes(t) \in 0..(6 * max)
           /\ t.kind = "ascii" => JsonBytes(t) \in 0..max
<1>1. t.chars \in Nat /\ t.chars <= Utf8(t)
  BY DEF Text, Utf8, Width, MarkerBytes
<1>2. CASE t.kind = "control"
  <2>1. JsonBytes(t) = Utf8(t) + 5 * t.chars
    BY <1>2 DEF JsonBytes
  <2> QED BY <1>1, <1>2, <2>1
<1>3. CASE t.kind = "escapes"
  <2>1. JsonBytes(t) = Utf8(t) + (t.chars + 5) \div 6
    BY <1>3 DEF JsonBytes
  <2>2. (t.chars + 5) \div 6 \in 0..(t.chars + 5)
    BY <1>1
  <2> QED BY <1>1, <1>3, <2>1, <2>2
<1>4. CASE t.kind \notin {"control", "escapes"}
  <2>1. JsonBytes(t) = Utf8(t) + 0
    BY <1>4 DEF JsonBytes
  <2> QED BY <2>1
<1> QED BY <1>2, <1>3, <1>4

(* So of a text of any length (_bounded_text). *)
LEMMA BoundedText ==
    ASSUME NEW t \in Text, t.chars > 0, NEW max \in 128..512
    PROVE  /\ Fits(Bounded(t, max), max)
           /\ JsonBytes(Bounded(t, max)) \in 0..(6 * max)
           /\ t.kind = "ascii" => JsonBytes(Bounded(t, max)) \in 0..max
<1> DEFINE b == Bounded(t, max)
           e == Encoded(t)
<1>1. /\ e \in Text /\ e.chars > 0
      /\ t.kind = "ascii" => e.kind = "ascii"
  BY EncodedText
<1>2. b \in Text /\ b.kind = e.kind /\ Utf8(b) \in 1..max
  <2>1. CASE TooLong(t, max)
    <3> HIDE DEF e
    <3>1. b = CutTo(e, max)
      BY <2>1 DEF Bounded, e
    <3> QED BY <1>1, <3>1, CutText
  <2>2. CASE ~TooLong(t, max)
    <3>1. b = e /\ ~(Utf8(e) > max)
      BY <2>2 DEF Bounded, TooLong
    <3> HIDE DEF e, b
    <3>2. Utf8(e) \in Nat \ {0}
      BY <1>1 DEF Text, Utf8, Width, MarkerBytes
    <3> QED BY <1>1, <3>1, <3>2
  <2> QED BY <2>1, <2>2
<1> HIDE DEF b, e
<1>3. JsonBytes(b) \in 0..(6 * max) /\ (b.kind = "ascii" => JsonBytes(b) \in 0..max)
  BY <1>1, <1>2, JsonText
<1> QED BY <1>1, <1>2, <1>3 DEF Fits, b

(* The fields a record stores hold a text, and each has a bound. *)
LEMMA StoredFields ==
    ASSUME NEW r \in AnyRequest
    PROVE  /\ Fields \ {"requester"} \subseteq Stored(r) /\ Stored(r) \subseteq Fields
           /\ \A f \in Stored(r) : r.texts[f] \in Text /\ r.texts[f].chars > 0
           /\ \A f \in Fields : MaxBytesOf[f] \in 128..512
<1>1. r.texts \in [Fields -> Text] /\ \A f \in Fields : r.texts[f].chars = 0 => f = "requester"
  BY DEF AnyRequest
<1>2. \A f \in Fields : r.texts[f] \in Text
  BY <1>1
<1>3. \A f \in Fields : r.texts[f].chars \in Nat
  BY <1>2 DEF Text
<1>4. \A f \in Fields : MaxBytesOf[f] \in 128..512
  BY DEF MaxBytesOf, Fields, PerBinding
<1> QED BY <1>1, <1>2, <1>3, <1>4 DEF Stored

(* The bindings that are kept, and those that are only counted. *)
LEMMA KeptBindings ==
    ASSUME NEW count \in Nat \ {0}
    PROVE  /\ Min({count, MAX_STORED_BINDINGS}) \in 1..MAX_STORED_BINDINGS
           /\ Min({count, MAX_STORED_BINDINGS}) <= count
<1> DEFINE two == {count, MAX_STORED_BINDINGS}
<1>1. \E x \in two : \A y \in two : x =< y
  <2>1. CASE count <= 8
    BY <2>1 DEF MAX_STORED_BINDINGS
  <2>2. CASE ~(count <= 8)
    BY <2>2 DEF MAX_STORED_BINDINGS
  <2> QED BY <2>1, <2>2
<1>2. Min(two) \in two /\ \A y \in two : Min(two) =< y
  <2> HIDE DEF two
  <2> QED BY <1>1 DEF Min
<1>3. \A m \in two : (\A y \in two : m =< y) => m \in 1..8 /\ m <= count
  BY DEF MAX_STORED_BINDINGS
<1> QED BY <1>2, <1>3 DEF MAX_STORED_BINDINGS

(* The sum over the fields, of values that are bounded. *)
LEMMA TotalBounded ==
    ASSUME NEW bytes, NEW max, \A f \in Fields : max[f] \in Nat /\ bytes[f] \in 0..max[f]
    PROVE  Total(bytes) \in 0..Total(max)
<1>1. /\ "reference" \in Fields /\ "variable" \in Fields /\ "destination" \in Fields
      /\ "directory" \in Fields /\ "requester" \in Fields
  BY DEF Fields, PerBinding
<1> DEFINE v(t) == t["reference"]
           w(t) == t["variable"]
           x(t) == t["destination"]
           y(t) == t["directory"]
           z(t) == t["requester"]
<1>2. \A t : Total(t) = v(t) + w(t) + x(t) + y(t) + z(t)
  BY DEF Total
<1>3. /\ v(max) \in Nat /\ w(max) \in Nat /\ x(max) \in Nat /\ y(max) \in Nat
      /\ z(max) \in Nat
  BY <1>1
<1>4. /\ v(bytes) \in 0..v(max) /\ w(bytes) \in 0..w(max) /\ x(bytes) \in 0..x(max)
      /\ y(bytes) \in 0..y(max) /\ z(bytes) \in 0..z(max)
  BY <1>1
<1> HIDE DEF v, w, x, y, z
<1> QED BY <1>2, <1>3, <1>4

(* The largest line: a binding's texts are ASCII and there are eight of them; JSON    *)
(* makes another text six times as long.                                              *)
MaxJsonOf ==
    [f \in Fields |-> IF f \in PerBinding THEN 8 * MaxBytesOf[f] ELSE 6 * MaxBytesOf[f]]
MaxNamesOf == [f \in Fields |-> IF f \in PerBinding THEN 200 ELSE 25]

LEMMA LargestLine == Total(MaxJsonOf) = 9984 /\ Total(MaxNamesOf) = 475
<1>1. Total(MaxNamesOf) = 200 + 200 + 25 + 25 + 25
  BY DEF Total, MaxNamesOf, Fields, PerBinding
<1>2. Total(MaxJsonOf) = 8 * 256 + 8 * 128 + 6 * 512 + 6 * 512 + 6 * 128
  BY DEF Total, MaxJsonOf, Fields, PerBinding, MaxBytesOf
<1> QED BY <1>1, <1>2

LEMMA Multiplied ==
    ASSUME NEW k \in Nat, NEW n \in Nat, k <= n, NEW x \in Nat, NEW max \in Nat, x <= max
    PROVE  k * x \in 0..(n * max)
<1>1. k * x \in Nat /\ k * x <= n * x
  BY SMT
<1>2. n * x <= n * max
  BY SMT
<1>3. n * max \in Nat /\ n * x \in Nat
  OBVIOUS
<1> QED BY <1>1, <1>2, <1>3

(* What the reader makes of a record built: every bound of SPEC.md 5.7 is kept, and   *)
(* the worst line, eight bindings with three texts of control characters, is shorter  *)
(* than a record may be.                                                              *)
THEOREM RecordsAreReadable == \A r \in AnyRequest : Countable(r) => Accepted(Record(r))
<1> SUFFICES ASSUME NEW r \in AnyRequest, Countable(r) PROVE Accepted(Record(r))
  OBVIOUS
<1> DEFINE kept == Min({r.count, MAX_STORED_BINDINGS})
           texts == [f \in Stored(r) |-> Bounded(r.texts[f], MaxBytesOf[f])]
           escaped == {f \in Stored(r) : Escaped(r.texts[f])}
           e == Record(r)
<1>1. /\ e.action = r.action /\ e.decision = r.outcome[1] /\ e.reason = r.outcome[2]
      /\ e.binding_count = r.count /\ e.stored = kept /\ e.omitted = r.count - kept
      /\ e.arguments = r.arguments /\ e.texts = texts
      /\ e.truncated = Truncated(r) /\ e.escaped = escaped
  BY DEF Record
<1>2. r.count \in 1..MAX_BINDING_COUNT /\ r.arguments \in 0..MAX_ARGUMENT_COUNT
  BY DEF Countable
<1>3. kept \in 1..MAX_STORED_BINDINGS /\ kept <= r.count
  <2>1. MAX_BINDING_COUNT \in Nat
    BY DEF MAX_BINDING_COUNT
  <2>2. r.count \in Nat \ {0}
    BY <1>2, <2>1
  <2> QED BY <2>2, KeptBindings
<1>4. DOMAIN texts = Stored(r) /\ Fields \ {"requester"} \subseteq Stored(r)
      /\ Stored(r) \subseteq Fields
  BY StoredFields
<1>5. \A f \in Stored(r) : texts[f] = Bounded(r.texts[f], MaxBytesOf[f])
  OBVIOUS
<1>6. Truncated(r) \subseteq Fields /\ escaped \subseteq Fields
  BY <1>4 DEF Truncated
<1>7. \A f \in Stored(r) :
        /\ Fits(texts[f], MaxBytesOf[f])
        /\ JsonBytes(texts[f]) \in 0..(6 * MaxBytesOf[f])
        /\ f \in PerBinding => JsonBytes(texts[f]) \in 0..MaxBytesOf[f]
  <2> TAKE f \in Stored(r)
  <2>1. r.texts[f] \in Text /\ r.texts[f].chars > 0 /\ MaxBytesOf[f] \in 128..512
    BY StoredFields
  <2>2. f \in PerBinding => r.texts[f].kind = "ascii"
    BY DEF AnyRequest
  <2> QED BY <2>1, <2>2, <1>5, BoundedText
<1> HIDE DEF kept, texts, escaped, e
<1>8. e.action \in {"run", "set"} /\ e.reason \in ReasonsOf(e.decision)
  <2>1. r.action \in {"run", "set"} /\ r.outcome \in Outcomes
    BY DEF AnyRequest
  <2>2. r.outcome[2] \in ReasonsOf(r.outcome[1])
    BY <2>1 DEF Outcomes, ReasonsOf
  <2> QED BY <1>1, <2>1, <2>2
<1>9. LineBytes(e) <= MAX_RECORD_BYTES
  <2> DEFINE times(f) == IF f \in PerBinding THEN e.stored ELSE 1
             bytes == [f \in Fields |->
                         IF f \in DOMAIN e.texts THEN times(f) * JsonBytes(e.texts[f]) ELSE 0]
             names(S) == [f \in Fields |-> IF f \in S THEN times(f) * 25 ELSE 0]
  <2>1. e.stored \in 1..8
    BY <1>1, <1>3 DEF MAX_STORED_BINDINGS
  <2>2. \A f \in Fields : times(f) \in 1..8 /\ (f \notin PerBinding => times(f) = 1)
    BY <2>1
  <2>3. ASSUME NEW f \in PerBinding
        PROVE  bytes[f] \in 0..(8 * MaxBytesOf[f])
    <3>1. f \in Stored(r) /\ f \in Fields
      BY <1>4 DEF Fields, PerBinding
    <3>2. JsonBytes(e.texts[f]) \in 0..MaxBytesOf[f] /\ MaxBytesOf[f] \in 128..512
      BY <1>1, <1>7, <3>1, StoredFields
    <3>3. bytes[f] = e.stored * JsonBytes(e.texts[f])
      BY <1>1, <1>4, <3>1
    <3> HIDE DEF bytes
    <3> QED BY <2>1, <3>2, <3>3, Multiplied
  <2>4. ASSUME NEW f \in Fields \ PerBinding
        PROVE  bytes[f] \in 0..(6 * MaxBytesOf[f])
    <3>1. MaxBytesOf[f] \in 128..512
      BY StoredFields
    <3>2. CASE f \in Stored(r)
      <4>1. JsonBytes(e.texts[f]) \in 0..(6 * MaxBytesOf[f])
        BY <1>1, <1>7, <3>2
      <4>2. bytes[f] = 1 * JsonBytes(e.texts[f])
        BY <1>1, <1>4, <3>2
      <4> HIDE DEF bytes
      <4> QED BY <3>1, <4>1, <4>2
    <3>3. CASE f \notin Stored(r)
      <4>1. bytes[f] = 0
        BY <1>1, <1>4, <3>3
      <4> HIDE DEF bytes
      <4> QED BY <3>1, <4>1
    <3> QED BY <3>2, <3>3
  <2>5. ASSUME NEW S, NEW f \in Fields
        PROVE  names(S)[f] \in 0..MaxNamesOf[f] /\ MaxNamesOf[f] \in Nat
    BY <2>1, <2>2 DEF MaxNamesOf
  <2>6. LineBytes(e) = 340 + 31 * e.stored + 3 * 7
                         + Total(bytes) + Total(names(e.truncated)) + Total(names(e.escaped))
    BY DEF LineBytes
  <2> HIDE DEF bytes, names
  <2>7. Total(bytes) \in 0..Total(MaxJsonOf)
    <3>1. ASSUME NEW f \in Fields
          PROVE  MaxJsonOf[f] \in Nat /\ bytes[f] \in 0..MaxJsonOf[f]
      <4>1. MaxBytesOf[f] \in 128..512
        BY StoredFields
      <4>2. MaxJsonOf[f] = IF f \in PerBinding THEN 8 * MaxBytesOf[f] ELSE 6 * MaxBytesOf[f]
        BY DEF MaxJsonOf
      <4> QED BY <2>3, <2>4, <4>1, <4>2
    <3> QED BY <3>1, TotalBounded
  <2>8. ASSUME NEW S PROVE Total(names(S)) \in 0..Total(MaxNamesOf)
    BY <2>5, TotalBounded
  <2>9. MAX_RECORD_BYTES = 16384
    BY DEF MAX_RECORD_BYTES
  <2>10. Total(names(e.truncated)) \in 0..475 /\ Total(names(e.escaped)) \in 0..475
    BY <2>8, LargestLine
  <2>11. Total(bytes) \in 0..9984
    BY <2>7, LargestLine
  <2> DEFINE t == Total(bytes)
             m == Total(names(e.truncated))
             n == Total(names(e.escaped))
             k == e.stored
  <2> HIDE DEF t, m, n, k
  <2>12. LineBytes(e) = 340 + 31 * k + 3 * 7 + t + m + n
    BY <2>6 DEF t, m, n, k
  <2>13. k \in 1..8 /\ t \in 0..9984 /\ m \in 0..475 /\ n \in 0..475
    BY <2>1, <2>10, <2>11 DEF t, m, n, k
  <2> QED BY <2>9, <2>12, <2>13
<1>10. /\ e.binding_count \in 1..MAX_BINDING_COUNT
       /\ e.omitted \in 0..MAX_BINDING_COUNT
       /\ e.stored \in 1..MAX_STORED_BINDINGS
       /\ e.binding_count = e.stored + e.omitted
       /\ e.arguments \in 0..MAX_ARGUMENT_COUNT
  <2>1. MAX_BINDING_COUNT \in Nat /\ MAX_STORED_BINDINGS = 8
    BY DEF MAX_BINDING_COUNT, MAX_STORED_BINDINGS
  <2>2. r.count - kept \in 0..MAX_BINDING_COUNT /\ r.count = kept + (r.count - kept)
    BY <1>2, <1>3, <2>1
  <2> QED BY <1>1, <1>2, <1>3, <2>2
<1>11. \A f \in DOMAIN e.texts : Fits(e.texts[f], MaxBytesOf[f])
  BY <1>1, <1>4, <1>7
<1>12. Fields \ {"requester"} \subseteq DOMAIN e.texts
  BY <1>1, <1>4
<1> QED BY <1>1, <1>6, <1>8, <1>9, <1>10, <1>11, <1>12 DEF Accepted, e

(* A text named neither as cut nor as escaped can be told from every other one of     *)
(* those kinds, of any length, also from one that looks like it once it is escaped or *)
(* cut; one named as escaped, from all that escaping does not make the same text.     *)
THEOREM UncutTextsAreTold ==
    ASSUME NEW r \in AnyRequest, NEW s \in AnyRequest, Record(s) = Record(r),
           NEW f \in Fields \ Record(r).truncated
    PROVE  Told(s.texts[f], r.texts[f], f \in Record(r).escaped)
<1>1. \A q : /\ Record(q).texts = [g \in Stored(q) |-> Bounded(q.texts[g], MaxBytesOf[g])]
             /\ Record(q).truncated = Truncated(q)
             /\ Record(q).escaped = {g \in Stored(q) : Escaped(q.texts[g])}
  BY DEF Record
<1>2. /\ Stored(s) = Stored(r) /\ Truncated(s) = Truncated(r)
      /\ \A g \in Stored(r) :
           Bounded(s.texts[g], MaxBytesOf[g]) = Bounded(r.texts[g], MaxBytesOf[g])
      /\ \A g \in Stored(r) : Escaped(s.texts[g]) <=> Escaped(r.texts[g])
  <2>1. Stored(s) = DOMAIN Record(s).texts /\ Stored(r) = DOMAIN Record(r).texts
    BY <1>1
  <2>2. \A g \in Stored(r) : Record(r).texts[g] = Bounded(r.texts[g], MaxBytesOf[g])
    BY <1>1
  <2>3. \A g \in Stored(s) : Record(s).texts[g] = Bounded(s.texts[g], MaxBytesOf[g])
    BY <1>1
  <2>4. Stored(s) = Stored(r)
    BY <2>1
  <2>5. \A g \in Stored(r) : Escaped(s.texts[g]) <=> Escaped(r.texts[g])
    BY <1>1, <2>4
  <2> QED BY <1>1, <2>2, <2>3, <2>4, <2>5
<1>3. CASE f \notin Stored(r)
  <2>1. \A q \in AnyRequest : f \notin Stored(q) => q.texts[f] = Ascii(0)
    <3> SUFFICES ASSUME NEW q \in AnyRequest, f \notin Stored(q) PROVE q.texts[f] = Ascii(0)
      OBVIOUS
    <3>1. q.texts[f] \in Text
      BY DEF AnyRequest
    <3>2. q.texts[f].chars = 0
      BY <3>1 DEF Stored, Text
    <3> QED BY <3>2 DEF AnyRequest
  <2> QED BY <1>1, <1>2, <1>3, <2>1 DEF Told
<1>4. CASE f \in Stored(r)
  <2> DEFINE x == s.texts[f]
             y == r.texts[f]
  <2>1. x \in Text /\ y \in Text
    BY DEF AnyRequest
  <2>2. ~TooLong(x, MaxBytesOf[f]) /\ ~TooLong(y, MaxBytesOf[f])
    BY <1>1, <1>2, <1>4 DEF Truncated
  <2>3. Encoded(x) = Encoded(y) /\ (Escaped(x) <=> Escaped(y))
    BY <1>2, <1>4, <2>2 DEF Bounded
  <2>4. f \in Record(r).escaped <=> Escaped(y)
    BY <1>1, <1>4
  <2> HIDE DEF x, y
  <2>5. CASE Escaped(x)
    BY <2>3, <2>4, <2>5 DEF Told, x, y
  <2>6. CASE ~Escaped(x)
    BY <2>3, <2>4, <2>6 DEF Encoded, Told, x, y
  <2> QED BY <2>5, <2>6
<1> QED BY <1>3, <1>4

(* What the runs give is some of it. *)
LEMMA TextsGiven ==
    ASSUME NEW f \in Fields, NEW t \in TextsOf(f)
    PROVE  /\ t \in Text
           /\ f \in PerBinding => t.kind = "ascii"
           /\ t.chars = 0 => f = "requester" /\ t = Ascii(0)
<1>1. Lengths(f) \subseteq Nat \ {0}
  <2>1. MaxBytesOf[f] \in 128..512
    BY DEF MaxBytesOf, Fields, PerBinding
  <2> QED BY <2>1 DEF Lengths
<1>2. \A n \in Nat : /\ Ascii(n) \in Text /\ Ascii(n).kind = "ascii" /\ Ascii(n).chars = n
  BY DEF Ascii, Text
<1>3. CASE f \in PerBinding
  <2>1. PICK n \in Lengths(f) : t = Ascii(n)
    BY <1>3 DEF TextsOf
  <2> QED BY <1>1, <1>2, <2>1
<1>4. CASE f \notin PerBinding
  <2> DEFINE long == [kind : {"ascii", "wide", "control", "surrogate", "before", "behind"},
                      chars : Lengths(f), tail : BOOLEAN]
             escapes == [kind : {"escapes"}, chars : {6 * n : n \in Lengths(f)}, tail : BOOLEAN]
  <2>1. t \in long \/ t \in escapes \/ (f = "requester" /\ t = Ascii(0))
    BY <1>4 DEF TextsOf
  <2>2. CASE t \in long
    BY <1>1, <1>4, <2>2 DEF Text
  <2>3. CASE t \in escapes
    <3>1. \A n \in Lengths(f) : 6 * n \in Nat \ {0}
      BY <1>1
    <3> QED BY <3>1, <1>4, <2>3 DEF Text
  <2>4. CASE f = "requester" /\ t = Ascii(0)
    BY <1>2, <1>4, <2>4
  <2> QED BY <2>1, <2>2, <2>3, <2>4
<1> QED BY <1>3, <1>4

LEMMA RequestsGiven ==
    ASSUME NEW r \in Requests
    PROVE  /\ r \in AnyRequest
           /\ \A f \in Fields : \A t \in TextsOf(f) : [r EXCEPT !.texts[f] = t] \in AnyRequest
<1> DEFINE Fine(texts) ==
             /\ texts \in [Fields -> Text]
             /\ \A f \in PerBinding : texts[f].kind = "ascii"
             /\ \A f \in Fields : texts[f].chars = 0 => f = "requester" /\ texts[f] = Ascii(0)
<1>0. PerBinding \subseteq Fields
  BY DEF Fields
<1>1. \A b \in Beside : Fine(b)
  <2>1. \A n \in Nat : /\ Ascii(n) \in Text /\ Ascii(n).kind = "ascii" /\ Ascii(n).chars = n
    BY DEF Ascii, Text
  <2>2. Fine([f \in Fields |-> Ascii(1)])
    BY <1>0, <2>1
  <2> DEFINE Long(k) == [f \in Fields |-> IF f \in PerBinding THEN Ascii(2048)
                                          ELSE [kind |-> k, chars |-> 2048, tail |-> FALSE]]
  <2>3. ASSUME NEW k \in {"control", "surrogate"} PROVE Fine(Long(k))
    <3> DEFINE n == 2048
               o == [kind |-> k, chars |-> n, tail |-> FALSE]
               b == [f \in Fields |-> IF f \in PerBinding THEN Ascii(n) ELSE o]
    <3>1. n \in Nat \ {0}
      OBVIOUS
    <3> HIDE DEF n
    <3>2. o \in Text /\ o.chars = n
      BY <3>1 DEF Text
    <3>3. Ascii(n) \in Text /\ Ascii(n).kind = "ascii" /\ Ascii(n).chars = n
      BY <2>1, <3>1
    <3> HIDE DEF o
    <3>4. Fine(b)
      BY <1>0, <3>1, <3>2, <3>3
    <3> QED BY <3>4 DEF o, n
  <2>4. \A b \in Beside : \/ b = [f \in Fields |-> Ascii(1)]
                          \/ \E k \in {"control", "surrogate"} : b = Long(k)
    BY Zenon DEF Beside
  <2> HIDE DEF Fine, Long
  <2> QED BY <2>2, <2>3, <2>4
<1>2. ASSUME NEW texts, Fine(texts), NEW f \in Fields, NEW t \in TextsOf(f)
      PROVE  Fine([texts EXCEPT ![f] = t])
  <2>1. t \in Text /\ (f \in PerBinding => t.kind = "ascii")
        /\ (t.chars = 0 => f = "requester" /\ t = Ascii(0))
    BY TextsGiven
  <2> QED BY <1>0, <1>2, <2>1
<1>3. \A texts \in SomeTexts \cup Beside : Fine(texts)
  <2> SUFFICES ASSUME NEW texts \in SomeTexts PROVE Fine(texts)
    BY <1>1
  <2>1. PICK o \in Beside, f \in Fields : \E t \in TextsOf(f) : texts = [o EXCEPT ![f] = t]
    BY DEF SomeTexts
  <2> QED BY <1>1, <1>2, <2>1
<1> HIDE DEF Fine
<1>4. /\ r = [action |-> r.action, outcome |-> r.outcome, count |-> r.count,
              arguments |-> r.arguments, texts |-> r.texts]
      /\ r.action \in {"run", "set"} /\ r.outcome \in Outcomes /\ r.count \in Nat
      /\ r.arguments \in Nat /\ r.texts \in SomeTexts \cup Beside
  <2>1. Counts \subseteq Nat
    BY DEF Counts, MAX_STORED_BINDINGS, MAX_BINDING_COUNT
  <2>2. {MAX_ARGUMENT_COUNT, 0, MAX_ARGUMENT_COUNT + 1} \subseteq Nat
    BY DEF MAX_ARGUMENT_COUNT
  <2>3. <<"error", "working_directory_unavailable">> \in Outcomes
    BY DEF Outcomes
  <2> QED BY <2>1, <2>2, <2>3 DEF Requests
<1>5. ASSUME NEW texts, Fine(texts) PROVE [r EXCEPT !.texts = texts] \in AnyRequest
  <2>1. [r EXCEPT !.texts = texts]
          = [action |-> r.action, outcome |-> r.outcome, count |-> r.count,
             arguments |-> r.arguments, texts |-> texts]
    BY <1>4
  <2> QED BY <1>4, <1>5, <2>1 DEF AnyRequest, Fine
<1>6. r \in AnyRequest
  <2>1. [r EXCEPT !.texts = r.texts] = r
    BY <1>4
  <2> QED BY <1>3, <1>4, <1>5, <2>1
<1>7. ASSUME NEW f \in Fields, NEW t \in TextsOf(f)
      PROVE  [r EXCEPT !.texts[f] = t] \in AnyRequest
  <2>1. [r EXCEPT !.texts[f] = t] = [r EXCEPT !.texts = [r.texts EXCEPT ![f] = t]]
    BY <1>4
  <2> QED BY <1>2, <1>3, <1>4, <1>5, <2>1
<1> QED BY <1>6, <1>7

(* Every record the command line can ask for is one its own reader accepts:           *)
(* BuiltIsReadable of every run.                                                      *)
THEOREM EveryRecordIsReadable == Spec => []BuiltIsReadable
<1> DEFINE I == given = "request" => input \in Requests
<1>1. Init => I
  BY DEF Init
<1>2. I /\ [Next]_<<given, input>> => I'
  BY DEF Next
<1>3. I => BuiltIsReadable
  BY RequestsGiven, RecordsAreReadable DEF BuiltIsReadable
<1> QED BY <1>1, <1>2, <1>3, PTL DEF Spec

(* And what it does not name as cut was not: CutsAreMarked of every run.              *)
THEOREM EveryCutIsMarked == Spec => []CutsAreMarked
<1> DEFINE I == given = "request" => input \in Requests
<1>1. Init => I
  BY DEF Init
<1>2. I /\ [Next]_<<given, input>> => I'
  BY DEF Next
<1>3. ASSUME NEW r \in Requests, NEW f \in Fields \ Record(r).truncated, NEW t \in TextsOf(f),
             Record([r EXCEPT !.texts[f] = t]) = Record(r)
      PROVE  Told(t, r.texts[f], f \in Record(r).escaped)
  <2> DEFINE s == [r EXCEPT !.texts[f] = t]
  <2>1. r \in AnyRequest /\ s \in AnyRequest
    BY <1>3, RequestsGiven
  <2>2. Told(s.texts[f], r.texts[f], f \in Record(r).escaped)
    BY <1>3, <2>1, UncutTextsAreTold
  <2>3. s.texts = [r.texts EXCEPT ![f] = t] /\ r.texts \in [Fields -> Text]
    BY <2>1 DEF AnyRequest
  <2> QED BY <2>2, <2>3
<1>4. I => CutsAreMarked
  BY <1>3 DEF CutsAreMarked
<1> QED BY <1>1, <1>2, <1>4, PTL DEF Spec

-----------------------------------------------------------------------------
(* How many elements of S are before x in the order R. *)
Ahead(S, R, x) == Cardinality({y \in S : <<y, x>> \in R})

(* In a finite set with a strict total order each element has a place of its own, and *)
(* each place an element.                                                             *)
LEMMA PlacesAreTaken ==
    ASSUME NEW S, IsFiniteSet(S), NEW R,
           \A x, y \in S : x # y => (<<x, y>> \in R <=> <<y, x>> \notin R),
           \A x \in S : <<x, x>> \notin R,
           \A x, y, z \in S : <<x, y>> \in R /\ <<y, z>> \in R => <<x, z>> \in R
    PROVE  /\ \A x \in S : Ahead(S, R, x) \in 0..(Cardinality(S) - 1)
           /\ \A x, y \in S : Ahead(S, R, x) = Ahead(S, R, y) => x = y
           /\ \A k \in 0..(Cardinality(S) - 1) : \E x \in S : Ahead(S, R, x) = k
<1> DEFINE B(x) == {y \in S : <<y, x>> \in R}
           n == Cardinality(S)
<1>1. n \in Nat /\ \A x : IsFiniteSet(B(x)) /\ Cardinality(B(x)) \in Nat
  BY FS_CardinalityType, FS_Subset
<1>2. ASSUME NEW x \in S PROVE Cardinality(B(x)) \in 0..(n - 1)
  <2> DEFINE rest == S \ {x}
  <2>1. IsFiniteSet(rest) /\ Cardinality(rest) = n - 1
    BY FS_RemoveElement
  <2>2. B(x) \in SUBSET rest
    OBVIOUS
  <2> HIDE DEF rest, B, n
  <2>3. Cardinality(B(x)) <= n - 1
    BY <2>1, <2>2, FS_Subset
  <2> QED BY <1>1, <2>3
<1>3. ASSUME NEW x \in S, NEW y \in S, <<x, y>> \in R
      PROVE  Cardinality(B(x)) # Cardinality(B(y))
  <2>1. B(x) \in SUBSET B(y) /\ x \in B(y) /\ x \notin B(x)
    BY <1>3
  <2> HIDE DEF B
  <2> QED BY <1>1, <2>1, FS_Subset
<1>4. \A x, y \in S : Cardinality(B(x)) = Cardinality(B(y)) => x = y
  <2> HIDE DEF B
  <2> QED BY <1>3
<1>5. ASSUME NEW k \in 0..(n - 1), \A x \in S : Cardinality(B(x)) # k
      PROVE  FALSE
  <2> DEFINE f == [x \in S |-> Cardinality(B(x))]
             places == (0..(n - 1)) \ {k}
  <2> HIDE DEF B
  <2>1. f \in [S -> places]
    BY <1>2, <1>5
  <2>2. IsFiniteSet(0..(n - 1)) /\ Cardinality(0..(n - 1)) = n
    <3>1. n > 0
      BY <1>1, <1>5
    <3> QED BY <1>1, <3>1, FS_Interval
  <2>3. IsFiniteSet(places) /\ Cardinality(places) = n - 1
    <3> DEFINE all == 0..(n - 1)
    <3> HIDE DEF all, n
    <3>1. IsFiniteSet(all) /\ Cardinality(all) = n /\ k \in all
      BY <1>5, <2>2 DEF all
    <3>2. IsFiniteSet(all \ {k}) /\ Cardinality(all \ {k}) = n - 1
      BY <3>1, FS_RemoveElement
    <3> QED BY <3>2 DEF all
  <2>4. Cardinality(places) < Cardinality(S)
    BY <1>1, <2>3
  <2>5. \E x, y \in S : x # y /\ f[x] = f[y]
    <3> HIDE DEF f, places
    <3> QED BY <2>1, <2>3, <2>4, FS_PigeonHole
  <2> QED BY <1>4, <2>5
<1> QED BY <1>2, <1>4, <1>5 DEF Ahead

(* Items that search can return: each has a reference, and no two have the same. *)
Selectable(S) ==
    /\ S \subseteq Item /\ IsFiniteSet(S)
    /\ \A a \in S : a.ref # NoText
    /\ \A a, b \in S : a.ref = b.ref => a = b

(* The order of the results. *)
Order == {p \in Item \X Item : Before(p[1], p[2])}

LEMMA BeforeIs ==
    ASSUME NEW a, NEW b
    PROVE  Before(a, b) <=>
             \/ Normalized(a.name) < Normalized(b.name)
             \/ /\ Normalized(a.name) = Normalized(b.name)
                /\ \/ Normalized(a.account) < Normalized(b.account)
                   \/ /\ Normalized(a.account) = Normalized(b.account)
                      /\ a.ref < b.ref
<1> DEFINE s == SortKey(a)
           t == SortKey(b)
<1>1. DOMAIN s = 1..3
  BY DEF SortKey
<1>2. /\ s[1] = Normalized(a.name) /\ s[2] = Normalized(a.account) /\ s[3] = a.ref
      /\ t[1] = Normalized(b.name) /\ t[2] = Normalized(b.account) /\ t[3] = b.ref
  BY DEF SortKey
<1> HIDE DEF s, t
<1>3. Before(a, b) <=> \E i \in 1..3 : s[i] < t[i] /\ \A j \in 1..(i - 1) : s[j] = t[j]
  BY <1>1 DEF Before, s, t
<1>4. Before(a, b) <=> \/ s[1] < t[1]
                       \/ s[1] = t[1] /\ s[2] < t[2]
                       \/ s[1] = t[1] /\ s[2] = t[2] /\ s[3] < t[3]
  <2>1. /\ 1..3 = {1, 2, 3} /\ 1..(1 - 1) = {} /\ 1..(2 - 1) = {1} /\ 1..(3 - 1) = {1, 2}
    OBVIOUS
  <2> QED BY <1>3, <2>1
<1> QED BY <1>2, <1>4

LEMMA OrderIsTotal ==
    ASSUME NEW S, Selectable(S)
    PROVE  /\ \A a, b \in S : a # b => (<<a, b>> \in Order <=> <<b, a>> \notin Order)
           /\ \A a \in S : <<a, a>> \notin Order
           /\ \A a, b, c \in S : <<a, b>> \in Order /\ <<b, c>> \in Order => <<a, c>> \in Order
<1>1. \A a, b \in Item : <<a, b>> \in Order <=> Before(a, b)
  BY DEF Order
<1>2. ASSUME NEW a \in S
      PROVE  /\ Normalized(a.name) \in Int /\ Normalized(a.account) \in Int /\ a.ref \in Int
             /\ a \in Item
  <2>1. \A t \in Texts \cup {NoText} : Normalized(t) \in Int
    BY KeychainSearchAssumption DEF Normalized
  <2>2. a \in Item /\ a.ref # NoText
    BY DEF Selectable
  <2>3. /\ a.name \in Texts \cup {NoText} /\ a.account \in Texts \cup {NoText}
        /\ a.ref \in References
    BY <2>2 DEF Item
  <2>4. a.ref \in Int
    <3>1. \A r \in References : r \in Int
      BY KeychainSearchAssumption
    <3> QED BY <2>3, <3>1, Zenon
  <2> QED BY <2>1, <2>2, <2>3, <2>4
<1>3. ASSUME NEW a \in S, NEW b \in S, a # b PROVE Before(a, b) <=> ~Before(b, a)
  <2>1. a.ref # b.ref
    BY <1>3 DEF Selectable
  <2> QED BY <1>2, <2>1, BeforeIs
<1>4. ASSUME NEW a \in S PROVE ~Before(a, a)
  BY <1>2, BeforeIs
<1>5. ASSUME NEW a \in S, NEW b \in S, NEW c \in S, Before(a, b), Before(b, c)
      PROVE  Before(a, c)
  BY <1>2, <1>5, BeforeIs
<1> QED BY <1>1, <1>2, <1>3, <1>4, <1>5

(* The items a search finds, wherever they are. *)
Found(items, query) == {items[i] : i \in Matching(items, query)}

(* The element at a place of the order, counted from 0. *)
At(S, k) == CHOOSE x \in S : Ahead(S, Order, x) = k

LEMMA FoundFacts ==
    ASSUME NEW items \in Seq(Item), Distinct(items), NEW query
    PROVE  /\ Selectable(Found(items, query))
           /\ IsFiniteSet(Matching(items, query))
           /\ Matching(items, query) \subseteq 1..Len(items)
           /\ Cardinality(Matching(items, query)) = Cardinality(Found(items, query))
           /\ \A i, j \in Matching(items, query) : items[i] = items[j] => i = j
           /\ \A i \in Matching(items, query) : items[i] \in Found(items, query)
<1> DEFINE matching == Matching(items, query)
           found == Found(items, query)
<1>1. /\ Len(items) \in Nat /\ DOMAIN items = 1..Len(items)
      /\ \A i \in 1..Len(items) : items[i] \in Item
  OBVIOUS
<1>2. /\ matching \subseteq 1..Len(items)
      /\ \A i \in matching : items[i] \in Item /\ items[i].ref # NoText
  BY <1>1 DEF Matching, Matches
<1>3. IsFiniteSet(matching)
  <2>1. IsFiniteSet(1..Len(items))
    BY <1>1, FS_Interval
  <2> HIDE DEF matching
  <2> DEFINE all == 1..Len(items)
  <2> HIDE DEF all
  <2>2. IsFiniteSet(all) /\ matching \in SUBSET all
    BY <1>2, <2>1 DEF all
  <2> QED BY <2>2, FS_Subset
<1>4. \A i, j \in matching : items[i].ref = items[j].ref => i = j
  BY <1>1, <1>2 DEF Distinct
<1>5. found = {items[i] : i \in matching}
  BY DEF Found
<1> HIDE DEF matching, found
<1>6. ExistsBijection(matching, found)
  <2> DEFINE f == [i \in matching |-> items[i]]
  <2>1. f \in [matching -> found] /\ \A y \in found : \E i \in matching : f[i] = y
    BY <1>5
  <2>2. \A i, j \in matching : f[i] = f[j] => i = j
    BY <1>4
  <2> HIDE DEF f
  <2>3. f \in Bijection(matching, found)
    BY <2>1, <2>2 DEF Bijection, Injection, Surjection, IsInjective
  <2> QED BY <2>3 DEF ExistsBijection
<1>7. IsFiniteSet(found) /\ Cardinality(found) = Cardinality(matching)
  BY <1>3, <1>6, FS_Bijection
<1>8. Selectable(found)
  BY <1>2, <1>4, <1>5, <1>7 DEF Selectable
<1> QED BY <1>2, <1>3, <1>4, <1>5, <1>7, <1>8 DEF matching, found

LEMMA AheadIs ==
    ASSUME NEW items \in Seq(Item), Distinct(items), NEW query, NEW x \in Found(items, query)
    PROVE  /\ Cardinality({j \in Matching(items, query) : Before(items[j], x)})
                = Ahead(Found(items, query), Order, x)
           /\ Ahead(Found(items, query), Order, x) \in Nat
<1> DEFINE matching == Matching(items, query)
           found == Found(items, query)
           before == {j \in matching : Before(items[j], x)}
           ahead == {y \in found : <<y, x>> \in Order}
<1>1. /\ Selectable(found) /\ IsFiniteSet(matching)
      /\ \A j, k \in matching : items[j] = items[k] => j = k
      /\ \A j \in matching : items[j] \in found
  BY FoundFacts
<1>2. found = {items[j] : j \in matching}
  BY DEF Found
<1> HIDE DEF matching, found
<1>3. x \in found /\ \A a, b \in found : <<a, b>> \in Order <=> Before(a, b)
  BY <1>1 DEF Order, Selectable, found
<1>4. ExistsBijection(before, ahead)
  <2> DEFINE f == [j \in before |-> items[j]]
  <2>1. \A j \in before : j \in matching /\ items[j] \in ahead
    BY <1>1, <1>3
  <2>2. \A y \in ahead : \E j \in before : items[j] = y
    BY <1>2, <1>3
  <2> HIDE DEF before, ahead
  <2>3. f \in [before -> ahead] /\ \A y \in ahead : \E j \in before : f[j] = y
    BY <2>1, <2>2
  <2>4. \A j, k \in before : f[j] = f[k] => j = k
    BY <1>1, <2>1
  <2> HIDE DEF f
  <2>5. f \in Bijection(before, ahead)
    BY <2>3, <2>4 DEF Bijection, Injection, Surjection, IsInjective
  <2> QED BY <2>5 DEF ExistsBijection
<1>5. IsFiniteSet(before)
  <2> HIDE DEF before
  <2>1. before \in SUBSET matching
    BY DEF before
  <2> QED BY <1>1, <2>1, FS_Subset
<1>6. Cardinality(ahead) = Cardinality(before) /\ Cardinality(before) \in Nat
  <2> HIDE DEF before, ahead
  <2> QED BY <1>4, <1>5, FS_Bijection, FS_CardinalityType
<1>7. Ahead(found, Order, x) = Cardinality(ahead)
  BY DEF Ahead
<1> HIDE DEF before, ahead
<1>8. Cardinality(before) = Ahead(found, Order, x) /\ Ahead(found, Order, x) \in Nat
  BY <1>6, <1>7
<1> QED BY <1>8 DEF before, found, matching

(* Where the stable sort puts an item. *)
LEMMA RankIs ==
    ASSUME NEW items \in Seq(Item), Distinct(items), NEW query, NEW i \in Matching(items, query)
    PROVE  Cardinality({j \in Matching(items, query) : Before(items[j], items[i])})
             + Cardinality({j \in Matching(items, query) :
                              j <= i /\ ~Before(items[j], items[i])
                                     /\ ~Before(items[i], items[j])})
             = Ahead(Found(items, query), Order, items[i]) + 1
<1> DEFINE matching == Matching(items, query)
           found == Found(items, query)
           same == {j \in matching : j <= i /\ ~Before(items[j], items[i])
                                     /\ ~Before(items[i], items[j])}
<1>1. /\ Selectable(found)
      /\ \A j, k \in matching : items[j] = items[k] => j = k
      /\ \A j \in matching : items[j] \in found
  BY FoundFacts
<1>2. i \in matching /\ i <= i
  <2>1. i \in 1..Len(items)
    BY FoundFacts
  <2> QED BY <2>1
<1>3. Cardinality({j \in matching : Before(items[j], items[i])})
        = Ahead(found, Order, items[i])
  BY <1>1, AheadIs
<1> HIDE DEF matching, found
<1>4. /\ \A a, b \in found : a # b => (Before(a, b) <=> ~Before(b, a))
      /\ \A a \in found : ~Before(a, a)
  <2>1. \A a, b \in found : <<a, b>> \in Order <=> Before(a, b)
    BY <1>1 DEF Order, Selectable
  <2> QED BY <1>1, <2>1, OrderIsTotal
<1>5. same = {i}
  BY <1>1, <1>2, <1>4
<1> HIDE DEF same
<1>6. Cardinality(same) = 1
  BY <1>5, FS_Singleton
<1> QED BY <1>3, <1>6 DEF same, found, matching

LEMMA OrderedPlaces ==
    ASSUME NEW S, Selectable(S)
    PROVE  /\ \A x \in S : Ahead(S, Order, x) \in 0..(Cardinality(S) - 1)
           /\ \A x, y \in S : Ahead(S, Order, x) = Ahead(S, Order, y) => x = y
           /\ \A k \in 0..(Cardinality(S) - 1) : \E x \in S : Ahead(S, Order, x) = k
<1>1. IsFiniteSet(S)
  BY DEF Selectable
<1>2. /\ \A x, y \in S : x # y => (<<x, y>> \in Order <=> <<y, x>> \notin Order)
      /\ \A x \in S : <<x, x>> \notin Order
      /\ \A x, y, z \in S : <<x, y>> \in Order /\ <<y, z>> \in Order => <<x, z>> \in Order
  BY OrderIsTotal
<1> QED BY <1>1, <1>2, PlacesAreTaken

(* What a search returns depends on the items it finds, not on where they were.       *)
LEMMA SearchIs ==
    ASSUME NEW items \in Seq(Item), Distinct(items), NEW query, NEW limit \in Nat
    PROVE  LET found == Found(items, query)
               n == IF Cardinality(found) < limit THEN Cardinality(found) ELSE limit
           IN  /\ n \in Nat
               /\ Search(items, query, limit) = [k \in 1..n |-> At(found, k - 1)]
               /\ \A k \in 1..n : /\ At(found, k - 1) \in found
                                  /\ Ahead(found, Order, At(found, k - 1)) = k - 1
<1> DEFINE matching == Matching(items, query)
           found == Found(items, query)
           size == Cardinality(found)
           n == IF size < limit THEN size ELSE limit
           Rank(i) == Cardinality({j \in matching : Before(items[j], items[i])})
                        + Cardinality({j \in matching : j <= i /\ ~Before(items[j], items[i])
                                                    /\ ~Before(items[i], items[j])})
           sorted == [k \in 1..Cardinality(matching) |->
                        items[CHOOSE i \in matching : Rank(i) = k]]
<1>1. /\ Selectable(found) /\ IsFiniteSet(found) /\ Cardinality(matching) = size
      /\ \A i, j \in matching : items[i] = items[j] => i = j
      /\ found = {items[i] : i \in matching}
  BY FoundFacts DEF Selectable, Found
<1>2. size \in Nat /\ n \in Nat /\ n <= size
  BY <1>1, FS_CardinalityType
<1>3. /\ \A x, y \in found : Ahead(found, Order, x) = Ahead(found, Order, y) => x = y
      /\ \A k \in 0..(size - 1) : \E x \in found : Ahead(found, Order, x) = k
      /\ \A x \in found : Ahead(found, Order, x) \in Int
  <2> HIDE DEF found, size
  <2>1. /\ \A x \in found : Ahead(found, Order, x) \in 0..(Cardinality(found) - 1)
        /\ \A x, y \in found : Ahead(found, Order, x) = Ahead(found, Order, y) => x = y
        /\ \A k \in 0..(Cardinality(found) - 1) :
             \E x \in found : Ahead(found, Order, x) = k
    BY <1>1, OrderedPlaces
  <2>2. \A x \in found : Ahead(found, Order, x) \in Int
    BY <2>1
  <2> QED BY <2>1, <2>2 DEF size
<1>4. Sorted(items, matching) = sorted
  BY DEF Sorted
<1>5. Search(items, query, limit)
        = SubSeq(sorted, 1, IF Len(sorted) < limit THEN Len(sorted) ELSE limit)
  BY <1>4 DEF Search
<1>6. \A i \in matching : Rank(i) = Ahead(found, Order, items[i]) + 1
  BY RankIs
<1> HIDE DEF matching, found, Rank, size
<1>7. ASSUME NEW k \in 1..size
      PROVE  /\ sorted[k] = At(found, k - 1) /\ At(found, k - 1) \in found
             /\ Ahead(found, Order, At(found, k - 1)) = k - 1
  <2> DEFINE i == CHOOSE i \in matching : Rank(i) = k
             x == At(found, k - 1)
  <2>1. k - 1 \in 0..(size - 1)
    BY <1>2
  <2>2. x \in found /\ Ahead(found, Order, x) = k - 1
    BY <1>3, <2>1 DEF At
  <2>3. \E j \in matching : items[j] = x
    BY <1>1, <2>2
  <2>4. \E j \in matching : Rank(j) = k
    BY <1>6, <2>2, <2>3
  <2>5. i \in matching /\ Rank(i) = k
    BY <2>4
  <2>6. sorted[k] = items[i]
    BY <1>1
  <2> HIDE DEF i, x, sorted
  <2>7. items[i] \in found /\ Ahead(found, Order, items[i]) = k - 1
    <3>1. items[i] \in found /\ Ahead(found, Order, items[i]) + 1 = k
      BY <1>1, <1>6, <2>5
    <3> DEFINE a == Ahead(found, Order, items[i])
    <3>2. a \in Int /\ a + 1 = k
      BY <1>3, <3>1
    <3> HIDE DEF a
    <3>3. a = k - 1
      BY <3>2
    <3> QED BY <3>1, <3>3 DEF a
  <2>8. items[i] = x
    BY <1>3, <2>2, <2>7
  <2> QED BY <2>2, <2>6, <2>8 DEF x
<1>8. Len(sorted) = size /\ sorted \in Seq(found)
  <2>1. sorted \in [1..size -> found]
    <3>1. DOMAIN sorted = 1..size /\ sorted = [k \in 1..size |-> sorted[k]]
      BY <1>1
    <3> HIDE DEF sorted
    <3> QED BY <1>7, <3>1
  <2> HIDE DEF sorted
  <2> QED BY <1>2, <2>1
<1>9. SubSeq(sorted, 1, n) = [k \in 1..n |-> sorted[k]]
  <2> HIDE DEF sorted
  <2> QED BY <1>2, <1>8
<1>10. Search(items, query, limit) = SubSeq(sorted, 1, n)
  BY <1>5, <1>8
<1> HIDE DEF sorted
<1>11. [k \in 1..n |-> sorted[k]] = [k \in 1..n |-> At(found, k - 1)]
  <2>1. \A k \in 1..n : k \in 1..size
    BY <1>2
  <2> QED BY <1>7, <2>1
<1>12. \A k \in 1..n : /\ At(found, k - 1) \in found
                       /\ Ahead(found, Order, At(found, k - 1)) = k - 1
  <2>1. \A k \in 1..n : k \in 1..size
    BY <1>2
  <2> QED BY <1>7, <2>1
<1> QED BY <1>2, <1>9, <1>10, <1>11, <1>12 DEF found, size

(* What is found is found wherever it is. *)
LEMMA PermutedFound ==
    ASSUME NEW items \in Seq(Item), Distinct(items), NEW query,
           NEW p \in Bijection(DOMAIN items, DOMAIN items)
    PROVE  LET permuted == [i \in DOMAIN items |-> items[p[i]]]
           IN  /\ permuted \in Seq(Item) /\ Distinct(permuted)
               /\ Found(permuted, query) = Found(items, query)
<1> DEFINE n == Len(items)
           permuted == [i \in DOMAIN items |-> items[p[i]]]
<1>1. n \in Nat /\ DOMAIN items = 1..n /\ \A i \in 1..n : items[i] \in Item
  OBVIOUS
<1>2. /\ p \in [1..n -> 1..n] /\ \A w \in 1..n : \E v \in 1..n : p[v] = w
      /\ \A i, j \in 1..n : p[i] = p[j] => i = j
  <2> DEFINE all == 1..n
  <2>1. p \in Bijection(all, all)
    BY <1>1
  <2> HIDE DEF all
  <2>2. /\ p \in [all -> all] /\ \A w \in all : \E v \in all : p[v] = w
        /\ \A i, j \in all : p[i] = p[j] => i = j
    BY <2>1 DEF Bijection, Injection, Surjection, IsInjective
  <2> QED BY <2>2 DEF all
<1>4. /\ permuted \in [1..n -> Item] /\ DOMAIN permuted = 1..n
      /\ \A i \in 1..n : permuted[i] = items[p[i]] /\ p[i] \in 1..n
  BY <1>1, <1>2
<1> HIDE DEF permuted, n
<1>5. permuted \in Seq(Item)
  BY <1>1, <1>4
<1>6. Distinct(permuted)
  <2> SUFFICES ASSUME NEW i \in 1..n, NEW j \in 1..n, permuted[i].ref = permuted[j].ref,
                      permuted[i].ref # NoText
               PROVE  i = j
    BY <1>4 DEF Distinct
  <2>1. items[p[i]].ref = items[p[j]].ref /\ items[p[i]].ref # NoText
    BY <1>4
  <2>2. p[i] = p[j]
    BY <1>1, <1>4, <2>1 DEF Distinct
  <2> QED BY <1>2, <2>2
<1>7. Found(permuted, query) = Found(items, query)
  <2>1. \A x : x \in Found(items, query) <=> \E i \in 1..n : items[i] = x /\ Matches(x, query)
    BY <1>1 DEF Found, Matching
  <2>2. \A x : x \in Found(permuted, query)
                 <=> \E i \in 1..n : permuted[i] = x /\ Matches(x, query)
    BY <1>4 DEF Found, Matching
  <2>3. ASSUME NEW i \in 1..n PROVE \E j \in 1..n : permuted[j] = items[i]
    <3>1. PICK j \in 1..n : p[j] = i
      BY <1>2
    <3> QED BY <1>4, <3>1
  <2>4. \A i \in 1..n : \E j \in 1..n : items[j] = permuted[i]
    BY <1>4
  <2> QED BY <2>1, <2>2, <2>3, <2>4
<1> QED BY <1>5, <1>6, <1>7 DEF permuted

LEMMA LesserOfTwo ==
    ASSUME NEW a \in Nat, NEW b \in Nat
    PROVE  Min({a, b}) = IF b < a THEN b ELSE a
<1> DEFINE two == {a, b}
           m == IF b < a THEN b ELSE a
<1>1. m \in two /\ (\A y \in two : m =< y) /\ \A x \in two : (\A y \in two : x =< y) => x = m
  OBVIOUS
<1> HIDE DEF two, m
<1>2. Min(two) = m
  BY <1>1 DEF Min
<1> QED BY <1>2 DEF two, m

(* Search returns the first matches of one order, whatever the items, the query and   *)
(* the limit are, and in whatever order the items came.                               *)
THEOREM SearchReturnsTheFirst ==
    ASSUME NEW items \in Seq(Item), Distinct(items), NEW query, NEW limit \in Nat \ {0}
    PROVE  FirstOf(items, query, limit)
<1> DEFINE matching == Matching(items, query)
           all == Found(items, query)
           size == Cardinality(all)
           n == IF size < limit THEN size ELSE limit
           found == Search(items, query, limit)
<1>1. /\ n \in Nat /\ found = [k \in 1..n |-> At(all, k - 1)]
      /\ \A k \in 1..n : At(all, k - 1) \in all /\ Ahead(all, Order, At(all, k - 1)) = k - 1
  BY SearchIs
<1>2. /\ IsFiniteSet(matching) /\ Cardinality(matching) = size /\ size \in Nat
      /\ all = {items[i] : i \in matching}
  BY FoundFacts, FS_CardinalityType DEF Found
<1>3. ASSUME NEW p \in Bijection(DOMAIN items, DOMAIN items)
      PROVE  Search([i \in DOMAIN items |-> items[p[i]]], query, limit) = found
  <2> DEFINE permuted == [i \in DOMAIN items |-> items[p[i]]]
  <2>1. /\ permuted \in Seq(Item) /\ Distinct(permuted)
        /\ Found(permuted, query) = Found(items, query)
    BY PermutedFound
  <2> HIDE DEF permuted
  <2>2. Search(permuted, query, limit) = [k \in 1..n |-> At(all, k - 1)]
    BY <2>1, SearchIs
  <2> QED BY <1>1, <2>2 DEF permuted
<1> HIDE DEF matching, all, found
<1>4. Len(found) = n /\ DOMAIN found = 1..n
  <2>1. found \in Seq(all)
    BY <1>1
  <2> HIDE DEF n
  <2> QED BY <1>1, <2>1
<1>5. Len(found) = Min({limit, Cardinality(matching)})
  <2>1. Min({limit, size}) = n
    BY <1>2, LesserOfTwo
  <2> QED BY <1>2, <1>4, <2>1
<1>6. ASSUME NEW k \in DOMAIN found
      PROVE  /\ \E i \in matching : found[k] = items[i]
             /\ Cardinality({i \in matching : Before(items[i], found[k])}) = k - 1
  <2>1. k \in 1..n /\ found[k] \in all /\ Ahead(all, Order, found[k]) = k - 1
    BY <1>1, <1>4
  <2>2. Cardinality({i \in matching : Before(items[i], found[k])}) = Ahead(all, Order, found[k])
    BY <2>1, AheadIs DEF matching, all
  <2> QED BY <1>2, <2>1, <2>2
<1>7. FindExit(items, query, limit) = "3" <=> matching = {}
  <2>1. FindExit(items, query, limit) = "3" <=> found = <<>>
    BY DEF FindExit, found
  <2>2. found = <<>> <=> n = 0
    <3>1. found \in Seq(all)
      BY <1>1
    <3> HIDE DEF n
    <3> QED BY <1>4, <3>1
  <2>3. matching = {} <=> size = 0
    BY <1>2, FS_EmptySet
  <2> QED BY <1>2, <2>1, <2>2, <2>3
<1>8. matching = {i \in DOMAIN items : Matches(items[i], query)}
  BY DEF matching, Matching
<1> HIDE DEF n, size
<1> QED BY <1>3, <1>5, <1>6, <1>7, <1>8 DEF FirstOf, found

(* The same of the items the runs give: FirstMatches of every run.                    *)
THEOREM EveryFirstMatch == Spec => []FirstMatches
<1>1. ASSUME NEW x \in ItemsGiven \X {1, 2} PROVE FirstOf(x[1], 0, x[2])
  <2> DEFINE items == x[1]
             limit == x[2]
  <2>1. items \in ItemsGiven /\ limit \in Nat \ {0}
    BY <1>1
  <2> HIDE DEF items, limit
  <2>2. PICK k \in 0..3 : items \in [1..k -> SomeItem]
    BY <2>1 DEF ItemsGiven
  <2>3. items \in [1..k -> Item] /\ k \in Nat
    BY <2>2 DEF SomeItem
  <2>4. items \in Seq(Item) /\ Distinct(items)
    BY <2>1, <2>3 DEF ItemsGiven
  <2> QED BY <2>1, <2>4, SearchReturnsTheFirst DEF items, limit
<1> DEFINE I == given = "items" => input \in ItemsGiven \X {1, 2}
<1>2. Init => I
  BY DEF Init
<1>3. I /\ [Next]_<<given, input>> => I'
  BY DEF Next
<1>4. I => FirstMatches
  BY <1>1 DEF FirstMatches
<1> QED BY <1>2, <1>3, <1>4, PTL DEF Spec

=============================================================================
