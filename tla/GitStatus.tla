------------------------------ MODULE GitStatus ------------------------------
(***************************************************************************)
(* destination_status of src/ainv/git.py: one answer put together from     *)
(* several looks at the file system and three runs of git, each of which   *)
(* finds its own way, while somebody else runs `git init`, `git add` or    *)
(* `git rm`, edits an ignore file, replaces a link of the path, or moves a *)
(* directory with all it holds.  A `.git` is one that git accepts.         *)
(***************************************************************************)
EXTENDS FiniteSets, Naturals, Sequences

CONSTANTS
    Dirs,           \* directories, by their real path
    Above,          \* Above[d]: d, its parent, ... up to the top
    Places,         \* the directories that --file may lead to
    MaxGitChanges   \* bound of the model: changes during one call

Up(d) == {Above[d][i] : i \in DOMAIN Above[d]}

ASSUME GitAssumption ==
    /\ Above \in [Dirs -> Seq(Dirs)] /\ \A d \in Dirs : Above[d] # <<>> /\ Above[d][1] = d
    /\ Places \subseteq Dirs /\ MaxGitChanges \in Nat

(* A worktree, by its top directory, and a destination in it. *)
Pairs == {w \in Dirs \X Places : w[1] \in Up(w[2])}

VARIABLES
    gpc,        \* the next look of the call, "idle" before and "done" after it
    through,    \* the directory the parent of --file denotes
    goal,       \* the directory of what --file denotes (the last name may be a link)
    markers,    \* the directories that hold a .git
    tracked,    \* the index of each worktree: whether it names the destination
    ignored,    \* the ignore rules of each worktree: whether they cover it
    blank,      \* the path of the worktree ends in white space
    directory,  \* the directory the call resolved first
    step,       \* the parent the walk for a .git looks at next
    root,       \* the top of the worktree, as git printed it
    dest,       \* the directory of the destination, as it was resolved last
    answer,     \* what the call returned, or "error"
    truths,     \* history: what was the case during the call
    early,      \* history: the path or a .git changed before the path was resolved last
    since,      \* history: what has changed since then
    gchanges    \* changes so far

worktree == <<through, goal, markers, tracked, ignored, blank>>
looked == <<directory, step, root, dest>>
history == <<truths, early, since, gchanges>>
gitVars == <<gpc, through, goal, markers, tracked, ignored, blank, directory, step, root, dest,
             answer, truths, early, since, gchanges>>

GitStatuses == {"outside", "tracked", "ignored", "untracked"}

(* What git finds from d: the nearest directory with a .git, if there is one. *)
Tops(d) ==
    {r \in markers : \E i \in DOMAIN Above[d] :
        Above[d][i] = r /\ \A j \in 1..(i - 1) : Above[d][j] \notin markers}

Classified(r, d) ==
    IF r \notin Up(d) THEN "outside"
    ELSE IF <<r, d>> \in tracked THEN "tracked"
    ELSE IF <<r, d>> \in ignored THEN "ignored" ELSE "untracked"

(* What is the case now. *)
Truth ==
    IF Tops(through) = {} THEN {"outside"} ELSE {Classified(r, goal) : r \in Tops(through)}

GitTypeOK ==
    /\ gpc \in {"idle", "marker", "git", "toplevel", "resolve", "lsfiles", "checkignore",
                "done"}
    /\ through \in Places /\ goal \in Places /\ markers \in SUBSET Dirs
    /\ tracked \in SUBSET Pairs /\ ignored \in SUBSET Pairs /\ blank \in BOOLEAN
    /\ directory \in Places /\ step \in DOMAIN Above[directory]
    /\ root \in Dirs /\ dest \in Places
    /\ answer \in GitStatuses \cup {"none", "error"}
    /\ truths \in SUBSET GitStatuses /\ early \in BOOLEAN
    /\ since \in SUBSET {"path", "tree", "index", "rules"}
    /\ gchanges \in 0..MaxGitChanges

GitInit ==
    /\ gpc = "idle"
    /\ through \in Places /\ goal = through /\ directory = through /\ root = through
    /\ dest = through /\ step = 1
    /\ markers = {} /\ tracked = {} /\ ignored = {} /\ blank = FALSE
    /\ answer = "none" /\ truths = {} /\ early = FALSE /\ since = {} /\ gchanges = 0

-----------------------------------------------------------------------------
(* The call finds the world in any state, and resolves the directory of --file. *)
GitStart ==
    /\ gpc = "idle"
    /\ through' \in Places /\ goal' \in Places /\ markers' \in SUBSET Dirs
    /\ tracked' \in SUBSET Pairs /\ ignored' \in SUBSET Pairs /\ blank' \in BOOLEAN
    /\ truths' = Truth'
    /\ directory' = through' /\ step' = 1
    /\ gpc' = "marker"
    /\ UNCHANGED <<root, dest, answer, early, since, gchanges>>

Look(to) == gpc' = to /\ UNCHANGED <<worktree, looked, answer, history>>

Answered(a) == gpc' = "done" /\ answer' = a /\ UNCHANGED <<worktree, looked, history>>

(* _nearest_git_marker: one look at a parent at a time. *)
FindMarker ==
    /\ gpc = "marker"
    /\ IF Above[directory][step] \in markers THEN Look("git")
       ELSE IF step = Len(Above[directory]) THEN Answered("outside")
       ELSE /\ step' = step + 1
            /\ UNCHANGED <<gpc, worktree, directory, root, dest, answer, history>>

FindGit ==
    /\ gpc = "git"
    /\ Look("toplevel") \/ Answered("error")

(* git rev-parse --show-toplevel, in the directory resolved first. *)
ShowToplevel ==
    /\ gpc = "toplevel"
    /\ \/ Tops(directory) = {} /\ Answered("error")
       \/ /\ root' \in Tops(directory) /\ gpc' = "resolve"
          /\ UNCHANGED <<worktree, directory, step, dest, answer, history>>

(* The path git printed is stripped of white space: no destination is below what is *)
(* left of one that ends in it.  --file is resolved again, its last name included.  *)
ResolveDestination ==
    /\ gpc = "resolve"
    /\ IF blank \/ root \notin Up(goal)
       THEN Answered("outside")
       ELSE /\ dest' = goal /\ gpc' = "lsfiles" /\ since' = {}
            /\ UNCHANGED <<worktree, directory, step, root, answer, truths, early, gchanges>>

(* Wrong on purpose: a file that some rule ignores is taken to be untracked. *)
ListFilesOfRules ==
    /\ gpc = "lsfiles"
    /\ \/ Tops(root) = {} /\ Answered("error")
       \/ \E r \in Tops(root) :
            IF <<r, dest>> \in tracked \ ignored THEN Answered("tracked") ELSE Look("checkignore")

(* git ls-files --error-unmatch, of the path as it was resolved, in whatever worktree *)
(* git finds from the root.                                                           *)
ListFiles ==
    /\ gpc = "lsfiles"
    /\ \/ Tops(root) = {} /\ Answered("error")
       \/ \E r \in Tops(root) :
            IF <<r, dest>> \in tracked THEN Answered("tracked") ELSE Look("checkignore")

(* git check-ignore --no-index: the rules alone decide. *)
CheckIgnore ==
    /\ gpc = "checkignore"
    /\ \/ Tops(root) = {} /\ Answered("error")
       \/ \E r \in Tops(root) :
            Answered(IF <<r, dest>> \in ignored THEN "ignored" ELSE "untracked")

(* git cannot be run, takes more than five seconds, or exits with another status. *)
GitFails ==
    /\ gpc \in {"toplevel", "lsfiles", "checkignore"}
    /\ Answered("error")

Changed(kind) ==
    IF gpc \in {"lsfiles", "checkignore"}
    THEN since' = since \cup {kind} /\ UNCHANGED early
    ELSE early' = (early \/ kind \in {"path", "tree"}) /\ UNCHANGED since

(* A link of the path is replaced. *)
Retarget ==
    /\ through' \in Places /\ goal' \in Places
    /\ Changed("path")
    /\ UNCHANGED <<markers, tracked, ignored>>

(* git init, or its undoing; a directory takes the place of d, with its own .git, index *)
(* and ignore files; a .git is moved.                                                   *)
Rearrange ==
    /\ \/ \E d \in Dirs :
            /\ markers' \in {markers \cup {d}, markers \ {d}}
            /\ \E T \in SUBSET {w \in Pairs : w[1] = d}, I \in SUBSET {w \in Pairs : d \in Up(w[2])} :
                  /\ tracked' = {w \in tracked : w[1] # d} \cup T
                  /\ ignored' = {w \in ignored : d \notin Up(w[2])} \cup I
       \/ /\ \E d \in markers, e \in Dirs : markers' = (markers \ {d}) \cup {e}
          /\ UNCHANGED <<tracked, ignored>>
    /\ Changed("tree")
    /\ UNCHANGED <<through, goal>>

(* git add and rm. *)
Stage ==
    /\ tracked' \in SUBSET Pairs
    /\ Changed("index")
    /\ UNCHANGED <<through, goal, markers, ignored>>

(* An ignore file is edited. *)
EditRules ==
    /\ ignored' \in SUBSET Pairs
    /\ Changed("rules")
    /\ UNCHANGED <<through, goal, markers, tracked>>

GitChange ==
    /\ gpc \notin {"idle", "done"} /\ gchanges < MaxGitChanges
    /\ gchanges' = gchanges + 1
    /\ Retarget \/ Rearrange \/ Stage \/ EditRules
    /\ truths' = truths \cup Truth'
    /\ UNCHANGED <<gpc, blank, looked, answer>>

GitDone == gpc = "done" /\ UNCHANGED gitVars

GitNext ==
    \/ GitStart \/ FindMarker \/ FindGit \/ ShowToplevel \/ ResolveDestination
    \/ ListFiles \/ CheckIgnore \/ GitFails \/ GitChange \/ GitDone

GitSpec == GitInit /\ [][GitNext]_gitVars

-----------------------------------------------------------------------------
(* The answer is put together from several looks, yet it was the truth at one instant *)
(* of the call, however often index and rules change while the worktree is looked for *)
(* and whichever one kind of thing changes after that.  Left open are: a link of the  *)
(* path or a .git that changes while the worktree is looked for (the first directory  *)
(* and the destination are resolved apart, the parents looked at one by one); after   *)
(* that a .git or directory that is moved (each git finds its own way) or two kinds   *)
(* of change (a `git add` between ls-files and check-ignore, and a new ignore rule);  *)
(* and a worktree whose path ends in white space, which seems to be outside           *)
(* (destination_status).                                                              *)
AnswerWasTrueOnce ==
    \/ answer \in truths \cup {"none", "error"}
    \/ early \/ "tree" \in since \/ Cardinality(since) > 1
    \/ blank /\ answer = "outside"

=============================================================================
