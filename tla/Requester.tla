------------------------------ MODULE Requester ------------------------------
(***************************************************************************)
(* _requesting_application of src/ainv/approval.py: the walk from ainv up  *)
(* its chain of parents to the nearest process of a bundled application,   *)
(* two native calls per process, while processes end, their children pass  *)
(* to launchd, and process identifiers are given to other processes.       *)
(***************************************************************************)
EXTENDS FiniteSets, Naturals

CONSTANTS
    Pids,       \* process identifiers
    Launchd,    \* the one that adopts orphans
    Self,       \* the one of ainv
    NoApp,      \* no bundled application
    MaxDepth    \* _MAX_ANCESTRY_DEPTH

ASSUME RequesterAssumption ==
    /\ {Launchd, Self} \subseteq Pids /\ Launchd # Self
    /\ NoApp \notin Pids /\ MaxDepth \in Nat

VARIABLES
    rpc,        \* "idle", then "parent" and "identity" in turns, and "done"
    alive,      \* the processes that exist
    parent,     \* parent[p]
    bundled,    \* the processes of bundled applications
    current,    \* the process the walk has come to
    seen,       \* those it has seen
    depth,      \* parents looked up so far
    named,      \* the process whose application is shown to the person
    family,     \* history: parent, when the walk began
    reused,     \* history: identifiers that were given to another process
    passed      \* history: identities that could not be read

walk == <<rpc, current, seen, depth, named, passed>>
processes == <<alive, parent, bundled, reused>>
requesterVars == <<rpc, alive, parent, bundled, current, seen, depth, named, family,
                   reused, passed>>

Alone == [p \in Pids |-> Launchd]

RequesterTypeOK ==
    /\ rpc \in {"idle", "parent", "identity", "done"}
    /\ alive \in SUBSET Pids /\ parent \in [Pids -> Pids] /\ family \in [Pids -> Pids]
    /\ bundled \in SUBSET Pids /\ seen \in SUBSET Pids /\ reused \in SUBSET Pids
    /\ passed \in SUBSET Pids /\ current \in Pids /\ depth \in 0..MaxDepth
    /\ named \in Pids \cup {NoApp}

(* The ancestors of a process p: every set closed under parents that holds p's parent *)
(* holds them.                                                                        *)
AncestorsIn(tree, p) ==
    {q \in Pids : \A S \in SUBSET Pids :
        tree[p] \in S /\ (\A s \in S : tree[s] \in S) => q \in S}

RequesterInit ==
    /\ rpc = "idle"
    /\ alive = {Launchd, Self} /\ parent = Alone /\ bundled = {} /\ reused = {}
    /\ current = Self /\ seen = {Self} /\ depth = 0 /\ named = NoApp
    /\ family = Alone /\ passed = {}

(* ainv finds itself in some tree of processes, with launchd at its root. *)
RequesterStart ==
    /\ rpc = "idle"
    /\ alive' = Pids
    /\ parent' \in [Pids -> Pids]
    /\ \A p \in Pids : Launchd = p \/ p \notin AncestorsIn(parent', p)
    /\ parent'[Launchd] = Launchd
    /\ bundled' \in SUBSET (Pids \ {Launchd, Self})
    /\ family' = parent'
    /\ rpc' = "parent"
    /\ UNCHANGED <<current, seen, depth, named, reused, passed>>

-----------------------------------------------------------------------------
GiveUpWalk == rpc' = "done" /\ UNCHANGED <<current, seen, depth, named, passed>>

(* parent_lookup, which fails when the process is gone; then the loop's conditions. *)
LookUpParent ==
    /\ rpc = "parent"
    /\ \/ GiveUpWalk
       \/ /\ depth < MaxDepth /\ current \in alive
          /\ parent[current] \notin seen \cup {Launchd}
          /\ current' = parent[current]
          /\ seen' = seen \cup {parent[current]}
          /\ depth' = depth + 1
          /\ rpc' = "identity"
          /\ UNCHANGED <<named, passed>>
    /\ UNCHANGED <<processes, family>>

(* Wrong on purpose: the search goes on when it has found one, for the outermost. *)
IdentifyOutermost ==
    /\ rpc = "identity"
    /\ named' = IF current \in bundled THEN current ELSE named
    /\ rpc' = "parent"
    /\ UNCHANGED <<current, seen, depth, passed, processes, family>>

(* _running_application and _application_identity; both may fail for any process. *)
Identify ==
    /\ rpc = "identity"
    /\ \/ /\ current \in bundled
          /\ named' = current /\ rpc' = "done"
          /\ UNCHANGED passed
       \/ /\ passed' = passed \cup ({current} \cap bundled)
          /\ rpc' = "parent"
          /\ UNCHANGED named
    /\ UNCHANGED <<current, seen, depth, processes, family>>

(* A process ends, and launchd adopts its children. *)
ProcessEnds ==
    /\ rpc \in {"parent", "identity"}
    /\ \E p \in alive \ {Launchd, Self} :
         /\ alive' = alive \ {p}
         /\ parent' = [q \in Pids |-> IF parent[q] = p THEN Launchd ELSE parent[q]]
         /\ bundled' = bundled \ {p}
    /\ UNCHANGED <<walk, reused, family>>

(* Its identifier is given to a new process, of an application or not. *)
PidReused ==
    /\ rpc \in {"parent", "identity"}
    /\ \E p \in Pids \ alive, q \in alive :
         /\ alive' = alive \cup {p}
         /\ parent' = [parent EXCEPT ![p] = q]
         /\ bundled' \in {bundled, bundled \cup {p}}
         /\ reused' = reused \cup {p}
    /\ UNCHANGED <<walk, family>>

RequesterDone == rpc = "done" /\ UNCHANGED requesterVars

RequesterNext ==
    \/ RequesterStart \/ LookUpParent \/ Identify \/ ProcessEnds \/ PidReused
    \/ RequesterDone

RequesterSpec == RequesterInit /\ [][RequesterNext]_requesterVars

-----------------------------------------------------------------------------
(* Unless an identifier was reused meanwhile, the application the dialog and the      *)
(* history name is one ainv was started under, whatever ends during the walk, and no  *)
(* nearer one is passed over whose identity could be read (_requesting_application).  *)
NamesAnAncestor ==
    named # NoApp /\ reused = {} =>
        /\ named \in AncestorsIn(family, Self)
        /\ \A q \in AncestorsIn(family, Self) :
             named \in AncestorsIn(family, q) => q \notin bundled \ passed

=============================================================================
