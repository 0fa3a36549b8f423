---------------------------- MODULE KeychainProofs ----------------------------
(***************************************************************************)
(* Theorems about Keychain: what holds of every command, whatever the      *)
(* identities, references and secrets, however many commands run at once   *)
(* and however often other programs change the Keychain under them.        *)
(***************************************************************************)
EXTENDS Keychain, FiniteSetTheorems, TLAPS

Resolving(p) == job[p].kind = "resolve"

Adding(p) == job[p].kind = "add"

(* Where a command is when it makes its next call. *)
Stage(p) ==
    /\ exit[p] = None <=> pc[p] # "done"
    /\ pc[p] # "done" => got[p] = None
    /\ pc[p] = "lookup" => Resolving(p) /\ Readable(p) /\ found[p] = None
    /\ pc[p] = "read" => Resolving(p) /\ Target(p) # None
    /\ pc[p] = "add" => Adding(p)
    /\ pc[p] = "dialog" => p \in prompted
    /\ pc[p] = "input" => Adding(p)
    /\ Adding(p) /\ job[p].noInput => pc[p] \in {"start", "done"}

(* A reference that was looked up is of the identity that was asked for, and was the   *)
(* only one at that instant.                                                          *)
LookedUp(p) ==
    Resolving(p) /\ Readable(p) /\ found[p] # None =>
        found[p].identity = Mine(p) /\ "alone" \in facts[p]

PromptAllowed(p) ==
    p \in prompted => ~job[p].noInput /\ (Resolving(p) => Target(p) # None)

CauseHeld(p) ==
    /\ exit[p] = "3" => "absent" \in facts[p]
    /\ exit[p] = "4" =>
         "blocked" \in facts[p] \/ "missing" \in facts[p] \/ failed[p] = "unavailable"
    /\ exit[p] = "5" =>
         \/ p \in prompted \/ failed[p] \in {"denied", "input"}
         \/ job[p].noInput /\ (job[p].kind = "add" \/ "blocked" \in facts[p])
    /\ exit[p] # None /\ exit[p] # "0" => got[p] = None

(* What an `add` stored is there until another program takes it away. *)
StoredStays(p) ==
    /\ p \in stored => Adding(p) /\ pc[p] = "done"
    /\ p \in stored /\ p \notin gone => At(job[p].item.ref) # {}
    /\ Adding(p) /\ exit[p] = "0" => p \in stored

Held(p) == Stage(p) /\ LookedUp(p) /\ PromptAllowed(p) /\ CauseHeld(p) /\ StoredStays(p)

(* Of two commands that stored an item of one identity one has lost its item. *)
OneOfEach ==
    \A p, q \in stored : p # q /\ Mine(p) = Mine(q) => p \in gone \/ q \in gone

(* The inductive invariant. *)
KeychainInv == KeychainTypeOK /\ (\A p \in Procs : Held(p)) /\ OneOfEach

(* What a step leaves of the state of a command that did not take it. *)
Untouched(q) ==
    /\ job' = job
    /\ pc'[q] = pc[q] /\ found'[q] = found[q] /\ got'[q] = got[q] /\ exit'[q] = exit[q]
    /\ q \in prompted' <=> q \in prompted
    /\ q \in stored' <=> q \in stored
    /\ failed'[q] = failed[q] /\ gone \subseteq gone'
    /\ facts[q] \subseteq facts'[q]

(* A command to which nothing happens keeps what it has established, unless its item  *)
(* is taken away without notice.                                                      *)
LEMMA HeldUntouched ==
    ASSUME NEW q \in Procs, Held(q), Untouched(q),
           \/ items \subseteq items'
           \/ q \in stored => q \in gone' \/ At(job[q].item.ref)' # {}
    PROVE  Held(q)'
<1> USE DEF Held, Untouched
<1>1. Stage(q)' /\ LookedUp(q)' /\ PromptAllowed(q)' /\ CauseHeld(q)'
  BY DEF Stage, LookedUp, PromptAllowed, CauseHeld, Resolving, Adding, Readable, Target, Mine
<1>2. StoredStays(q)'
  BY DEF StoredStays, Adding, At
<1> QED BY <1>1, <1>2

(* The codes of the statuses. *)
LEMMA CodesOfStatuses ==
    /\ CodeOf("notFound") = "3"
    /\ CodeOf("interaction") = "4" /\ CodeOf("unavailable") = "4"
    /\ CodeOf("denied") = "5" /\ CodeOf("param") = "2"
    /\ CodeOf("duplicate") = "1" /\ CodeOf("other") = "1"
BY DEF CodeOf

(* The identity and the reference a command works with. *)
LEMMA TypesOfJobs ==
    ASSUME KeychainTypeOK, NEW p \in Procs
    PROVE  /\ job[p].kind \in {"resolve", "add"} /\ job[p].noInput \in BOOLEAN
           /\ Adding(p) => job[p].item \in Items
           /\ Resolving(p) => job[p].asked \in Identities \cup Refs
           /\ Resolving(p) /\ ~Readable(p) => Target(p) \in Refs /\ Mine(p) = Target(p).identity
<1>1. job[p] \in JobType
  BY KeychainAssumption DEF KeychainTypeOK
<1> QED BY <1>1 DEF JobType, Adding, Resolving, Readable, Target, Mine

LEMMA KeychainInit == Init => KeychainInv
<1> SUFFICES ASSUME Init PROVE KeychainInv
  OBVIOUS
<1>1. KeychainTypeOK
  <2>1. items \in SUBSET Items /\ \A i, j \in items : i.ref = j.ref => i = j
    BY DEF Init, Unique
  <2>2. changes \in 0..MaxChanges
    BY KeychainAssumption DEF Init
  <2>4. blocked \in BOOLEAN /\ missing \in BOOLEAN
    BY Zenon DEF Init
  <2>3. /\ job \in [Procs -> Jobs]
        /\ pc \in [Procs -> {"start", "input", "default", "lookup", "read", "dialog", "add", "done"}]
        /\ found \in [Procs -> Refs \cup {None}] /\ got \in [Procs -> Secrets \cup {None}]
        /\ exit \in [Procs -> Codes \cup {None}]
        /\ facts \in [Procs -> SUBSET {"alone", "absent", "blocked", "missing"}]
    BY DEF Init
  <2>5. /\ prompted \in SUBSET Procs /\ stored \in SUBSET Procs /\ gone \in SUBSET stored
        /\ failed \in [Procs -> Faults \cup {None}]
    BY DEF Init
  <2> QED BY <2>1, <2>2, <2>3, <2>4, <2>5 DEF KeychainTypeOK
<1>2. \A p \in Procs : Held(p)
  BY KeychainAssumption DEF Init, Codes, Held, Stage, LookedUp, PromptAllowed, CauseHeld, StoredStays
<1>3. OneOfEach
  BY DEF Init, OneOfEach
<1> QED BY <1>1, <1>2, <1>3 DEF KeychainInv

(* Types. *)
LEMMA KeychainTypeStep == KeychainInv /\ [Next]_vars => KeychainTypeOK'
<1> SUFFICES ASSUME KeychainInv, [Next]_vars PROVE KeychainTypeOK'
  OBVIOUS
<1> USE CodesOfStatuses DEF KeychainInv, KeychainTypeOK, Goto, End, world, Codes, Unique
<1>1. ASSUME Remember PROVE facts' \in [Procs -> SUBSET {"alone", "absent", "blocked", "missing"}]
  BY <1>1 DEF Remember, FactsOf
<1>2. ASSUME NEW p \in Procs, Start(p), Remember PROVE KeychainTypeOK'
  BY <1>1, <1>2 DEF Start
<1>11. ASSUME NEW p \in Procs, EnterSecret(p), Remember PROVE KeychainTypeOK'
  BY <1>1, <1>11 DEF EnterSecret, Faults
<1>3. ASSUME NEW p \in Procs, DefaultKeychain(p), Remember PROVE KeychainTypeOK'
  BY <1>1, <1>3 DEF DefaultKeychain
<1>4. ASSUME NEW p \in Procs, Lookup(p), Remember PROVE KeychainTypeOK'
  <2>1. UNCHANGED found \/ \E i \in items : found' = [found EXCEPT ![p] = i.ref]
    BY <1>4 DEF Lookup, Bearing
  <2>2. found' \in [Procs -> Refs \cup {None}]
    BY <2>1 DEF Items
  <2> QED BY <1>1, <1>4, <2>2 DEF Lookup
<1>5. ASSUME NEW p \in Procs, Read(p), Remember PROVE KeychainTypeOK'
  <2>1. got' \in [Procs -> Secrets \cup {None}]
    BY <1>5 DEF Read, At, Items
  <2>2. pc' \in [Procs -> {"start", "input", "default", "lookup", "read", "dialog", "add", "done"}]
          /\ exit' \in [Procs -> Codes \cup {None}]
    BY <1>5 DEF Read
  <2>3. prompted' \in SUBSET Procs
    BY <1>5 DEF Read
  <2> QED BY <1>1, <1>5, <2>1, <2>2, <2>3 DEF Read
<1>6. ASSUME NEW p \in Procs, Answer(p), Remember PROVE KeychainTypeOK'
  <2>1. got' \in [Procs -> Secrets \cup {None}]
    BY <1>6 DEF Answer, At, Items
  <2> QED BY <1>1, <1>6, <2>1 DEF Answer
<1>7. ASSUME NEW p \in Procs, Add(p), Remember PROVE KeychainTypeOK'
  <2>1. /\ pc' \in [Procs -> {"start", "input", "default", "lookup", "read", "dialog", "add", "done"}]
        /\ exit' \in [Procs -> Codes \cup {None}]
    BY <1>7 DEF Add
  <2>2. prompted' \in SUBSET Procs /\ stored' \in SUBSET Procs /\ gone' \in SUBSET stored'
          /\ failed' \in [Procs -> Faults \cup {None}]
    BY <1>7 DEF Add, Faults
  <2>3. items' \in SUBSET Items /\ \A i, j \in items' : i.ref = j.ref => i = j
    <3>1. CASE items' = items
      BY <3>1
    <3>2. CASE items' # items
      <4>1. Adding(p) /\ job[p].item \in Items
        BY <1>7, TypesOfJobs DEF Held, Stage, Add
      <4>2. items' = items \cup {job[p].item} /\ Bearing(job[p].item.ref.identity) = {}
        BY <1>7, <3>2, <4>1 DEF Add, Mine, Adding
      <4> QED BY <4>1, <4>2 DEF Bearing
    <3> QED BY <3>1, <3>2
  <2> QED BY <1>1, <1>7, <2>1, <2>2, <2>3 DEF Add
<1>8. ASSUME NEW p \in Procs, Fail(p), Remember PROVE KeychainTypeOK'
  BY <1>1, <1>8 DEF Fail, Faults
<1>9. ASSUME Change, Remember PROVE KeychainTypeOK'
  <2>1. changes' \in 0..MaxChanges
    BY <1>9, KeychainAssumption DEF Change
  <2>3. blocked' \in BOOLEAN /\ missing' \in BOOLEAN
    <3>1. blocked' = blocked \/ blocked' = ~blocked
      BY Zenon, <1>9 DEF Change
    <3>2. missing' = missing \/ missing' = ~missing
      BY Zenon, <1>9 DEF Change
    <3> QED BY Zenon, <3>1, <3>2
  <2>2. items' \in SUBSET Items /\ \A i, j \in items' : i.ref = j.ref => i = j
    BY <1>9 DEF Change
  <2> QED BY <1>1, <1>9, <2>1, <2>2, <2>3 DEF Change
<1>10. CASE UNCHANGED vars
  BY <1>10 DEF vars
<1> QED BY <1>2, <1>3, <1>4, <1>5, <1>6, <1>7, <1>8, <1>9, <1>10, <1>11
    DEF Next, Step, Finished

(* What Remember adds for a command that is under way. *)
LEMMA FactsGrow ==
    ASSUME KeychainTypeOK, Remember, NEW p \in Procs
    PROVE  /\ facts[p] \subseteq facts'[p]
           /\ pc[p] \notin {"start", "done"} => FactsOf(p) \subseteq facts'[p]
BY DEF KeychainTypeOK, Remember

(* Each of the facts. *)
LEMMA FactsHold ==
    ASSUME NEW p \in Procs
    PROVE  /\ Cardinality(Bearing(Mine(p))) = 1 => "alone" \in FactsOf(p)
           /\ Resolving(p) /\ Readable(p) /\ Bearing(Mine(p)) = {} => "absent" \in FactsOf(p)
           /\ Resolving(p) /\ Target(p) # None /\ At(Target(p)) = {} => "absent" \in FactsOf(p)
           /\ blocked => "blocked" \in FactsOf(p)
           /\ missing => "missing" \in FactsOf(p)
BY DEF FactsOf, Resolving

(* A step of p: what it establishes for p itself. *)
LEMMA HeldOwn ==
    ASSUME KeychainInv, NEW p \in Procs, Step(p), Remember
    PROVE  Held(p)'
<1> USE FactsGrow, FactsHold, CodesOfStatuses, KeychainAssumption
    DEF KeychainInv, Held, Goto, End, world, Codes
<1>0. Stage(p) /\ LookedUp(p) /\ PromptAllowed(p) /\ CauseHeld(p) /\ StoredStays(p)
        /\ pc[p] # "done" /\ KeychainTypeOK /\ job' = job
  BY DEF Step, Start, EnterSecret, DefaultKeychain, Lookup, Read, Answer, Add, Fail
<1>1. facts[p] \subseteq facts'[p]
  BY <1>0
<1>2. CASE Start(p)
  BY <1>0, <1>1, <1>2 DEF Start, Stage, LookedUp, PromptAllowed, CauseHeld, StoredStays,
     KeychainTypeOK, Resolving, Adding, Readable, Target, Mine
<1>9. CASE EnterSecret(p)
  BY <1>0, <1>1, <1>9 DEF EnterSecret, Stage, LookedUp, PromptAllowed, CauseHeld, StoredStays,
     KeychainTypeOK, Resolving, Adding, Readable, Target, Mine
<1>3. CASE DefaultKeychain(p)
  <2>1. job[p].kind \in {"resolve", "add"} /\ (Resolving(p) /\ ~Readable(p) => Target(p) # None)
    BY <1>0, TypesOfJobs
  <2> QED
    BY <1>0, <1>1, <1>3, <2>1 DEF DefaultKeychain, Stage, LookedUp, PromptAllowed, CauseHeld,
       StoredStays, KeychainTypeOK, Resolving, Adding, Readable, Target, Mine
<1>8. CASE Fail(p)
  BY <1>0, <1>1, <1>8 DEF Fail, Stage, LookedUp, PromptAllowed, CauseHeld, StoredStays,
     KeychainTypeOK, Resolving, Adding, Readable, Target, Mine
<1>4. CASE Lookup(p)
  <2>1. pc[p] = "lookup" /\ Resolving(p) /\ Readable(p) /\ FactsOf(p) \subseteq facts'[p]
    BY <1>0, <1>4 DEF Lookup, Stage
  <2>2. CASE UNCHANGED exit
    <3>1. PICK i \in Bearing(Mine(p)) :
            /\ Bearing(Mine(p)) = {i}
            /\ found' = [found EXCEPT ![p] = i.ref] /\ pc' = [pc EXCEPT ![p] = "default"]
            /\ UNCHANGED <<items, changes, got, prompted, stored>>
      BY <1>0, <1>4, <2>1, <2>2 DEF Lookup, Stage, KeychainTypeOK
    <3>2. "alone" \in facts'[p]
      <4>1. Cardinality(Bearing(Mine(p))) = 1
        <5>1. Cardinality({i}) = 1
          BY FS_Singleton
        <5> QED BY <3>1, <5>1
      <4> QED BY <2>1, <4>1
    <3>3. i.ref \in Refs /\ i.ref.identity = Mine(p)
      BY <1>0, <3>1 DEF KeychainTypeOK, Bearing, Items
    <3> QED
      BY <1>0, <1>1, <2>1, <2>2, <3>1, <3>2, <3>3 DEF Stage, LookedUp, PromptAllowed, CauseHeld,
         StoredStays, KeychainTypeOK, Resolving, Adding, Readable, Target, Mine
  <2>3. CASE ~UNCHANGED exit
    <3>1. /\ pc' = [pc EXCEPT ![p] = "done"]
          /\ \/ exit' = [exit EXCEPT ![p] = "3"] /\ Bearing(Mine(p)) = {}
             \/ exit' = [exit EXCEPT ![p] = "1"]
             \/ exit' = [exit EXCEPT ![p] = "4"] /\ blocked
          /\ UNCHANGED <<items, changes, found, got, prompted, stored>>
      BY <1>4, <2>3 DEF Lookup
    <3> QED
      BY <1>0, <1>1, <2>1, <3>1 DEF Stage, LookedUp, PromptAllowed, CauseHeld,
         StoredStays, KeychainTypeOK, Resolving, Adding, Readable, Target, Mine
  <2> QED BY <2>2, <2>3
<1>5. CASE Read(p)
  BY <1>0, <1>1, <1>5 DEF Read, Stage, LookedUp, PromptAllowed, CauseHeld, StoredStays,
     KeychainTypeOK, Resolving, Adding, Readable, Target, Mine
<1>6. CASE Answer(p)
  BY <1>0, <1>1, <1>6 DEF Answer, Stage, LookedUp, PromptAllowed, CauseHeld, StoredStays,
     KeychainTypeOK, Resolving, Adding, Readable, Target, Mine
<1>7. CASE Add(p)
  <2>1. Adding(p) /\ pc[p] = "add" /\ p \notin stored /\ ~job[p].noInput /\ got[p] = None
    BY <1>0, <1>7 DEF Add, Stage, StoredStays
  <2>2. CASE UNCHANGED <<items, stored, failed>>
    <3>1. /\ \/ pc' = [pc EXCEPT ![p] = "done"] /\ exit' = [exit EXCEPT ![p] = "1"]
                /\ prompted' = prompted
             \/ pc' = [pc EXCEPT ![p] = "dialog"] /\ exit' = exit
                /\ prompted' = prompted \cup {p}
          /\ UNCHANGED <<found, got, gone>>
      BY <1>7, <2>1, <2>2 DEF Add
    <3> QED
      BY <1>0, <1>1, <2>1, <2>2, <3>1 DEF Stage, LookedUp, PromptAllowed, CauseHeld, StoredStays,
         KeychainTypeOK, Resolving, Adding, Readable, Target, Mine
  <2>3. CASE ~UNCHANGED <<items, stored, failed>>
    <3>1. /\ items' = items \cup {job[p].item} /\ stored' = stored \cup {p}
          /\ pc' = [pc EXCEPT ![p] = "done"]
          /\ UNCHANGED <<found, got, gone, prompted>>
      BY <1>7, <2>3 DEF Add
    <3>2. \/ exit' = [exit EXCEPT ![p] = "0"]
          \/ exit' = [exit EXCEPT ![p] = "1"]
          \/ exit' = [exit EXCEPT ![p] = "4"] /\ failed' = [failed EXCEPT ![p] = "unavailable"]
      BY <1>7, <2>3 DEF Add
    <3>3. StoredStays(p)'
      BY <1>0, <2>1, <3>1 DEF StoredStays, Adding, At, KeychainTypeOK
    <3>4. Stage(p)' /\ LookedUp(p)' /\ PromptAllowed(p)'
      BY <1>0, <1>1, <2>1, <3>1, <3>2 DEF Stage, LookedUp, PromptAllowed, KeychainTypeOK, Resolving,
         Adding, Readable, Target, Mine
    <3>5. CauseHeld(p)'
      BY <1>0, <1>1, <2>1, <3>1, <3>2 DEF CauseHeld, KeychainTypeOK
    <3> QED BY <3>3, <3>4, <3>5
  <2> QED BY <2>2, <2>3
<1> QED BY <1>2, <1>3, <1>4, <1>5, <1>6, <1>7, <1>8, <1>9 DEF Step

(* What a step of p leaves alone. *)
LEMMA OthersUntouched ==
    ASSUME KeychainInv, NEW p \in Procs, Step(p), Remember, NEW q \in Procs \ {p}
    PROVE  Untouched(q) /\ items \subseteq items' /\ gone' = gone
<1> USE DEF KeychainInv, KeychainTypeOK, Untouched, Goto, End, world
<1>1. facts[q] \subseteq facts'[q]
  BY FactsGrow
<1> QED
  BY <1>1 DEF Step, Start, EnterSecret, DefaultKeychain, Lookup, Read, Answer, Add, Fail

(* The invariant is inductive: one step per kind of step. *)
LEMMA KeychainStep == KeychainInv /\ [Next]_vars => KeychainInv'
<1> SUFFICES ASSUME KeychainInv, [Next]_vars PROVE KeychainInv'
  OBVIOUS
<1>1. KeychainTypeOK'
  BY KeychainTypeStep
<1>2. ASSUME NEW p \in Procs, Step(p), Remember PROVE (\A q \in Procs : Held(q))' /\ OneOfEach'
  <2>1. Held(p)'
    BY <1>2, HeldOwn
  <2>2. \A q \in Procs \ {p} : Untouched(q) /\ Held(q)'
    BY <1>2, OthersUntouched, HeldUntouched DEF KeychainInv
  <2>3. OneOfEach'
    <3>1. CASE UNCHANGED stored
      BY <1>2, <3>1 DEF Step, Start, EnterSecret, DefaultKeychain, Lookup, Read, Answer, Add, Fail,
         KeychainInv, OneOfEach, Mine, Readable, world
    <3>2. CASE ~UNCHANGED stored
      <4>1. /\ Bearing(Mine(p)) = {} /\ stored' = stored \cup {p}
            /\ UNCHANGED <<gone, job>>
        BY <1>2, <3>2 DEF Step, Start, EnterSecret, DefaultKeychain, Lookup, Read, Answer, Add, Fail, world
      <4>2. \A q \in stored : Mine(q) = Mine(p) => q \in gone
        BY <4>1 DEF KeychainInv, KeychainTypeOK, Held, StoredStays, Adding, Mine, Bearing, At
      <4> QED
        BY <4>1, <4>2 DEF KeychainInv, OneOfEach, Mine, Readable
    <3> QED BY <3>1, <3>2
  <2> QED BY <2>1, <2>2, <2>3
<1>3. ASSUME Change, Remember PROVE (\A q \in Procs : Held(q))' /\ OneOfEach'
  <2>1. /\ job' = job /\ stored' = stored /\ gone \subseteq gone'
        /\ gone' = gone \cup {p \in stored : \A i \in items' : i.ref # job[p].item.ref}
    BY <1>3 DEF Change
  <2>2. \A q \in Procs : Untouched(q)
    BY <1>3, FactsGrow DEF Change, KeychainInv, Untouched
  <2>4. \A q \in stored : q \in gone' \/ At(job[q].item.ref)' # {}
    BY <2>1 DEF At
  <2>3. \A q \in Procs : Held(q)'
    BY <2>1, <2>2, <2>4, HeldUntouched DEF KeychainInv
  <2> QED BY <2>1, <2>3 DEF OneOfEach, KeychainInv, Mine, Readable
<1>4. ASSUME UNCHANGED vars PROVE (\A q \in Procs : Held(q))' /\ OneOfEach'
  <2>1. \A q \in Procs : Untouched(q)
    BY <1>4 DEF vars, Untouched
  <2>2. \A q \in Procs : Held(q)'
    BY <1>4, <2>1, HeldUntouched DEF KeychainInv, vars
  <2>3. OneOfEach'
    BY <1>4 DEF vars, KeychainInv, OneOfEach, Mine, Readable
  <2> QED BY <2>2, <2>3
<1> QED BY <1>1, <1>2, <1>3, <1>4 DEF Next, Finished, KeychainInv

-----------------------------------------------------------------------------
(* Every command keeps its types, and no two items get the same reference.            *)
THEOREM KeychainTypeCorrect == Spec => []KeychainTypeOK
<1>1. KeychainInv => KeychainTypeOK
  BY DEF KeychainInv
<1> QED BY KeychainInit, KeychainStep, <1>1, PTL DEF Spec

(* No dialog for a command that was given --no-input, or that has not settled on one  *)
(* item (authentication_ui_fail, _persistent_reference_for).                          *)
THEOREM PromptsWhenAllowed == Spec => []PromptsOnlyWhenAllowed
<1>1. KeychainInv => PromptsOnlyWhenAllowed
  BY DEF KeychainInv, KeychainTypeOK, Held, PromptAllowed, PromptsOnlyWhenAllowed, Resolving
<1> QED BY KeychainInit, KeychainStep, <1>1, PTL DEF Spec

(* Whatever other programs do, an exit status names a cause that held at some instant *)
(* of the command (_raise_for_status, _fail_provider).                                *)
THEOREM CauseWasTrue == Spec => []ExitNamesTheCause
<1>1. KeychainInv => ExitNamesTheCause
  BY DEF KeychainInv, Held, CauseHeld, ExitNamesTheCause
<1> QED BY KeychainInit, KeychainStep, <1>1, PTL DEF Spec

(* A success of `add` means a new item that stays until another program takes it      *)
(* away, and of two for one identity one was taken away (KeychainProvider.create).    *)
THEOREM AddsOnce == Spec => []AddedIsStored
<1>1. ASSUME KeychainInv PROVE AddedIsStored
  <2>1. \A p \in Procs : job[p].kind = "add" /\ exit[p] = "0" => p \in stored
    BY <1>1 DEF KeychainInv, Held, StoredStays, Adding
  <2>2. \A p \in stored \ gone : At(job[p].item.ref) # {}
    BY <1>1 DEF KeychainInv, KeychainTypeOK, Held, StoredStays
  <2> QED BY <1>1, <2>1, <2>2 DEF AddedIsStored, KeychainInv, OneOfEach
<1> QED BY KeychainInit, KeychainStep, <1>1, PTL DEF Spec

(* The secret that is delivered is that of an item which bears the identity asked for *)
(* at the instant it is read, and which was the only one (KeychainProvider.resolve).  *)
THEOREM ResolvesExactly == Spec => ResolvedIsExact
<1> DEFINE Exact ==
      \A p \in Procs : got'[p] # got[p] =>
         /\ \E i \in Bearing(Mine(p)) :
              i.secret = got'[p] /\ (Readable(p) \/ i.ref = job[p].asked)
         /\ Readable(p) => "alone" \in facts'[p]
<1>1. ASSUME KeychainInv, [Next]_vars PROVE [Exact]_vars
  <2> SUFFICES ASSUME NEW p \in Procs, got'[p] # got[p], Step(p), Remember
               PROVE  /\ \E i \in Bearing(Mine(p)) :
                           i.secret = got'[p] /\ (Readable(p) \/ i.ref = job[p].asked)
                      /\ Readable(p) => "alone" \in facts'[p]
    <3>1. \A q, p \in Procs : Step(q) /\ Remember /\ got'[p] # got[p] => p = q
      BY <1>1, OthersUntouched DEF Untouched
    <3> QED BY <1>1, <3>1 DEF Next, Change, Finished
  <2>1. Resolving(p) /\ Target(p) # None
    BY <1>1 DEF Step, Start, EnterSecret, DefaultKeychain, Lookup, Read, Answer, Add, Fail, KeychainInv,
       Held, Stage, PromptAllowed, Resolving
  <2>2. PICK i \in At(Target(p)) : got' = [got EXCEPT ![p] = i.secret]
    BY DEF Step, Start, EnterSecret, DefaultKeychain, Lookup, Read, Answer, Add, Fail
  <2>3. got'[p] = i.secret /\ i \in items /\ i.ref = Target(p)
    BY <1>1, <2>2 DEF KeychainInv, KeychainTypeOK, At
  <2>4. facts[p] \subseteq facts'[p] /\ Held(p)
    BY <1>1, FactsGrow DEF KeychainInv
  <2> QED
    BY <2>1, <2>3, <2>4 DEF Held, LookedUp, Target, Mine, Bearing, Resolving
<1> QED BY KeychainInit, KeychainStep, <1>1, PTL DEF Spec, ResolvedIsExact

=============================================================================
