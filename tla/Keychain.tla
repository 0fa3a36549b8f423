------------------------------- MODULE Keychain -------------------------------
(***************************************************************************)
(* The Keychain provider: `set` and `run` resolving a credential by its    *)
(* readable identity (a lookup, then a read by the reference it returned)  *)
(* or by its persistent reference, and `add` creating one, while Keychain  *)
(* Access and other programs add, remove, rename and rewrite items, lock   *)
(* the Keychain or take it away between any two native calls.              *)
(***************************************************************************)
EXTENDS Naturals, FiniteSets

CONSTANTS
    Procs,      \* the `ainv` commands
    Services,   \* kSecAttrService
    Accounts,   \* kSecAttrAccount
    Copies,     \* tells apart references of items with the same identity
    Secrets,    \* secret values
    None,       \* nothing yet
    Jobs,       \* the commands of this instance
    MaxChanges  \* bound of the model: changes made by other programs

Identities == [service : Services, account : Accounts]

(* macOS was observed to change an item's reference with its identity, and to reuse   *)
(* the reference when the same identity is created again.                             *)
Refs == [identity : Identities, copy : Copies]

Items == [ref : Refs, secret : Secrets]

(* A credential is asked for by its readable identity or by its reference. *)
JobType ==
    [kind : {"resolve"}, asked : Identities \cup Refs, noInput : BOOLEAN]
        \cup [kind : {"add"}, item : Items, noInput : BOOLEAN]

(* The exit codes of the commands that are modelled. *)
Codes == {"0", "1", "2", "3", "4", "5", "7"}

(* What may go wrong although nothing is wrong with the Keychain: a status that says   *)
(* nothing more, one that blames the query, an exception or a malformed result of the *)
(* bridge (which the backend turns into errSecNotAvailable), errSecAuthFailed without *)
(* a dialog, or the hidden prompt of `add`.                                           *)
Faults == {"other", "param", "unavailable", "denied", "input"}

ASSUME KeychainAssumption ==
    /\ Jobs \subseteq JobType
    /\ None \notin Refs \cup Secrets \cup Codes \cup Faults /\ MaxChanges \in Nat

VARIABLES
    items,      \* the generic passwords of the default Keychain
    blocked,    \* reading or adding needs the person's consent
    missing,    \* there is no usable default Keychain
    changes,    \* changes made by other programs so far
    job,        \* job[p]: p's command
    pc,         \* pc[p]: p's next call
    found,      \* found[p]: the reference p's lookup returned
    got,        \* got[p]: the secret p resolved
    exit,       \* exit[p]: "0", or the exit code of p's error
    prompted,   \* the commands for which a native dialog was shown
    stored,     \* the commands whose item was added
    gone,       \* of these, the ones whose item other programs took away or renamed
    failed,     \* failed[p]: the fault that ended p's command
    facts       \* facts[p]: what was true at some instant of p's command

world == <<items, blocked, missing, changes>>
vars == <<items, blocked, missing, changes, job, pc, found, got, exit, prompted, stored,
          gone, failed, facts>>

(* Wrong on purpose: a locked Keychain is reported like a credential that is gone. *)
CodeOfLockedAsMissing(status) ==
    CASE status \in {"notFound", "interaction"} -> "3"
      [] status = "unavailable" -> "4"
      [] status = "denied" -> "5"
      [] status = "param" -> "2"
      [] OTHER -> "1"

(* _raise_for_status, then _fail_provider. *)
CodeOf(status) ==
    CASE status = "notFound" -> "3"
      [] status \in {"interaction", "unavailable"} -> "4"
      [] status = "denied" -> "5"
      [] status = "param" -> "2"
      [] OTHER -> "1"

Readable(p) == job[p].asked \in Identities

(* The identity p's command is about. *)
Mine(p) ==
    IF job[p].kind = "add" THEN job[p].item.ref.identity
    ELSE IF Readable(p) THEN job[p].asked ELSE job[p].asked.identity

Bearing(identity) == {i \in items : i.ref.identity = identity}

At(ref) == {i \in items : i.ref = ref}

KeychainTypeOK ==
    /\ items \in SUBSET Items /\ \A i, j \in items : i.ref = j.ref => i = j
    /\ blocked \in BOOLEAN /\ missing \in BOOLEAN /\ changes \in 0..MaxChanges
    /\ job \in [Procs -> Jobs]
    /\ pc \in [Procs -> {"start", "input", "default", "lookup", "read", "dialog", "add", "done"}]
    /\ found \in [Procs -> Refs \cup {None}] /\ got \in [Procs -> Secrets \cup {None}]
    /\ exit \in [Procs -> Codes \cup {None}]
    /\ prompted \in SUBSET Procs /\ stored \in SUBSET Procs /\ gone \in SUBSET stored
    /\ failed \in [Procs -> Faults \cup {None}]
    /\ facts \in [Procs -> SUBSET {"alone", "absent", "blocked", "missing"}]

Unique(S) == \A i, j \in S : i.ref = j.ref => i = j

Init ==
    /\ items \in {S \in SUBSET Items : Unique(S) /\ Cardinality(S) <= 2}
    /\ blocked \in BOOLEAN /\ missing = FALSE /\ changes = 0
    /\ job \in [Procs -> Jobs]
    /\ pc = [p \in Procs |-> "start"]
    /\ found = [p \in Procs |-> None]
    /\ got = [p \in Procs |-> None]
    /\ exit = [p \in Procs |-> None]
    /\ prompted = {} /\ stored = {} /\ gone = {}
    /\ failed = [p \in Procs |-> None]
    /\ facts = [p \in Procs |-> {}]

-----------------------------------------------------------------------------
Goto(p, to) == pc' = [pc EXCEPT ![p] = to] /\ UNCHANGED exit

End(p, code) == pc' = [pc EXCEPT ![p] = "done"] /\ exit' = [exit EXCEPT ![p] = code]

(* `add --no-input` ends here: nothing can be prompted for. *)
Start(p) ==
    /\ pc[p] = "start"
    /\ IF job[p].kind = "add"
       THEN IF job[p].noInput THEN End(p, "5") ELSE Goto(p, "input")
       ELSE Goto(p, "default")
    /\ UNCHANGED <<world, job, found, got, prompted, stored, gone, failed>>

(* _prompt_new_secret and _creation_metadata: no terminal or no answer (5), an empty   *)
(* secret or unusable metadata (2), a secret that is not text (7).                    *)
EnterSecret(p) ==
    /\ pc[p] = "input"
    /\ \/ Goto(p, "default") /\ UNCHANGED failed
       \/ (\E code \in {"2", "5", "7"} : End(p, code)) /\ failed' = [failed EXCEPT ![p] = "input"]
    /\ UNCHANGED <<world, job, found, got, prompted, stored, gone>>

(* The reference p is to read, once it has one. *)
Target(p) == IF Readable(p) THEN found[p] ELSE job[p].asked

(* _default_keychain, before each of the native calls. *)
DefaultKeychain(p) ==
    /\ pc[p] = "default"
    /\ IF missing THEN End(p, CodeOf("unavailable"))
       ELSE Goto(p, IF job[p].kind = "add" THEN "add"
                    ELSE IF Target(p) = None THEN "lookup" ELSE "read")
    /\ UNCHANGED <<world, job, found, got, prompted, stored, gone, failed>>

(* Wrong on purpose: the account is left out of the query, the first match taken. *)
LookupByService(p) ==
    /\ pc[p] = "lookup"
    /\ \E i \in items :
          /\ i.ref.identity.service = Mine(p).service
          /\ found' = [found EXCEPT ![p] = i.ref]
    /\ Goto(p, "default")
    /\ UNCHANGED <<world, job, got, prompted, stored, gone, failed>>

(* _persistent_reference_for: metadata only, never with a dialog, exactly one match. *)
Lookup(p) ==
    /\ pc[p] = "lookup"
    /\ LET matches == Bearing(Mine(p))
       IN  \/ \E i \in matches :
                /\ matches = {i}
                /\ found' = [found EXCEPT ![p] = i.ref]
                /\ Goto(p, "default")
           \/ matches = {} /\ End(p, CodeOf("notFound")) /\ UNCHANGED found
           \/ Cardinality(matches) > 1 /\ End(p, "1") /\ UNCHANGED found
           \/ blocked /\ End(p, CodeOf("interaction")) /\ UNCHANGED found
    /\ UNCHANGED <<world, job, got, prompted, stored, gone, failed>>

(* Wrong on purpose: --no-input is not handed to the native query. *)
ReadWithDialog(p) ==
    /\ pc[p] = "read"
    /\ At(Target(p)) # {}
    /\ Goto(p, "dialog") /\ prompted' = prompted \cup {p}
    /\ UNCHANGED <<world, job, found, got, stored, gone, failed>>

(* _resolve_persistent_reference: the dialog is allowed unless --no-input. *)
Read(p) ==
    /\ pc[p] = "read"
    /\ \/ \E i \in At(Target(p)) :
            /\ ~blocked
            /\ got' = [got EXCEPT ![p] = i.secret]
            /\ End(p, "0") /\ UNCHANGED prompted
       \/ At(Target(p)) = {} /\ End(p, CodeOf("notFound")) /\ UNCHANGED <<got, prompted>>
       \/ /\ At(Target(p)) # {} /\ blocked /\ UNCHANGED got
          /\ IF job[p].noInput
             THEN (\E s \in {"interaction", "denied"} : End(p, CodeOf(s))) /\ UNCHANGED prompted
             ELSE Goto(p, "dialog") /\ prompted' = prompted \cup {p}
    /\ UNCHANGED <<world, job, found, stored, gone, failed>>

(* Inside the same native call: the person answers, the item may be gone by then. *)
Answer(p) ==
    /\ pc[p] = "dialog"
    /\ \/ End(p, CodeOf("denied")) /\ UNCHANGED <<items, got, stored>>
       \/ /\ job[p].kind = "resolve"
          /\ \/ \E i \in At(Target(p)) :
                  got' = [got EXCEPT ![p] = i.secret] /\ End(p, "0")
             \/ At(Target(p)) = {} /\ End(p, CodeOf("notFound")) /\ UNCHANGED got
          /\ UNCHANGED <<items, stored>>
       \/ job[p].kind = "add" /\ Goto(p, "add") /\ UNCHANGED <<items, got, stored>>
    /\ UNCHANGED <<blocked, missing, changes, job, found, prompted, gone, failed>>

(* Wrong on purpose: a credential that exists already counts as added. *)
AddToleratingDuplicates(p) ==
    /\ pc[p] = "add"
    /\ IF Bearing(Mine(p)) = {}
       THEN items' = items \cup {job[p].item} /\ stored' = stored \cup {p}
       ELSE UNCHANGED <<items, stored>>
    /\ End(p, "0")
    /\ UNCHANGED <<blocked, missing, changes, job, found, got, prompted, gone, failed>>

(* KeychainProvider.create: SecItemAdd stores the item or refuses a duplicate; a      *)
(* result without a reference (1) or that is malformed (4) is an error although the   *)
(* item was stored.                                                                   *)
Add(p) ==
    /\ pc[p] = "add"
    /\ LET item == job[p].item IN
       \/ /\ Bearing(Mine(p)) # {}
          /\ End(p, CodeOf("duplicate")) /\ UNCHANGED <<items, stored, prompted, failed>>
       \/ /\ Bearing(Mine(p)) = {} /\ blocked /\ p \notin prompted
          /\ Goto(p, "dialog") /\ prompted' = prompted \cup {p}
          /\ UNCHANGED <<items, stored, failed>>
       \/ /\ Bearing(Mine(p)) = {} /\ (~blocked \/ p \in prompted)
          /\ items' = items \cup {item} /\ stored' = stored \cup {p}
          /\ \/ End(p, "0") /\ UNCHANGED failed
             \/ \E fault \in {"other", "unavailable"} :
                  End(p, CodeOf(fault)) /\ failed' = [failed EXCEPT ![p] = fault]
          /\ UNCHANGED prompted
    /\ UNCHANGED <<blocked, missing, changes, job, found, got, gone>>

(* Any native call may fail for a reason of its own, with or without a dialog; only a  *)
(* query may be told that its parameters, the reference among them, are unacceptable. *)
Fail(p) ==
    /\ pc[p] \in {"default", "lookup", "read", "dialog", "add"}
    /\ \E fault \in {"other", "param", "unavailable", "denied"} :
          /\ fault = "param" => pc[p] # "add" /\ job[p].kind = "resolve"
          /\ failed' = [failed EXCEPT ![p] = fault]
          /\ End(p, CodeOf(fault))
    /\ UNCHANGED <<world, job, found, got, prompted, stored, gone>>

-----------------------------------------------------------------------------
(* Keychain Access, or another program: create (or copy in), delete, rename, rewrite,  *)
(* lock, unlock, change the default Keychain.                                          *)
Change ==
    /\ changes < MaxChanges /\ changes' = changes + 1
    /\ \/ \E i \in Items :
            /\ Unique(items \cup {i}) /\ items' = items \cup {i}
            /\ UNCHANGED <<blocked, missing>>
       \/ (\E i \in items : items' = items \ {i}) /\ UNCHANGED <<blocked, missing>>
       \/ \E i \in items, j \in Items :
            /\ Unique((items \ {i}) \cup {j}) /\ items' = (items \ {i}) \cup {j}
            /\ UNCHANGED <<blocked, missing>>
       \/ blocked' = ~blocked /\ UNCHANGED <<items, missing>>
       \/ missing' = ~missing /\ UNCHANGED <<items, blocked>>
    /\ gone' = gone \cup {p \in stored : \A i \in items' : i.ref # job[p].item.ref}
    /\ UNCHANGED <<job, pc, found, got, exit, prompted, stored, failed>>

(* What p could observe of the Keychain in this state. *)
FactsOf(p) ==
    {f \in {"alone", "absent", "blocked", "missing"} :
       \/ f = "alone" /\ Cardinality(Bearing(Mine(p))) = 1
       \/ /\ f = "absent" /\ job[p].kind = "resolve"
          /\ \/ Readable(p) /\ Bearing(Mine(p)) = {}
             \/ Target(p) # None /\ At(Target(p)) = {}
       \/ f = "blocked" /\ blocked
       \/ f = "missing" /\ missing}

Remember ==
    facts' = [p \in Procs |->
                IF pc[p] \in {"start", "done"} THEN facts[p] ELSE facts[p] \cup FactsOf(p)]

Step(p) ==
    \/ Start(p) \/ EnterSecret(p) \/ DefaultKeychain(p) \/ Lookup(p) \/ Read(p)
    \/ Answer(p) \/ Add(p) \/ Fail(p)

Finished == (\A p \in Procs : pc[p] = "done") /\ UNCHANGED vars

Next ==
    \/ (\E p \in Procs : Step(p)) /\ Remember
    \/ Change /\ Remember
    \/ Finished

Spec == Init /\ [][Next]_vars

-----------------------------------------------------------------------------
(* The secret that is delivered is, at the instant it is read, the secret of an item  *)
(* that bears the identity that was asked for, and for a readable identity there was  *)
(* an instant at which no other item did ("It never chooses an arbitrary first        *)
(* match", SPEC.md; KeychainProvider.resolve).                                        *)
ResolvedIsExact ==
    [][\A p \in Procs : got'[p] # got[p] =>
         /\ \E i \in Bearing(Mine(p)) :
              i.secret = got'[p] /\ (Readable(p) \/ i.ref = job[p].asked)
         /\ Readable(p) => "alone" \in facts'[p]]_vars

(* No native dialog is shown for a command that was given --no-input, nor for one     *)
(* that has not yet settled on one item (authentication_ui_fail).                     *)
PromptsOnlyWhenAllowed ==
    \A p \in prompted :
        /\ ~job[p].noInput
        /\ job[p].kind = "resolve" => Target(p) # None

(* The exit status names a cause that held at some instant of the command: 3 that the *)
(* credential was not there, 4 that the Keychain was locked or unusable or the bridge *)
(* to it failed, 5 that a dialog was shown, that none was allowed and one was needed, *)
(* that macOS refused on its own or that the secret was not entered.  Only a command  *)
(* that succeeds has a secret (_raise_for_status and _fail_provider).                 *)
ExitNamesTheCause ==
    \A p \in Procs :
        /\ exit[p] = "3" => "absent" \in facts[p]
        /\ exit[p] = "4" => {"blocked", "missing"} \cap facts[p] # {} \/ failed[p] = "unavailable"
        /\ exit[p] = "5" =>
             \/ p \in prompted \/ failed[p] \in {"denied", "input"}
             \/ job[p].noInput /\ (job[p].kind = "add" \/ "blocked" \in facts[p])
        /\ exit[p] # None /\ exit[p] # "0" => got[p] = None

(* `add` that succeeds has stored its own item, and it is there until another program *)
(* takes it away or renames it, other `add` or not; so two of one identity store      *)
(* theirs only when the item of one of them was taken away ("creates one item and     *)
(* never replaces a duplicate", KeychainProvider.create).                             *)
AddedIsStored ==
    /\ \A p \in Procs : job[p].kind = "add" /\ exit[p] = "0" => p \in stored
    /\ \A p \in stored \ gone : At(job[p].item.ref) # {}
    /\ \A p, q \in stored : p # q /\ Mine(p) = Mine(q) => p \in gone \/ q \in gone

=============================================================================
