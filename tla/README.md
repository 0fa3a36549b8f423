# Verification of `ainv`

`ainv` is a small CLI that delivers credentials from a provider (the macOS
Keychain) to one of two places, after an optional human approval and without
ever printing a value: a dotenv file (`ainv set`) or the environment of one
child process (`ainv run`). This directory holds TLA+ models of the code under
`src/src/ainv/`, the TLC instances that check them, and TLAPS proofs about the
core. Line numbers below are those of that source.

## 1. The system

| Part | Source | State it keeps | Operations |
|---|---|---|---|
| dotenv destination | `dotenv.py` 100-142, 145-222, 323-421 | the destination file, its directory's `flock`, one temporary file per process | `validate_dotenv_destinations`, `mutate_dotenv_many`, `_directory_lock`, `_read_destination`, `_atomic_replace` |
| dotenv line editor | `dotenv.py` 68-91, 225-320 | none (pure) | `_validate_target`, `_mutated_bytes`, `_append_assignment`, `encode_value` |
| `set`, `run`, authorization | `cli.py` 408-650, 880-991 | one request | `set_command`, `run_command`, `_authorize_delivery`, `_fail_provider` |
| activity history | `history.py` | `history.jsonl`, one backup, a directory `flock` | `append_history`, `read_history` |
| Git policy | `git.py` | none (asks `git`) | `destination_status`, `enforce_destination_policy` |
| configuration | `config.py`, `cli.py` 162-223 | `config.toml` | `load_config`, `save_config`, `ainv config` |
| approval | `approval.py` | none (native dialog) | `approve` |
| Keychain provider | `providers/keychain.py` | the user's Keychain (external) | `search`, `resolve`, `create` |
| registry, models | `providers/registry.py`, `models.py`, `errors.py` | a table filled at import | `get`, `register` |
| hidden prompt, `add` | `cli.py` 351-397, 751-811 | terminal modes | `add_command` |
| requesting application | `approval.py` 140-287 | none | process ancestry, for display |
| output of `find`, `providers`, `history`, `config` | `cli.py` | none | formatting |

How they interact. `set_command` validates the targets in the destination (under
the directory lock, then releases it), asks Git about the destination, resolves
its canonical path, loads the configuration, perhaps shows a dialog, appends a
history record, resolves each binding, asks Git again, and only then lets
`mutate_dotenv_many` lock, re-read, re-validate, and replace the file.
`run_command` shares the middle of that path and ends in `os.execvpe`. Nothing
runs in threads; concurrency comes from several `ainv` processes and from
programs that know nothing of `ainv` (an editor, `git add`, another `ainv
config`, Keychain Access, the shell that owns the terminal), interleaved between
any two system calls. Long waits (the dialog, the Keychain's own prompt) fall
*between* the two passes over the destination.

What is hard, and hence what the properties are about: two writers and a lost
update; a check made before a human answers and used after; the order of write,
`fsync`, `rename` and directory `fsync` under a power loss; which `finally` runs
on which failure; a lock whose holder dies or stops; torn history tails and
rotations cut in the middle, by a kill or by the loss of power; an answer put
together from several looks at a world that moves on (Git, the process tree, the
Keychain); the arithmetic of line endings and of field bounds; a terminal left
mute; and whether exit status and history record tell the truth. `PROJECT.json`
lists each hazard at its line under `hazards`.

What makes each part correct:

* destination: whole requests, each applied at one instant to the document of
  that instant; durable once reported; a populated name needs `--force`; the lock
  is never leaked; no plaintext temporary file is left behind;
* editor: only the targets change, whatever the order of the bindings, and every
  other line keeps its text and its ending;
* authorization: nothing delivered without consent, one true record, nothing
  partial, a truthful exit status;
* history: bounded size, ordered, loses its oldest records only, keeps over a
  power loss what was reported, never delays a delivery, and never writes a record
  its own reader refuses;
* configuration: a load sees one setting that was in force, a saved setting
  stays, and approvals never stop being required without anybody asking for it;
* Keychain: the credential that was asked for and no other, a dialog only when
  one is allowed, an exit status that names what really happened, and a search
  whose cut does not depend on the order the Keychain happens to have;
* command line: every word is read once, as a binding or as part of the command;
* Git policy: an answer that was true at one instant of the call;
* requesting application: the nearest ancestor that has one, or none;
* hidden prompt: no key of a secret shown or left to the shell, echo restored.

## 2. Modules

```
DotenvView            what a dotenv file says of each name; what a request asks
 |- DotenvStore       ABSTRACT: an atomic, durable store of one document
 |   `- DotenvStoreProofs  what the store keeps; used in DotenvFileProofs
 |- DotenvFile        the system calls of `ainv set`; implements DotenvStore
 |   |- DotenvEditors      + programs that ignore the lock
 |   |   `- DotenvTemporaries  + whose clean-up broke
 |   `- DotenvFileProofs   theorems about all three, the refinement among them
 |- DotenvDocument    the line editor; computes DotenvView's operators
 |   `- DotenvDocumentProofs  theorems about DotenvDocument
 `- Delivery          one `set` / `run` request in a changing environment
     `- DeliveryProofs     theorems about Delivery
CommandLine           the words of `set` and `run`: bindings and the command
HistoryRecord         one record: what is written, what the reader accepts
Subsequences          parts of a sequence: which lines of a file are records,
                      which records of a log are left
HistoryLog            ABSTRACT: an ordered log that forgets its oldest records
 `- History           files, rotation, torn tails, power loss, bounded lock;
     |                implements HistoryLog
     `- HistoryProofs      theorems about History
Config                config.toml: load, change, save without a lock
 `- ConfigProofs           theorems about Config
Keychain              resolve and add, in a Keychain that changes
 `- KeychainProofs         theorems about Keychain
KeychainSearch        find: matching, order, limit
GitStatus             the classification of the destination, look by look
Requester             the walk up the process tree
HiddenPrompt          a secret read from the terminal
 `- CallsProofs            theorems about GitStatus, Requester, HiddenPrompt,
                           CommandLine, HistoryRecord and KeychainSearch
MC<module>            small instances for TLC; MCDotenvEditors that of
                      DotenvTemporaries; MCValues enumerates the inputs of the
                      pure algorithms, MCCalls runs them and the three calls
```

**DotenvView.** A file is a function from names to marks: absent, empty, a
populated value, or bad (malformed or assigned twice). `Acceptable` is
`_validate_target` over all targets, `Updated` the fold of `_mutated_bytes`. That
these two operators are what the byte-level editor computes is not assumed: it is
`EditsTheView` in `DotenvDocument`.

**DotenvFile.** A process is `pc[p]`, one value per system call, in two passes
(`phase`). Files are inodes: `entry` is the one the destination's name refers to,
`onDisk` the set the name may refer to after a power loss (a rename adds to it,
the directory `fsync` collapses it), `synced` the files whose content survives.
Actions and code:

| Action | Code |
|---|---|
| `Lock`, `Unlock` | `_directory_lock`: `flock(LOCK_EX)`, and its `finally` |
| `Stat`, `Open`, `Refuse` | `_read_destination`: `stat`, then `open`/`fstat`/compare, and their errors |
| `Validate` | `_validate_target` on every target; the preflight returns here |
| `Create`, `Write`, `Sync`, `Close` | `_atomic_replace` up to the close of the temporary file |
| `Recheck` | `_destination_is_unchanged` |
| `Rename`, `DirSync` | `os.replace`, `fsync` of the directory |
| `Reclose`, `Cleanup` | `_atomic_replace`'s `finally`: the descriptor, then the name |
| `FailInside`, `FailOutside` | any call raises, or Ctrl-C: the `finally` blocks open there run, and may be cut short themselves |
| `InterruptCreate` | Ctrl-C between the creation of the file and the assignment of its name |
| `FailUnlock` | the `finally` of `_directory_lock` fails: after a rename the request ends in an error although it took effect |
| `Resolve` | all that happens between the passes, without the lock |
| `Kill`, `PowerLoss` | SIGKILL (the kernel drops the lock); everything volatile goes |

`Faults` says which of the environment's faults a run includes. A failing close
before the recheck leaves the section by way of the second close in the `finally`,
which raises in its turn, so that the unlink is not reached.

**DotenvEditors** adds, between any two of these steps, a program that replaces
the destination, removes it, rewrites it in place or hard-links it, and ghosts
that remember which processes were already past the check that could notice.

**DotenvTemporaries** adds to these steps which processes' creation, close or
clean-up of the temporary file failed: only there may the file stay.

**DotenvDocument** models text as the lines `str.splitlines` returns, each with
the ending it has, and translates the validation, replacement and append of
`dotenv.py` on them. `LayoutKept` compares the text before and after an edit line by
line and knows what the request targets: a duplicate or malformed assignment of
another name, and a valid one, keep their bytes.

**Delivery** is one request from parsed bindings to exit; the directory the path
goes through, Git's answer, the file and the configuration may change before
every step. The mutation is one step, which is what `DotenvFile` is shown to
implement; it may succeed and still exit 6 (the directory `fsync` failed) or 1 (the
lock could not be released, or nobody reads what `Report` prints). `Fail` is `_fail`:
it prints before it exits, so a closed standard error turns any status into 1.
`Record` is the append with its warning: an append may fail *after* its line was
written (`history.py:268-274`), and then the record is there and the warning too.
`Interrupt` is Ctrl-C, which no handler of `set` and `run` catches.

**Config** is `load_config` and `save_config`, one step per call another program
can observe (`Stat`, `Open`, `Read`; `Inspect`, `Write`, `Sync`, `Rename`,
`DirSync`), composed as `ainv config` composes them: load, change one field, save,
load again; `--reset` saves without loading. Files are inodes with `entry`,
`onDisk` and `synced` as in `DotenvFile`. The ghosts `window`, `stale` and
`overlapped` remember what was in force during a load and who renamed without
having seen the latest change; they are updated by `Remember` in every step and
guard nothing.

**Keychain** is `KeychainProvider.resolve` and `create`, one step per native
call: `DefaultKeychain` before each of them, `Lookup` (readable identity to
persistent reference, metadata only, never a dialog), `Read` (by reference, with
a dialog unless `--no-input`), `Add`. `CodeOf` and `End` are `_raise_for_status`
and `_fail_provider`. `Answer` is the person inside the native call, `Change`
everybody else. `EnterSecret` is the hidden prompt of `add` with its exits.
`Faults` are the failures that have nothing to do with the items: an unspecific
status, one that blames the query, an exception or malformed result of the PyObjC
bridge (which becomes "not available"), and `errSecAuthFailed` without a dialog. The
ghost `facts` remembers what was true of the Keychain while a command ran, `failed`
which of the faults ended it, `gone` whose item other programs took away.

**History** is `append_history` and `read_history`, one step per call: the lock
that is tried a bounded number of times, the size check, the rotation in its three
steps (`Unlink`, `Replace`, `SyncRotation`), `Open`, `Repair`, `Write` or
`WriteCut`, `Sync`, `DirSync`, and `Close` for the `finally`. Each file is a
sequence of tokens (the text of a record, a cut-off piece, a newline), so a torn
tail, its repair, and a record that becomes readable late because only its newline
was missing are all ordinary states. `onDisk` holds the directories a power loss
may bring back, `safe[f]` how much of a file it cannot take; `PowerLoss` ends every
process that has begun and leaves each file with a length between `safe` and what
was written, any unsynced token possibly garbage.

**HistoryLog** is what the history promises: one record per request in the order
of the appends; only the oldest are forgotten; a power loss takes none whose append
has returned. A record may be in the log although its append stopped.

**HistoryRecord** is `bounded_history_record`, and `_parse_record` with the
reader's check of the line's length, with the code's own constants. A text is a
number of characters of one kind, or of surrogates before or behind as many
literal escapes; what matters is how UTF-8, the escaping of surrogates, the cut and
JSON change it. `backslashreplace` is not injective: a surrogate and the escape that
spells it come out alike, in either order, and the record says no more than that the
field was escaped (`Told`). `LineBytes` is an upper bound of the serialized line.

**CommandLine** is `_parse_set_bindings` and `_parse_run_arguments` on words that
are split at their first `=`. Click has removed `--` by then, so the words alone
say where the child's command begins: a command whose own first word contains `=`
or looks like a reference is read as one more binding. The help text
(`cli.py:489-494`) calls the delimiter required and `SPEC.md` section 6 calls it
optional; the code treats it as optional.

**KeychainSearch** is `search` on the items in any order the Keychain returns
them: matching, the sort key with the persistent reference as its last part, the
limit, and the exit status of `find`.

**GitStatus** is `destination_status` on a small tree of directories, any of which may
hold a `.git`: the parents looked at one by one, `git rev-parse`, the second
resolution of the path, `ls-files`, `check-ignore`, each run of git finding its
worktree anew (`Tops`). The directory of the path and what the path denotes are
apart (`through`, `goal`), because the code resolves them at different times
(`git.py:29` and `43`). `GitChange` replaces a link, moves a directory together with
its `.git`, index and ignore files, stages or edits rules between any two looks.
`truths` collects what was the case during the call, `early` whether the path or a
`.git` changed before the second resolution, `since` the kinds of things that changed
after it.
The printed top level is stripped of white space (`git.py:42`), so a worktree whose
path ends in it is classified as outside; `blank` stands for that.

**Requester** is `_requesting_application`: `LookUpParent` and `Identify` in turns,
while processes end (launchd adopts their children) and identifiers are reused.

**HiddenPrompt** is `_prompt_new_secret` with `_read_hidden_input`, one step per
call on the terminal. `Unwound` says where an exception goes from each call: this
is the nesting of the two `try` blocks. A terminal hands out whole lines.

## 3. Runs

Properties name definitions of the module the MC module extends.

| Run | Instance | What it shows |
|---|---|---|
| `file` | 2 processes, 1 name, 2 values, every fault, fairness | the system calls implement `DotenvStore` (`ImplementsStore`), and so a reported value outlives power losses until a command legitimately replaces it (`CommittedSurvives`); `LockDiscipline`, `ReadIsCurrent`, `PowerLossLeavesWholeFile`, `PopulatedKept`; `Termination`: no failure path keeps the lock |
| `editors` | 2 processes, 2 foreign files, 2 edits, failing calls and interrupts | `OnlyLateChangesAreLost` says exactly which foreign changes can be lost; `OnlyRenamesPublish`; `NoPlaintextLeft`: a write, `fsync`, recheck or rename that fails never leaves the temporary file |
| `document` | 2 names, texts of up to 3 lines, LF/CRLF/CR | `EditsTheView`, `NeverFailsHalfWay`, `RetryIsIdempotent`, `LayoutKept` |
| `document_separators` | 2 lines, LF and one other separator | **violation** of `LayoutKept` (finding 1) |
| `delivery` | 5 requests, 2 directories, 2 changes | `NothingWithoutApproval`, `OneTrueRecord`, `WholeRequestOrNothing`, `ExitTellsTheTruth`, `OnlyLateGitChangesAreMissed`, `EveryOutcomeRecorded` |
| `delivery_retarget` | the same, 1 change | **violation** of `WritesWhatWasShown` (finding 2) |
| `delivery_broken_config` | the same, no change | **violation** of `AuthorizationRecorded` (finding 4) |
| `history` | 2 appends, 1 read, 5-unit files that may exist; kills, power losses; one process may stop forever | the files implement `HistoryLog` (`ImplementsLog`); `SizeBound`, `ReadIsConsistent`, `ActiveRecordsStay`; `NeverBlocked`: a stuck lock holder delays nobody else |
| `config` | 2 commands of 5 kinds, 1 editor save, power losses | `LoadsWhatWasInForce`, `AskedSettingStays`, `NoSilentDowngrade`: which steps may turn approvals off |
| `config_discards` | the same | **violation** of `BrokenIsKept` (finding 3) |
| `keychain` | 2 commands, 2 identities, 2 secrets, 1 change | `ResolvedIsExact`, `PromptsOnlyWhenAllowed`, `ExitNamesTheCause`, `AddedIsStored` |
| `calls` | 5 processes, 3 directories and 2 changes for Git, 3 keys; texts around every bound, up to 3 words, up to 3 items | `AnswerWasTrueOnce`, `NamesAnAncestor`, `EchoComesBack`, `SecretStaysHidden`; and, against reference definitions, `BuiltIsReadable` and `CutsAreMarked` of the record, `EveryWordOnce` of the command line, `FirstMatches` of the search |

The type invariants are not among the runs' properties: they are theorems
(section 4).

Why the bounds are enough to make the cases happen. Two processes suffice for
every pairwise race on the destination (the theorems of section 4 have no such
bound); one name is enough in `file` and `editors`, where names matter only through
`Acceptable` and `Updated`, because the theorems about that module hold for any
number of them and `document` and `delivery` have two, a target and a bystander; two
values tell whose write survived. One foreign file (plus "no file") covers a
destination that exists or not. Every request, `--force` or not, is an initial
choice. Three lines hold a duplicate, a
bystander and an unterminated last line at once. `MaxEdits = 2` lets an editor
act after the read and again after the recheck. In `delivery`, two changes allow
one before and one after the second Git check. With `MaxBytes = 5` a history file
holds two records, or one, a torn tail and the newline that repairs it. `history`
starts from every combination of a backup that exists or not and an active file
that is missing, holds a record, or a record and a torn tail, so that the first
append may already rotate, over a backup or not, be killed in the middle of it,
and leave the rest to the second. `Attempts` is six in the code; two are enough to
tell the last attempt from an earlier one. In `config`
two commands and one editor give every pair of writers, and a command beside both;
`SomeJobs` has one command of each kind the code tells apart (changing `history`
to `on` is the case of `approval` with the fields exchanged). In `keychain` the
second command adds items too, so one outside change is enough for an item to
vanish, be renamed, be duplicated or be locked between the lookup and the read;
two references of one identity are the ambiguous case. In `calls` every length is
just below, at or just above a bound of the code, or far above it, for every kind
of character, beside short texts and beside the longest; three words hold a
binding, the word that ends the bindings, and one behind it; three items hold two
that agree in all but their reference; surrogates stand alone, before and behind
literal escapes, in lengths that escape to one text. The three calls share no state,
with each other or with these inputs, and take turns to be the one that runs: one directory below another and one
elsewhere make nested worktrees and separate ones, and two changes are enough to join
looks at two of them; a call of which `AnswerWasTrueOnce` says no more, because the
changes it leaves open have happened, is not followed (`Promised`: they stay happened); three
processes beside launchd and ainv make
a chain, a fork, an orphan and a reused identifier; three keys make a character, the
end of its line, and one typed after it. Each
property has, in `PROJECT.json`, a plausible bug of the code (marked *Wrong on
purpose* in the modules) that makes the same run fail.

`Symmetry` permutes processes (or values) in the safety runs only, and only where
no definition names one of them.

### Fairness

`DotenvFile!FairSpec` assumes that a process able to make its next call makes it
(`WF` on `Step(p)`); failures, kills, power losses and the start of a command are
never forced. The scheduler justifies it for system calls; for `Lock` weak fairness
is enough here because each command takes the lock at most twice and there are
finitely many of them; for `Resolve` it means that the person and the Keychain
answer eventually, which the code relies on as well: it sets no limit to either.
`History!FairSpec` assumes the same of every process *except* `Stuck`, which may
stop anywhere, also holding the lock. The other modules state no fairness and no
liveness: they are one request's straight path, which ends when its calls return.

### Findings

1. `dotenv.py:235-240` splits with `str.splitlines`, which ends a line at VT, FF,
   FS, GS, RS, NEL, LS and PS too; `_split_line_ending` (299-304) gives back only
   LF, CRLF and CR. Replacing an assignment whose line ends in one of the others
   drops the separator and joins the next line to the value: unrelated text is
   not preserved (`SPEC.md:619`, `dotenv.py:3-5`).
2. `cli.py:440-449` resolves the destination for the dialog and the record;
   `mutate_dotenv_many` resolves `--file` again (`cli.py:464`, `dotenv.py:133`). A
   directory of the path replaced in between makes another file be written than
   the one shown and recorded (`SPEC.md:215`, section 5.7).
3. `ainv config --approval ...` loads (`cli.py:194`) and saves (`cli.py:201`)
   without a lock, and a save inspects only type, mode and owner of what it
   replaces. What an editor or a later version wrote in between, malformed or with
   an unknown setting, is renamed over unread (`SPEC.md:331`). The same race lets
   one of two updates be lost, which `AskedSettingStays` and `NoSilentDowngrade`
   name as their only such exception (`overlapped`, `stale`).
4. `_authorize_delivery` ends with status 5 when `load_config` refuses the
   configuration (`cli.py:577-580`), before there is anything to record with, while
   `SPEC.md:349-352` wants an `error` recorded for every request that passed
   destination validation. A Ctrl-C in the dialog (`cli.py:642-646`) leaves no record
   either. `EveryOutcomeRecorded` says what does hold, from a configuration that was
   loaded on.

## 4. Proofs

`DotenvFileProofs` proves, for every set of processes, foreign files, names and
values and every choice of `Faults`:

* `TypeCorrect`: every variable keeps its type;
* `InvCorrect`: `Spec => []IInv`;
* `LockDisciplineHolds`, `ReadIsCurrentHolds`, `PowerLossHolds`: from `IInv`;
* `PopulatedKeptHolds`: the action property, from `IInv`;
* `StoreImplemented`: `Spec => ImplementsStore`, the whole refinement;
* `CommittedSurvivesInFile`: what the store promises, of the file itself.

Neither property of the file is inductive alone. `ReadIsCurrent` needs
`LockDiscipline` (only the lock holder renames); `PowerLossLeavesWholeFile` needs
to know that a process about to rename has synced its file; the refinement needs
to know that the file it renames holds `Updated(buf[p], request[p])`, that the
request was acceptable for `buf[p]`, and that a process that has no outcome yet
and is not past its rename is not reachable by a power loss. `Progress` states what
each call has established for the next ones, and `IInv` is its conjunction with
the others and `entry \in onDisk`. The step case splits on the actions.
The refinement maps the rename to `Apply`, the directory `fsync` to `Report`, an
error or a kill to `GiveUp` or a stutter, and everything else to a stutter.

`DotenvDocumentProofs` proves the four properties of the line editor, for every
number of names, values and lines, every text and every request: `EditsTheView`
(what `DotenvFile` and `Delivery` take the editor to compute is what it computes),
`NeverFailsHalfWay`, `RetryIsIdempotent` and `LayoutKept`, of every text an edit
leaves behind and the request that led to it. They rest on
`TextsStayRegular`: a line without an ending is the last one. One step of the loop
(`MutatedText`) changes the mark of one name and no other; `Stages` are the texts
between the steps, and what holds of each of them follows along the request. The
theorems assume `"SEP" \notin Endings`: with a separator that `splitlines` knows
and the code does not, `LayoutKept` is false, which is finding 1.

`DotenvStoreProofs` proves `CommittedSurvives` of the abstract store; its
inductive invariant `StoreInv` extends the property to requests applied but not
yet reported. `DotenvFileProofs` instantiates that module with the refinement
mapping (`Promise`) and carries the invariant over to the system calls along
`StoreImplemented`.

`DeliveryProofs` proves of every request, for any names, directories, documents
and number of changes of the environment: `NothingWithoutApproval`,
`OneTrueRecord`, `ExitTellsTheTruth`, `OnlyLateGitChangesAreMissed` and
`WholeRequestOrNothing`. Most of them say nothing of a request that has not read a
credential yet, so none is inductive; `DeliveryInv` adds `Stage`, what each call of
`set_command` and `run_command` has established for the next one (no record before
`record()`, a dialog only for one binding with input allowed, every binding
resolved before the second Git check).

`DeliveryProofs` also proves `EveryOutcomeRecorded`, and the type invariant, which
needs two more pieces: `DataTypes` (what was resolved is a function of names that
were asked; a document stays a document, because a secret that dotenv cannot hold
never reaches the mutation) and `LabelTypes`.

`DotenvFileProofs` also proves `OnlyLateChangesAreLost` and `OnlyRenamesPublish` of
`DotenvEditors`' `EditorSpec`. `IInv` is of no use here: an editor breaks
`ReadIsCurrent` at will. `EditorsInv` relates a process to the *inode* it read
instead: unless it was edited in place, the process holds the content of `seen[p]`,
whatever the name refers to by now (`Knows`); an inode nobody has seen is nowhere
(`Unused`); and a process never sees its own temporary file under the destination's
name before it renames (`Prepared`). The proof that a step keeps it has three
lemmas: what a call leaves alone (`CallsAreLocal`), what the caller knows
(`CallerKnows`), what the others know (`OthersKnow`), and one for the editors.
`NoPlaintextLeftHolds`, of `DotenvTemporaries`, rests on the same invariant: a process
with a temporary file either is still writing or clearing up, or was killed, or its
creation, close or clean-up has failed (`CallsClearUp`).

`HistoryProofs` proves, for every cap, every number of requests and readers and
every `Attempts`: `HistoryTypeOK`, `SizeBound`, `ReadIsConsistent`, and
`Exclusive` (no two requests between `stat` and the last `fsync`, no reader between
its two files meanwhile). The size is bounded only because of what the size check
reserves and the lock keeps: `Room` says how much a writer still finds free at each
of its calls, `NotYet` that the file of a request that has not opened one is
nowhere and empty (so that a created file starts at zero), `Lock` that a writer is
alone with the files, and `Collected` what a reader between its two reads has. A
power loss never makes a file longer (`Survived`).

The second half of `HistoryProofs` is about the records. `ActiveRecordsStaying`
is the action property; `FilesImplementLog` is `Spec => ImplementsLog`, the whole
refinement. Their invariant `LogInv` says, besides where each writer is (`At`):

* no record is written twice (`Unique`), and one that has not been written is in no
  file and not in the log (`Unwritten`);
* a confirmed record is a whole line of its file and out of reach of a power loss; a
  text that is no line yet is not in the log, so that a later repair appends it
  (`Kept`);
* the records of *every* directory a power loss may bring back are a part of the
  log, which starts no later than the readable one and has nothing confirmed behind
  it (`Segment`). This is what the order of the `fsync`s is for: `DirSync` leaves
  one directory before it reports, so the other directories only ever miss records
  nobody was told of.

Five lemmas say what a step does to the log: `QuietStep` (nothing), `Relinked` (a
rotation: the log stays, an end of it is readable), `Grown` (at most one record
more), `CutQuiet` (a torn write: nothing) and `Recovered` (a power loss). The
refinement maps `Write` and `Repair` to `AppendRecord`, `DirSync` to `Confirm`,
`Unlink` to `ForgetOldest`, a failure, a kill, the last refused attempt and a torn
write to `GiveUpAppend`, a power loss to `LogPowerLoss`, the rest to a stutter.

The proof attempt found a mistake in the model, which two writers do not show:
with four, of which three fail, the history variable `ever` kept a record that was
never confirmed and had been forgotten by a rotation, although a power loss had
taken the file it was in, and the records that came back no longer were an end of
the log. `Outlasting` now drops such a record as well, and `LogPowerLoss` allows
it; the code is not concerned.

`ConfigProofs` proves `LoadsWhatWasInForce`, `NoSilentDowngrade`,
`AskedSettingStays` and the types, for every number of commands and changes. The
invariant relates what a command has found to `window` and `stale`, the settings a
save is going to write to what was asked and loaded, and every file the name may
come back as to the commands that were told of success.

`KeychainProofs` proves the four properties of `Keychain` and its types: the
invariant says which facts a command must have seen to be where it is, which item a
reference stands for, and that a stored item leaves the Keychain only by a change
from outside.

`CallsProofs` proves the four properties of the three calls, for every tree of directories and
every number of changes, processes, parents and keys. `GitInv` says which truths each
look has established;
`RequesterInv` that the walk is on the chain of ancestors the call started with, for
as long as no identifier was reused, and has passed nothing on it that it could
have named; `PromptInv` which settings the terminal is in at each call, and which
keys the queue can hold in them.

It also proves the four properties of `MCValues`. These are theorems about operators,
stated twice: of every input, and as the property of the inputs the run enumerates.
`WordsAreReadOnce` holds of every sequence of words; `RecordsAreReadable` of every
request with texts of any length (references and variables are ASCII, which the
parser of the command line sees to; the largest line takes less than 12000 of 16384
bytes); `UncutTextsAreTold` of any two such requests with one record, up to what
escaping makes alike;
`SearchReturnsTheFirst` of every sequence of items of which no two bear one reference:
the order is then total on what matches, each match has a place of its own
(`PlacesAreTaken`), the places do not depend on where the items were, and the rank
the stable sort gives a match is its place.

The assumptions used are the modules' own: the special values are distinct from
each other and from files, processes and values (`MarksAssumption`,
`FilesAssumption`, `DeliveryAssumption`, `HistoryAssumption`, ...), and bounds are
natural numbers. TLC evaluates them in the runs of their modules.

What is computed along a sequence (`Picked`, `Without`, `Stages`) is written as a
recursive function. The library's induction theorems take an operator as a
parameter, which the provers cannot instantiate; the proofs use induction over a
*set* instead (`SetInduction`): if a set of naturals has 0 and with each n also
n + 1, it has all of them, because otherwise the finite intervals `0..n` of those it
lacks would have no smallest one under inclusion (`FS_StrictSubsetOrderingWellFounded`).

Only model-checked: liveness (`Termination`, `NeverBlocked`), which is out of the
prover's reach here. Every invariant the passing runs check is also a theorem.

## 5. Abstractions and what is not modelled

* inode numbers are not reused while a process remembers one; `fsync` makes data
  durable; `rename` is atomic; a randomly named temporary file does not collide;
* one destination per directory lock: two destinations in one directory share a
  lock, which only serialises more;
* file modes, ownership, symlinks and hard links are one bit, `unsafe`;
* character classes, quoting and the BOM are not modelled; encoding appears as "a
  secret that dotenv cannot hold";
* history: changes of a directory reach the disk in their order, a part of a file
  that was not synced may come back shorter or as garbage, and a synced one comes
  back whole; the checks of the directory and the files are failures (`Fail`);
  `read_history` returns the last `limit` records of what the model reads;
* a record: keys, punctuation and the digits of counts enter `LineBytes` as upper
  bounds; the parsing of JSON, duplicate keys and versions is not modelled;
* history and configuration: the directory exists and is durable; the first use
  creates it (`history.py:344`, `config.py:155`) and does not sync its parent, so a
  power loss soon after may take the directory with what was reported;
* configuration: the checks of the directory are failures (`Fail`); the temporary
  file is not modelled, since it holds no secret and nothing reads it;
  `--test-popup` is not modelled;
* Keychain: an item's persistent reference is tied to its identity, as
  `SPEC.md` 7.1 reports of macOS (renaming an item changes it, the same identity
  brings it back); a label and other metadata are left out;
* configuration: the editor of `Config` may give the name to a file a command has
  open, which is more than a real one does;
* Git: one destination; a link changes what the path denotes, not the names below it;
  submodules and `safe.directory` are the errors and answers `git` gives;
* the walk to the requesting application: the names and bundle identifiers that are
  shown are one value, and the native calls fail for any process at any time;
* the prompt: a terminal in canonical mode; characters have no width and no editing;
* search: that one text is part of another is abstracted to their being equal up to
  case and composition; characters of references are canonical or not.

Not modelled, because nothing is decided there that a property could be about: the
wording and layout of the dialog and of every table and JSON output; the
registration of the one provider, which happens once at import; the data classes
and exceptions of `models.py` and `errors.py`; `providers` and its status; the
installation and the packaging.

One place contradicts a document, and no run shows it alone, because `NoPlaintextLeft`
exempts exactly it: a close of the temporary file that fails (`dotenv.py:387`) leaves
`fd` set; the `finally` closes it again (404-405), raises, and skips the unlink
(406-412). A failing unlink is passed over, and Ctrl-C may end the `finally` early. In
each case a temporary file with plaintext stays, although `SPEC.md:703` says that
temporary files are deleted after any pre-rename failure.

Two places the models made visible, which no document contradicts: an interrupt
between `tcsetattr` and the inner `try`, or inside its `finally`
(`cli.py:779-784`), leaves the terminal mute (`EchoComesBack` names exactly these);
and `destination_status` resolves the directory of the path first and the path again
later (`git.py:29`, `43`), so a link that is replaced in between lets it answer
"outside" for a destination that was in a worktree all the time
(`AnswerWasTrueOnce` leaves exactly such changes open).

## 6. State of the plan

Done, in this order: the destination, its editor and the programs beside it, the
request flow, the history, the configuration, the Keychain, then power loss in the
history, the record and its bounds, the command line, the search, the
classification by Git, the requesting application and the hidden prompt; and the
proofs of every state machine's safety properties and of every pure algorithm's.

What a further step would be: `Delivery` composed with `Config` and `Keychain`
instead of its own environment (both promise it what it assumes: settings that were
in force, and a credential or a failure).
