# Dao-Shell: TLA+ models, checks and proofs

Dao-Shell is a desktop and command line assistant for Windows.  A language model
proposes, the person confirms, and the program acts on the computer: it moves
files, opens documents, starts and ends processes, installs software, flushes a
cache, changes startup entries.  What makes it correct is less what it computes
than what it may do *once*, *only after consent*, and what it must still know
*after a crash*.  This directory models that core and checks it.

All source paths below are relative to the repository root.

## 1. Inventory

| Component | Source | State it keeps | Operations | Hard behaviour | What makes it correct |
|---|---|---|---|---|---|
| Receipt journal | `src/application_actions/journal.rs` | SQLite table of receipts, exclusive `actions.lock` | open (recover, prune), save, list, prune | crash between two saves, failed save, full table, seven-day expiry | an unsettled receipt is never lost, a settled one never reopened, the table stays readable |
| Software maintenance | `src/software/{engine,store,contract,isolated,typed,dns,boot}.rs` | frozen plan, receipt, worker process, WinGet queue, boot sequence | plan, confirm, revalidate, dispatch, postcheck, reconcile, DNS flush | host crash, killed worker, installer that outlives both, lost outcome, restart, second host | one operation at a time per package; receipts tell the truth; a gate opens only when nothing can still act |
| Startup entries | `src/software/{startup,store,engine}.rs` | shortcut in the startup folder or in the retention directory, receipt | disable, restore, check | crash between save and move, drift of the file | a retained shortcut is restored or reported, never overwritten |
| Application actions | `src/application_actions/*.rs` | target table, receipt | launch, close, terminate, reconcile | expiry, changed target, failed save | at most one effect per turn, and only on the target shown |
| Turn runtime | `src/{runtime,session,dialogue}.rs` | tool budget, history, one-shot gates | call, perform, explain | order of gates, trimming, cancellation in between | one change of the computer per turn; a request every provider accepts; a turn ends |
| Desktop bridge | `desktop/src-tauri/src/{bridge,main,process_actions}.rs`, `src/runtime/control.rs` | admission flag, owner, confirmation, sessions, contexts, process catalogue | perform, confirm, cancel, settings, process commands, session load, save, delete | threads over several mutexes, late answers, deadlines, changed configuration | the admission is exact; nothing acts without the consent to what was shown |
| Move operations | `src/{operations,storage,core}.rs`, `src/platform/windows.rs` | operation journal, the file system | prepare, run, reconcile, prune | crash at every step, foreign changes to files | the record says of every file what really happened, or "unknown" |
| Directory inventory | `src/inventory.rs`, `src/inventory/watch.rs` | registered directories, snapshots, watcher threads | add, update, stop, remove, restrict, scan, refresh | lost events, old generations, failed saves | a snapshot that is served is current but for changes on their way |
| File index store, USN reader | `src/file_index/{store,windows,usn,mod}.rs`, `windows/exclusions.rs` | generations in one database, the journal position each was read to | update, search | files that move while they are enumerated, journals that are cut off or made anew, moves across the excluded part | nothing is passed over that no later record tells of |
| File index worker | `src/file_index/worker/{mod,policy,storage,transport,protocol}.rs` | writer thread, rebuild slot, policy file, cursors, status | rebuild, set policy, search, cancel | retries, policy changes during a search, restart | no answer mixes policies or generations; a rebuild ends |
| File index service | `src/file_index/worker/service/*` | catalogue of volumes, worker threads; manifest, payloads, Windows service | discover, start, stop; install, upgrade, repair, roll back, uninstall | volumes that go, come back or change identity; an installer that dies between any two steps | one worker per volume; the next installer can go on |
| Search client | `src/search_index*`, `desktop/src-tauri/src/index_service.rs` | connection to the service | query, fall back | service away, policy change | the scope of a search never shrinks silently |
| Workspace, settings | `src/{workspace,settings,config,credentials}.rs` | workspace file with expected bytes, configuration | load, save, export | two instances | no instance overwrites what it has not read |
| Files and scope | `src/files.rs` | candidate table | search, check | expiry, changed identity | only what was shown and is unchanged is used |
| Diagnostics and observation | `src/diagnostics/*`, `src/observation.rs`, `src/resources.rs` | samples with their intervals, registered endpoints, recent observations and cursors | observe, summarize, register, query, page | sleeps, late and missing readings, names that resolve differently, pages of something that is replaced | a mean weighs measured time only; what is contacted is what was confirmed; an answer is of one collection |
| Model client | `src/model/*` | token counters of the process | request, connection check, configure | requests that fail after they were charged | the guard never counts less than the bill |
| Process control, command line, presentation | `src/process_control*`, `src/cli*` ... | none that lasts beyond the parts above | | I/O | |

How they interact.  The page calls the bridge; the bridge reserves the one
admission, runs a `FileSession` (runtime, dialogue, maintenance store,
application actions) on a worker thread, and answers its confirmations from the
main thread.  The maintenance store opens an `Engine`, which holds the journal's
file lock for the whole call, and talks to an isolated copy of the executable
over temporary files; that worker drives WinGet through COM.  The application
actions and the maintenance engine use the same journal code in two
directories.  The inventory and the index service feed searches; their commands
do not use the admission.

## 2. Modules

| Module | Models |
|---|---|
| `ActionJournal` | the receipt journal as operators on a function from operations to receipts |
| `PackageGate` | abstract: what maintenance promises of one target |
| `MaintenanceEngine` | the engine, its hosts, workers, installers, journal and machine; uses `ActionJournal`, refines `PackageGate` |
| `AppActions` | launching and ending programs; uses `ActionJournal` |
| `StartupPlacement` | disabling and restoring startup shortcuts; uses `ActionJournal` |
| `MoveOperations` | batches of file moves, their journal, the file system and other programs |
| `BridgeAdmission` | the bridge over RequestControl, with the process catalogue and the deletion of sessions |
| `BridgeLocks` | the order in which the commands of the desktop take the bridge's mutexes |
| `TurnRuntime` | a turn of the dialogue: model, tool calls, one-shot flags, history |
| `FileCandidates` | files shown to the user and opened through a helper process |
| `WorkspaceFile` | the workspace file under several desktops |
| `ModelSettings` | the configuration file and the keys, between the settings page and the command line |
| `ModelRequests` | the token guard |
| `InventoryWatch` | the directory inventory and its watcher threads |
| `FileIndex` | the index of one NTFS volume against its change journal |
| `IndexWorker` | the worker of one volume: writer, rebuilds, policy, searches |
| `IndexPipe` | the pipe of that worker: its instances, their threads, its clients |
| `VolumeCatalog` | the service that runs a worker for each volume |
| `ServiceInstall` | the installer of that service |
| `VolumeSearch` | a search over all volumes |
| `ResourceSampling`, `EndpointProbes`, `Observations` | the sampling loop, the diagnosis of endpoints, the store of observations |
| `MCMaintenanceEngine`, `MCBridgeAdmission` | small instances of one module |
| `Receipts` | the components that keep receipts, side by side; extends `MaintenanceEngine` |
| `Components` | the components that share no state with each other, side by side; extends `AppActions` |
| `MCReceipts`, `MCComponents` | small instances of these two |
| `Session` | a turn beside the mutexes of the bridge; extends `TurnRuntime` and takes an instance of `BridgeLocks` |
| `MCSession`, `MCProgress` | several components side by side, each in a small instance; they extend `Session` and `InventoryWatch` |
| `MaintenanceEngineProofs`, `BridgeAdmissionProofs`, `InventoryWatchProofs`, `ServiceInstallProofs`, `FileIndexProofs` | the theorems about the module each extends |
| `SessionProofs` | the theorems about `TurnRuntime` and `BridgeLocks` |
| `ReceiptsProofs`, `ComponentsProofs` | the theorems about the two sums and their parts; those about `MoveOperations` and `StartupPlacement` are in the first, those about `AppActions` in the second |

`Receipts`, `Components` and the four MC modules that follow in the table are sums, not products: a variable `part` is chosen in the
initial state and never changes, a step is a step of that part, and the
variables of the other parts stay as they were.  So one run explores every part
completely and no interleaving of two parts is looked at.  That is what is wanted
for components that share no state; those that do are composed inside one module
(hosts over one journal, worker and installer, bridge and process catalogue).
Parts that are explored one at a time may share the variables `v1 .. v17`, which
their instances rename.  Where a part has a module of proofs of its own, the sum
takes its instance of that module, so that the proofs about the sum can cite what
is proved there.  A sum states a property of a part as
`part = "..." => Part!Property`, and fairness as fairness of `part = "..." /\ Action`.

How the modules fit together: `TurnRuntime` is what `BridgeAdmission` calls
*running*; its calls are the operations of `AppActions`, `MaintenanceEngine`,
`StartupPlacement`, `MoveOperations` and `FileCandidates`, of which it keeps only
what they ask and how they end.  `VolumeCatalog` runs an `IndexWorker` for each
volume, whose updates are those of `FileIndex`; `VolumeSearch` takes what they
answer as given, and `FileCandidates` what a search found.  Each of these seams is
a set of outcomes (an update ends well, at the edge of the policy, over its
budget, ...), and the module below shows which outcomes there are.

### MaintenanceEngine

A *host* is a Dao-Shell process; it has at most one engine call because the
desktop admits one request at a time.  Two hosts stand for two instances over
the same maintenance directory.  `pc[h]` is where `Store::call`,
`Engine::execute`, `Engine::local_transition` (the DNS flush) or the
reconciliation stands; one action is the code between two points at which
something else may happen (the lock, an inspection, the confirmation, a save,
the worker).  `rows` is the durable table, so a crash at any step leaves exactly
what was saved.  `worker` and `native` are the isolated process and what the
machine does for it; neither ends with the host.  `GiveUp` gathers the paths
that return before a receipt exists, and `CancelRecorded`, `DispatchFails`,
`ReceiveError`, `Kill`, `Finish(h, FALSE)` are the error paths after it.
`Checked` is `reconcile_with_boot` as a function of the row, the queue and the
boot sequence.

Abstracted: identities and versions are members of small sets; a failed
confirmation, a late one and a refused one are the same step; agreements are
part of the plan.  The typed provider never writes the lifecycles `dispatched`
and `awaiting_user` and its `recover` never reports an unknown installation, so
these are in `Pending` only.  `Journal::open` saves each recovered row by itself
and fails as a whole when one save fails; the model recovers all rows at once or
not at all (a call that cannot open the journal gives up, and the rows it had
already rewritten would be recovered to the same value by the next open).

### BridgeAdmission

One action is one critical section of the code (what happens under `active`,
`sessions` or the lock of RequestControl), so the places where a lock is dropped
and retaken are separate steps: `Confirm`/`ConfirmBound`,
`CancelAny`/`CancelProcess`, `LoadRead`/`LoadRegister`, `Ask`/`Post`,
`Decide`/`Close`, `ResolveRelease`/`ResolveUnlock`.  Commands that the page
calls synchronously share the main thread (`main`); `perform`, process commands
and deletions run on threads of their own.  `confirm_bound` reads the
configuration file while it owns `active`; the answer counts as given when the
file is read.

### InventoryWatch

A registered directory is an `Entry` (`state`, `gen`, `token`, `snapshot`) under
the inventory's mutex; a thread is a directory and a generation, with its
watcher, its channel and the local variables of `watch::run` (`job`).  One action
is one critical section, or one look at one file: a scan is `StartScan`, a
`ReadFile` for every file in any order, and `Publish`, so that files change
before, during and after the look at them.  `refresh` is the same with the
changed paths only, starting from the records; where it gives up and hands over
to `scan`, `StartScan` takes all files.  A change reaches a live watcher
(`os`), then, late and at most once, the channel (`Deliver`); it may be
coalesced into a rescan notice or lost with the watcher.  `Publish` and `failed`
test the generation and the cancellation under the mutex, which is why threads of
older generations may linger.  `Restart` is a crash or an orderly end followed by
`restore` and `resume`; only `stored` and `db` survive.

Abstracted: a directory holds files only, each at a version (directories, links
and the identity of the root appear as the choices of `StartScan` and as failed
scans); the delays of backoff and period are timers that may run out at any time;
the retry counter only lengthens the backoff.  A `Remove` whose save fails is
marked in `unremoved`, because it is the one way a directory can lose its
thread (see the violations); the other properties are stated with that exception.

### AppActions, StartupPlacement, MoveOperations

The three other components that write a receipt, do something that cannot be
undone, and write how it went.  In each, one action is one save, one effect or
one look at the world, a save may fail, and `Crash` may come anywhere; other
programs are actions too (`Change`, `OthersWrite`, `Relocate`, `Squat` ...).
`AppActions` has two hosts over one journal: a target is a Start menu entry or a
process number, and its `incarnation` counts how often it has come to stand for
something else.  `StartupPlacement` keeps the *proof* of a move in the receipt,
recovers by looking where the file is, and must not let the journal prune the
receipt of a shortcut that is still kept.  `MoveOperations` has a journal of its
own (`storage.rs`); `Reconcile` is what a restart makes of each item from the file
system alone.  History variables (`dispatched`, `moved`, `agreed`, `touched`) say
what really happened, for the properties only; no guard reads them.

### BridgeLocks

`BridgeAdmission` makes a critical section one step and so cannot show that the
mutexes nest well.  `BridgeLocks` keeps nothing else of a command: `With` is a
guard with its scope, `Release` at the end of a command is the `Drop` of its
admission, `TryWith` the one `try_lock`.  The main thread runs the synchronous
commands one after another and two workers any of the others.  Admission is left
out, so more commands meet than the code lets through.

### TurnRuntime, FileCandidates

`TurnRuntime` keeps of a message its role and of an assistant message how many
calls it makes.  A response is any number of calls of any tools; each is served
in the order of the code's guards; what a tool asks the person is a phase of its
own that ends in any outcome.  `Trimmed` is `Dialogue::trim` on sequences.
`FileCandidates` follows a path from a search through the table of objects to the
helper process that hands it to Windows; a file is an object and a version, so
replacing and rewriting are different things.

### WorkspaceFile, ModelSettings, ModelRequests

`WorkspaceFile` is compare-and-write over one file with a lock file; the window
between the comparison and the replacement is two steps, and what happens in it is
marked by `slipped`, which the property excepts and this document names: a program
outside the lock can be overwritten there.  `ModelSettings` has two writers (the
page compares, the command line does not) and follows every key from the place it
was typed for to the request that carries it.  `ModelRequests` is the guard on the
tokens of a run: reserve, send, settle, with the provider's own bill beside it.

### FileIndex, IndexWorker, VolumeCatalog, ServiceInstall, VolumeSearch

`FileIndex` has the volume (`names`: the parents each object has a name in), its
change journal, and the store.  An update takes its place in the journal,
enumerates, resolves one object at a time against the volume as it is at that
moment, reads pages of the journal, brings in the parents it lacks, and publishes
in one transaction; other programs move between any two reads.  A rename is one
record (the code reads its two halves and takes a page that holds only one of them
for a change of the policy).  `IndexWorker` is the thread that calls it, with the
counters of its retries, and the threads that answer clients.  `IndexPipe` is how
a request comes to such a thread and an answer back: an instance of the pipe is
`idle`, `listening`, `connected` or `closed` by its client, what lies in it goes
when the server disconnects it, and the thread waits for an acknowledgement before
it does.  Whether `ConnectNamedPipe` on a fresh instance reports a client that is
not there yet is left to the system (`Listen`).  Any client may be slow, hang or
go at any time.  `VolumeCatalog` is
the service's loop; a key is a GUID with a serial number, so a formatted volume is
a new key behind the same GUID.  `ServiceInstall` makes an operation a sequence of
steps `todo`; a step that fails goes on with its undo, and the installer or the
machine may die before any of them.  `VolumeSearch` asks one worker after the
other and looks at the mapping of drive letters before and after.

### ResourceSampling, EndpointProbes, Observations

`ResourceSampling` counts ticks; a rate remembers which readings it was computed
from, so that it can be compared with the interval it is weighed by.
`EndpointProbes` has a resolver whose answer may change before every look and
resolutions that outlive their deadline and keep their slot.  `Observations`
knows what an observation holds by the tick it was collected at (`data`, which an
answer gives as `observed_at`), and apart from that by the tick of the readings
that are made anew even when the rest is reused (`current`; `Renewed` says which
kinds have them).  For a `computer_profile` these are power, architecture and
uptime: an answer made of a recent profile is of two times, as lines 319-323 of
`src/observation.rs` have it.  The uptime carries its own `uptime_observed_at`;
**power does not**, so a reader of such an answer takes a power reading for as old
as the profile.  The plan of the query tools
(`docs/plans/2026-10-20-phase1-computer-query-design.md:162`) asks that running
state and uptime are not taken from a cache, which holds, and that everything is
shown by the time it was collected at, which the power reading is not; it was added
to the profile later.  `NothingStaleAnswered` claims one time only of the kinds
outside `Renewed`, and of the others that these readings are made for the query
and lie between the time of the rest and that of the answer.  Kinds outside
`Paged` are answered whole and hand out no cursor.

## 3. Runs

| Run | Instance | Shows |
|---|---|---|
| `maintenance_crash` | 2 hosts, 2 operations, 1 package, a crash or a restart | types, no two operations on a package, what may act is on record, `cancelled_before_dispatch` and `verified` are true |
| `receipts` | engine: 1 host, 2 operations, 2 boots; the engine again over a journal of one row; moves: 2 batches, 2 files, 2 troubles; startup: 1 name, 2 files, 2 operations, 4 troubles | the engine implements `PackageGate`; restarts are honoured; receipts settle and stay settled; the journals tell the truth about every move and every kept shortcut; nothing is moved but what was confirmed |
| `bridge_confirm` | 2 requests, one of them twice or a process confirmation, 2 configurations | consent, exact admission, nothing stranded, cancellation, one configuration |
| `session` | bridge: 1 request, 1 session, 1 process confirmation; mutexes: the main thread and 2 workers; turn: 3 calls, 2 per response, 4 messages; pipe: 2 instances, a search and a rebuild; fair | every request returns, no command is stuck at a mutex; one change per turn, well-formed requests, every turn and every search ends |
| `components` | 15 parts, see `Components` and `Components.cfg`; applications: 2 hosts, 2 targets, 2 receipts, 3 troubles | one property each of the parts that share no state, their types and their inductive invariants |
| `progress` | inventory: 2 files, 1 generation, 3 troubles; engine: 2 hosts, 1 operation; worker: 2 generations, 2 requests, 1 restart; catalogue: 1 volume, 2 serial numbers, 4 events; fair | a watcher catches up and is never silently behind; a call gives the lock back; a rebuild ends; a volume is served in the end |
| `maintenance_orphan` | as `maintenance_crash` | **violated**: recovery releases a package while an orphaned worker can still act |
| `bridge_load` | 2 sessions, no confirmations | **violated**: a deleted session is registered again |
| `inventory_calibrated` | 1 directory, 1 file | **violated**: a removal that cannot be saved leaves a ready directory without a thread |
| `index_boundary` | 1 directory, 1 file, pages of 2 records | **violated**: a directory that leaves the excluded part and is renamed again in the same page |
| `install_stuck` | as the installer in `components` | **violated**: an installation that stops before its manifest cannot be repeated |
| `sampling_rates` | as the sampler in `components` | **violated**: a rate over two intervals divided by one |

The cfg files give the exact values; the instances of a sum are in its module.  `TypesOK` of `components` also checks the inductive invariants
of the parts that `ComponentsProofs` itself is about; `NothingPassedOver` is that of the volume index
and, for the directory inventory, that what is said to be watched has a thread;
`JournalTruthful` of `receipts` is what the journals of the moves, of the startup
entries and of the engine over a full table promise.

Bounds.  Two operations on one package are what mutual exclusion needs; the flush
has its own target.  Two hosts are needed for the lock; two boots for one
restart.  Larger instances of the engine are covered by the proofs.  Two requests
with two confirmations each make late clicks on an old confirmation of the same
and of an earlier request possible.  Three constraints keep these runs small: a
behaviour of `maintenance_crash` has a crash or a restart (`OneInterruption`), one
of `bridge_confirm` one request with a second confirmation or a process
confirmation, not both (`FewQuestions`), and in `components` the change journal of
the volume is made anew or its index fails, not both (`OneInterruption` of
`MCComponents`; what is checked of the volume there is proved for any number of
both); these runs check safety only.  Two sessions
make a deletion meet a request of another session.  Two instances of a pipe with
one search at a time leave one free, as four with three do.  In the inventory a trouble is a change of a file, a failed scan,
a failed or broken watcher, or a restart; three are needed for the longest story (a
change fills the channel of one event, the error of the watcher does not fit, a
further change is never reported).  Two batches over two files make a second batch
meet one in doubt.  Three troubles let an application action die, be recovered by
the other host, and fail its save; four let a startup shortcut be moved by the
program, by a person, and both be interrupted.  A turn of three calls fits two
changes and what lies between them; four messages make every request of a second
turn one that was trimmed.  A page of two records holds one directory twice, and
three troubles let an upgrade, its undo and the repair after it all fail.  Two
volumes of one result each make the second volume of a search fail after the first
filled the page.  Four slots are a baseline, two rates and a gap.
Three kinds of observations are one with pages that is reused, one with pages that
never is, and one without pages whose readings are partly made anew; three queries
over three ticks reuse what was already reused.  Each mutant of
the project is found within these bounds, which is what they were chosen by.

Fairness.  `MaintenanceEngine!Fairness` is weak fairness of a host's own call:
it is one thread whose every wait has a deadline (ninety seconds for the person,
the time limit in `exchange` for the worker).  Nothing is assumed of workers,
installers, or of a person.  `BridgeAdmission!Fairness` is weak fairness of a
request's worker thread and of the deadline of a confirmation somebody waits
for; the person never has to answer.  A worker that is inside a tool call
(`running`) may always end it: the runtime's calls have their own time limits.
`TurnRuntime!Fairness` is weak fairness of the response (the client has a time
limit), of serving calls, and, on the desktop only, of the end of a question; on
the command line a question waits for ever, so `SessionsEnd` is stated for the
desktop.  `InventoryWatch!Fairness` is weak fairness of a thread, of its two
timers and of the delivery of a change to a watcher that lives; failures are
bounded.  `IndexPipe!Fairness` is weak fairness of the thread of each instance
and of a client that searches: every wait of theirs polls a deadline (five seconds
and three); the other clients may hang.  With one directory nobody else contends for the scanner for ever; with
several, weak fairness would need a fair mutex.  `IndexWorker!Fairness` is weak
fairness of the writer's thread; clients are free to do nothing.
`VolumeCatalog!Fairness` is weak fairness of the service's loop, of the delays and
of each worker's thread, and strong fairness of a discovery that works: `Discover`
is enabled at every turn of the loop and disabled in between, and what it stands
for is that the enumeration of volumes does not fail every time.

### The violations

*Orphaned worker* (`maintenance_orphan`).  The host dies after it has spawned the
isolated worker and before the worker has reached WinGet.  The next host opens
the journal, finds `unknown`, asks the queue, finds it idle and writes
`checked_unknown`; the worker is alive and dispatches.  `exchange` kills the
worker on every path of a living host, but nothing ties its life to the host's.
The design says that what cannot be shown to have stopped keeps its gate.  All
other properties are therefore stated with the exception of such orphans
(`orphans`), and the proofs show that this is the only exception.

*Revived session* (`bridge_load`).  See `DeletedStaysDeleted` and the finding.

*Ready without a thread* (`inventory_calibrated`).  `Inventory::remove` cancels
the thread, then saves; when the save fails the entry comes back as it was,
"ready" included, and searches are served from a snapshot nobody refreshes.

*A crossing that is overwritten* (`index_boundary`).  `boundary_changed` keeps one
pair of old and new name per directory and page.  A directory that leaves the
excluded part and is renamed once more before the page is read shows an ordinary
rename; the files below it have no record of their own and stay out of an index
that is published as complete.  `NothingPassedOver` holds with the exception of
such pages (`twice`), which shows that there is no other way.

*An installation that cannot be repeated* (`install_stuck`).  The directories are
made and the image staged before the first manifest is written; a failure in
between leaves directories that every later operation refuses.  From the manifest
on, `AlwaysRepairable` holds.

*A rate over two intervals* (`sampling_rates`).  A counter that cannot be read for
one sample keeps its old value while the time of the last sample moves on.
`MeansAreMeasured` holds: the weights are right, the rate itself is not.

## 4. Proofs

Every safety invariant and every action property that a passing run checks is the
statement of a theorem.  The theorems hold for every value of the constants that
the assumptions allow: any number of hosts, threads, operations, files, volumes,
clients, any limits and queue lengths.  None is about a particular instance.  A proof has always the same shape.
A property is seldom kept by a step taken by itself, so it is strengthened to an
inductive invariant, a conjunction of named parts (`IInv` or `Inductive`), which
the first state has and every action keeps; there is one lemma per action or group
of actions, and under it one step per part it can disturb.  Facts about the
operators of a model that several lemmas need are lemmas of their own.  Where one
needs induction (how far a line of parents reaches, which thread of a circle waits
for the last mutex, how many drops follow a step) it is over natural numbers, and
the step is that a set of them has a least element (`Least`, from the well-founded
order of the library).

| Component | Theorems | What the invariant adds to the property |
|---|---|---|
| `MaintenanceEngine` | types, `NoOverlap`, `ActingIsOnRecord`, `CancelledNeverActs`, `VerifiedRan`, `SettledStepwise`, `RebootHonoured`, `JournalReadable`, and the refinement of `PackageGate` | who holds the lock; what each step of a call has made true of its operation (`StageInv`); that what may still act after its call has a pending row or is an orphan; that recovery may rely on an idle queue it has seen |
| `BridgeAdmission` | types, `AdmissionExact`, `ActsOnConsent`, `CancelStops`, `AnsweredUnderOneConfig` | no two holders of the admission, pair by pair; that the confirmation that waits is the last its request asked for, so a click let through is not one for an older question |
| `TurnRuntime` | types, `OneChangePerTurn`, `RequestsWellFormed` | how the three one-shot flags stand after each question; which calls of the last assistant message are unanswered (`Closed`) between two tool calls |
| `BridgeLocks` | `NobodyWaitsInACircle` | an order of the mutexes (`Rank`) which every step of every command keeps; what a thread holds is what the rest of its steps will drop |
| `AppActions` | types, `EffectsOnRecord`, `ActsOnceAndKnowingly` | from the question to the receipt one host holds the lock; what its row and the history are at each of its steps |
| `MoveOperations` | types, `JournalTruthful`, `OneInDoubt`, `MovesAsConfirmed` | a file nobody else moved is at its target exactly when an operation renamed it; the operation in memory is ahead of its row only between the rename and the next save |
| `StartupPlacement` | types, `KeptIsOnRecord` | a shortcut is kept where the operation that disabled it put it, and that operation's own receipt accounts for it until the shortcut is gone |
| `InventoryWatch` | types, `RunningHasThread`, `NoSilentStaleness`, `GoneStaysGone` | the same coverage for every step of a thread, not for directories that are ready only: what the records do not show is on its way, carried, still to be read, or a full scan is owed |
| `WorkspaceFile`, `ModelSettings` | `NothingOverwrittenUnseen`, `KeysStayHome` | what a save under way was compared with, and that nobody else holds the lock; in whose hands a key is |
| `ModelRequests` | `BillIsCovered` | what a request under way has reserved |
| `IndexWorker`, `IndexPipe` | `AnswersUnderChoice` | which state of the worker a client was told of; which call an instance of the pipe is for, also while its client is gone and another comes |
| `VolumeCatalog` | `OneWorkerEach` | which entries of the catalog have a thread, and how many of them there are |
| `EndpointProbes` | `ProbesAsConfirmed` | what a probe has not contacted yet, and which addresses it has checked |
| `VolumeSearch`, `FileCandidates` | `ToldTruly`, `OpensWhatWasShown` | where a hit that is not shown yet is; what the helper that opens a file may rely on |
| `ResourceSampling` | `MeansAreMeasured` | how the last point relates to the sampler's last call |
| `FileIndex` | types, `NothingPassedOver` | the same for the update under way (`Kept`): an object is recorded as it is, still to be looked at, or told of by a record that is not read yet; names form a tree, and the last move across the edge of the policy still is one (`LogInv`) |
| `ServiceInstall` | types, `AlwaysRepairable` | for each plan and each number of its steps that are left, what of the manifest, the payloads and the service is settled by then, and the same for the undo of a change |
| `Observations` | `NothingStaleAnswered` | how far the reader of a cursor has come, that an observation made of a recent one is as old as that one, and that only the kinds in `Renewed` hold anything younger |

`MaintenanceEngine`.  `NoOverlap` follows from the gate being consulted under the
lock: while one operation runs its row is pending, so `Admit` is refused to the
other.  `RebootHonoured` needs that the boots recovery compares are never earlier
than the one in which the operation was recorded (`RebootInv`).  `JournalReadable`
counts rows: only the save of a new receipt adds one, and a full table refuses it
(`TableInv`).  The refinement (`Implements`) says that without host crashes every step of
the engine is a step of `PackageGate` under the mapping `Gate`, or none; with
crashes it does not hold, which `maintenance_orphan` shows.  The step lemmas are
one per action, as for the invariant, which they use.

`FileIndex`.  What an index may miss is bounded by what the journal still holds, so
the invariant is one sentence, `Kept`, about rows and a point of the journal: of
every object, the rows are right, or it is known to be unavailable, or a record
after that point names it or a directory that crossed the edge of the policy.  It
has to hold of the published tables at both of their points and of the update at
each of its steps.  What makes it hard is that one rename of a directory changes
what is wanted of all that lies below: `Line`, the places above one, is the least
set closed under parents, and the lemmas show how it changes when one name does
(`Steady`): only a record that is marked as crossing can change on which side of
the edge anything else lies.

`ServiceInstall`.  An installer works off a plan and may stop before any step, so the
invariant lists the plans (`Installing`, `Changing`, `Mending`, `Removing`, and
`Undone`, into which a failed change turns) with what holds at each of their ends.
Whatever is left when it stops, the manifest on disk then fits what is installed
(`Sound`), which is what the next installer can mend.

`BridgeLocks`.  The commands are sequences made by `With`, `TryWith` and `\o`.  A part
of a command is a `Block` above a rank if it takes only mutexes of higher ranks, in
rising order, and leaves nothing held; the lemmas `ThenBlock`, `WithBlock` and
`TryWithBlock` are about how such parts are put together, and `CommandsBlock` takes
each of the commands apart with them.  In a circle of threads one waits for a mutex
of the highest rank; its owner waits for one of a higher rank still.  The order is
confirmation, process catalogue, admission, sessions, workspace file,
configuration, scanner, settings, inventory, control, applications, overview.

`Receipts`, `Components`.  A step of a sum is a step of its part (`PartSteps`), so
the invariant of the sum is the conjunction of those of its parts and the theorems
are stated of the sum (`AllSpec`), as the runs are.  `ReceiptsProofs` takes the
engine, and `ComponentsProofs` the inventory, the index and the installer, from the
modules of their proofs, whose lemmas it cites for the parameters they have in the
sum.  The rest of `SumInv` is also checked by TLC (`AllInductive` in `TypesOK`).

Assumptions.  All are declared in the module whose constants they are about.

- Limits and bounds are natural numbers, and those of which there is always one
  (`JournalCap`, `MaxVersion`, `MaxBoot`, `QueueCap`, `MaxGen`, `MaxConfig`, `Life`,
  `ToolLimit`, `MaxCalls`) are not zero.
- A value that stands for the absence of something (`NoHost`, `NoOp`, `NoRequest`,
  `NoConf`, `Nobody`, `None`, the notices `"rescan"` and `"error"` in a channel of
  file names) is none of the things it is the absence of.  `Resolver` is no package.
- `SessionOf` gives every request its session.  The files a directory holds at
  first are among its files.
- There are more instances of a pipe than searches at once, as the code has it
  (four and three), and finitely many; there are finitely many volumes.
- There is something to disable (`StartupAssumption`).
- A volume has finitely many directories, which are none of its files; its root and
  the excluded directory are neither.  There is one journal at least.

What is only model-checked:

- Liveness (`RequestsReturn`, `SessionsEnd`, `CallsReturn`, `CatchesUp`,
  `RebuildsEnd`, `ServedInTheEnd`): the prover does not reach fairness.
- The properties that runs show to be violated.

## 5. Not modelled

Generated COM bindings, wording, presentation, and everything that reads the
computer without keeping state (native collectors, profiles, comparisons and
projections of observations) are I/O or data without control.  Path
normalisation, name matching, the parsing of arguments and of provider responses
are functions over strings that a model would restate.  The access control
lists of the pipes and the identity of their peers are left out, except that any
of them may be refused.  The installer helper and the page that offers it, the export of a workspace, and the migration of old
configuration formats are not modelled.  Two components on either side of a seam
(section 2) are not explored together.  Five details are coarser than the code,
and no property turns on them: whether a volume is supported is fixed with its key
(`VolumeCatalog`), the directories of an installation are made in one step
(`ServiceInstall`), a layer of an HTTPS probe counts as one contact however many
of the checked addresses it tries (`EndpointProbes`), an answer of the index
worker is one step with its reading, and a policy that cannot be configured at all
is left out (`IndexWorker`).  The poisoning of a mutex by a panic is not
modelled.  What is still
missing of a component that is only partly modelled is in its note in
`PROJECT.json`.

## 6. Plan

Every component of the inventory that keeps state the others rely on has its
module, and of what the passing runs check the theorems state all that is a matter
of safety.  What is left, in this order:

1. Properties of the seams of section 2 that relate two modules: what a search
   returns against what `FileIndex` has published, and what a turn was told of an
   operation against its receipt.
2. The bridge's admission together with its mutexes: `BridgeLocks` lets more
   commands meet than the code does, which is safe for what it shows, but a
   refinement of `BridgeAdmission` would say that its critical sections are these.
