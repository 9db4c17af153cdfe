---------------------------- MODULE InventoryWatch ----------------------------
(***************************************************************************)
(* The directory inventory (src/inventory.rs) and its watcher threads      *)
(* (src/inventory/watch.rs): registered directories whose snapshots        *)
(* searches may use instead of a live scan.                                *)
(*                                                                         *)
(* Every update of a directory starts a thread of a new generation; older  *)
(* threads may still be scanning.  A thread is <<directory, generation>>.  *)
(* What a thread sees of the disk are events that may be late, coalesced   *)
(* or lost.  One action is what happens under the inventory's mutex, or    *)
(* one read of one file.                                                   *)
(*                                                                         *)
(* Bounds: MaxGen generations in a process; MaxTroubles changes to files,  *)
(* failed scans, failed subscriptions and restarts in all.                 *)
(***************************************************************************)
EXTENDS Naturals, Sequences, FiniteSets

CONSTANTS
    Dirs,          \* the ids of registrations, each with its own directory
    Files,         \* the files a directory can hold
    Present,       \* those it holds at first
    MaxVersion,    \* a file is at a version in 1..MaxVersion, 0 is absent
    QueueCap,      \* events the channel holds (1024 in the code)
    BatchCap,      \* paths a batch holds (1024 in the code)
    MaxGen, MaxTroubles

ASSUME BoundsAssumption ==
    /\ MaxVersion \in Nat \ {0} /\ QueueCap \in Nat \ {0} /\ BatchCap \in Nat
    /\ MaxGen \in Nat \ {0} /\ MaxTroubles \in Nat
ASSUME FilesAssumption ==
    Present \subseteq Files /\ Files \cap {"rescan", "error"} = {}

VARIABLES
    state,      \* the status of each entry, "none" when there is no entry
    gen,        \* its generation
    token,      \* the generation whose Cancellation it holds, 0 at first
    snapshot,   \* its records in memory
    cancelled,  \* the threads whose Cancellation is set
    closed,     \* shutdown was called
    stored,     \* the registrations in inventory.json
    db,         \* the snapshot databases
    used,       \* ids given so far
    pc,         \* where each thread stands
    watcher,    \* its subscription: none, live, or deaf after an error
    chan,       \* what is on its way to it
    job,        \* its local variables
    disk, allowed, troubles,
    unremoved   \* history: entries a failed remove has put back

entries == <<state, gen, token, snapshot, cancelled>>
durable == <<stored, db, used>>
threads == <<pc, watcher, chan, job>>
world   == <<disk, allowed>>
vars == <<entries, closed, durable, threads, world, troubles, unremoved>>

Threads == Dirs \X (1 .. MaxGen)
Contents == [Files -> 0 .. MaxVersion]
Empty == [f \in Files |-> 0]
NoRecords == <<>>
Snapshots == Contents \cup {NoRecords}

\* A Batch: changed paths, or the need for a full scan, or a broken watcher.
Batches == [paths : SUBSET Files, rescan : BOOLEAN, broken : BOOLEAN]
NoBatch == [paths |-> {}, rescan |-> FALSE, broken |-> FALSE]

\* os: changes not delivered yet; queue and lost: the channel and its flag.
NoChan == [os |-> {}, queue |-> <<>>, lost |-> FALSE]
Chans == [os : SUBSET Files, queue : Seq(Files \cup {"rescan", "error"}), lost : BOOLEAN]
Jobs == [carried : Batches, full : BOOLEAN, backoff : BOOLEAN,
         todo : SUBSET Files, seen : Contents]
NewJob == [carried |-> NoBatch, full |-> TRUE, backoff |-> FALSE,
           todo |-> {}, seen |-> Empty]

TypeOK ==
    /\ state \in [Dirs -> {"none", "pending", "building", "ready", "unavailable", "damaged"}]
    /\ gen \in [Dirs -> 0 .. MaxGen] /\ token \in [Dirs -> 0 .. MaxGen]
    /\ snapshot \in [Dirs -> Snapshots] /\ db \in [Dirs -> Snapshots]
    /\ cancelled \subseteq Threads /\ closed \in BOOLEAN
    /\ stored \subseteq used /\ used \subseteq Dirs
    /\ pc \in [Threads -> {"off", "subscribing", "loop", "waiting", "scanning"}]
    /\ watcher \in [Threads -> {"none", "live", "deaf"}]
    /\ chan \in [Threads -> Chans] /\ \A t \in Threads : Len(chan[t].queue) <= QueueCap
    /\ job \in [Threads -> Jobs]
    /\ disk \in [Dirs -> Contents] /\ allowed \in [Dirs -> BOOLEAN]
    /\ troubles \in 0 .. MaxTroubles /\ unremoved \subseteq Dirs

Init ==
    /\ state = [d \in Dirs |-> "none"] /\ snapshot = [d \in Dirs |-> NoRecords]
    /\ gen = [d \in Dirs |-> 0] /\ token = [d \in Dirs |-> 0]
    /\ cancelled = {} /\ closed = FALSE
    /\ stored = {} /\ db = [d \in Dirs |-> NoRecords] /\ used = {}
    /\ pc = [t \in Threads |-> "off"] /\ watcher = [t \in Threads |-> "none"]
    /\ chan = [t \in Threads |-> NoChan] /\ job = [t \in Threads |-> NewJob]
    /\ disk = [d \in Dirs |-> [f \in Files |-> IF f \in Present THEN 1 ELSE 0]]
    /\ allowed = [d \in Dirs |-> TRUE]
    /\ troubles = 0 /\ unremoved = {}

-----------------------------------------------------------------------------
(* The registrations; every action holds the mutex of the inventory. *)

Trouble == troubles < MaxTroubles /\ troubles' = troubles + 1

Token(d) == {<<d, token[d]>>} \cap Threads

\* A failed save takes the new entry away again; its id is never used later.
\* add ends with an update under a lock of its own, which may fail like any
\* other: the action Update.
Add(d, saved) ==
    /\ ~closed /\ d \notin used /\ allowed[d]
    /\ used' = used \cup {d}
    /\ IF saved THEN /\ stored' = stored \cup {d}
                     /\ state' = [state EXCEPT ![d] = "pending"]
                ELSE UNCHANGED <<stored, state>>
    /\ UNCHANGED <<gen, token, snapshot, cancelled, closed, db, threads,
                   world, troubles, unremoved>>

\* A directory that is being built is left to the thread that builds it.
Update(d) ==
    LET next == <<d, gen[d] + 1>> IN
    /\ ~closed /\ state[d] \notin {"none", "building"} /\ allowed[d]
    /\ gen[d] < MaxGen
    /\ cancelled' = cancelled \cup Token(d)
    /\ gen' = [gen EXCEPT ![d] = @ + 1]
    /\ token' = [token EXCEPT ![d] = gen[d] + 1]
    /\ state' = [state EXCEPT ![d] = "building"]
    /\ pc' = [pc EXCEPT ![next] = "subscribing"]
    /\ unremoved' = unremoved \ {d}
    /\ UNCHANGED <<snapshot, closed, durable, watcher, chan, job, world,
                   troubles>>

Stop(d) ==
    /\ state[d] # "none" /\ gen[d] < MaxGen
    /\ cancelled' = cancelled \cup Token(d)
    /\ gen' = [gen EXCEPT ![d] = @ + 1]
    /\ state' = [state EXCEPT ![d] = "pending"]
    /\ UNCHANGED <<token, snapshot, closed, durable, threads, world, troubles,
                   unremoved>>

\* restrict, of the entries the scope does not allow any more.
Restrict ==
    LET out == {d \in Dirs : state[d] # "none" /\ ~allowed[d]} IN
    /\ out # {} /\ \A d \in out : gen[d] < MaxGen
    /\ cancelled' = cancelled \cup UNION {Token(d) : d \in out}
    /\ gen' = [d \in Dirs |-> IF d \in out THEN gen[d] + 1 ELSE gen[d]]
    /\ snapshot' = [d \in Dirs |-> IF d \in out THEN NoRecords ELSE snapshot[d]]
    /\ state' = [d \in Dirs |-> IF d \in out THEN "unavailable" ELSE state[d]]
    /\ UNCHANGED <<token, closed, durable, threads, world, troubles,
                   unremoved>>

\* The watcher is cancelled before the save; a failed save puts the entry back.
\* Deleting the database may fail too.
Remove(d, saved, erased) ==
    /\ state[d] # "none"
    /\ cancelled' = cancelled \cup Token(d)
    /\ IF saved THEN /\ state' = [state EXCEPT ![d] = "none"]
                     /\ snapshot' = [snapshot EXCEPT ![d] = NoRecords]
                     /\ stored' = stored \ {d}
                     /\ db' = IF erased THEN [db EXCEPT ![d] = NoRecords] ELSE db
                     /\ UNCHANGED unremoved
                ELSE /\ unremoved' = unremoved \cup {d}
                     /\ UNCHANGED <<state, snapshot, stored, db>>
    /\ UNCHANGED <<gen, token, closed, used, threads, world, troubles>>

Shutdown ==
    /\ ~closed
    /\ closed' = TRUE
    /\ cancelled' = cancelled \cup UNION {Token(d) : d \in {e \in Dirs : state[e] # "none"}}
    /\ UNCHANGED <<state, gen, token, snapshot, durable, threads, world,
                   troubles, unremoved>>

\* The process ends, in order or not, and starts again: restore, then resume,
\* which updates again those directories it can; bad snapshots cannot be loaded.
Restart(bad, again) ==
    /\ Trouble
    /\ bad \subseteq {d \in stored : db[d] # NoRecords}
    /\ again \subseteq {d \in stored \ bad : allowed[d]}
    /\ state' = [d \in Dirs |-> IF d \notin stored THEN "none"
                                ELSE IF d \in bad THEN "damaged"
                                ELSE IF d \in again THEN "building" ELSE "pending"]
    /\ snapshot' = [d \in Dirs |-> IF d \in stored \ bad THEN db[d] ELSE NoRecords]
    /\ gen' = [d \in Dirs |-> IF d \in again THEN 1 ELSE 0]
    /\ token' = gen'
    /\ cancelled' = {} /\ closed' = FALSE /\ unremoved' = {}
    /\ pc' = [t \in Threads |-> IF t[1] \in again /\ t[2] = 1 THEN "subscribing" ELSE "off"]
    /\ watcher' = [t \in Threads |-> "none"]
    /\ chan' = [t \in Threads |-> NoChan] /\ job' = [t \in Threads |-> NewJob]
    /\ UNCHANGED <<durable, world>>

-----------------------------------------------------------------------------
(* The events. *)

\* Mutant: the channel has no bound.
EnqueuedAlways(c, event) == [c EXCEPT !.queue = Append(@, event)]

\* Mutant: what does not fit into the channel is dropped.
EnqueuedOrDropped(c, event) ==
    IF Len(c.queue) < QueueCap THEN [c EXCEPT !.queue = Append(@, event)] ELSE c

\* try_send; what does not fit sets the flag.
Enqueued(c, event) ==
    IF Len(c.queue) < QueueCap THEN [c EXCEPT !.queue = Append(@, event)]
                               ELSE [c EXCEPT !.lost = TRUE]

Change(d, f, v) ==
    /\ v # disk[d][f] /\ Trouble
    /\ disk' = [disk EXCEPT ![d][f] = v]
    /\ chan' = [t \in Threads |-> IF t[1] = d /\ watcher[t] = "live"
                                    THEN [chan[t] EXCEPT !.os = @ \cup {f}] ELSE chan[t]]
    /\ UNCHANGED <<entries, closed, durable, pc, watcher, job, allowed,
                   unremoved>>

\* The read scope of the configuration changes.
Allow(d) ==
    /\ allowed' = [allowed EXCEPT ![d] = ~@]
    /\ UNCHANGED <<entries, closed, durable, threads, disk, troubles,
                   unremoved>>

Deliver(t, f) ==
    /\ f \in chan[t].os
    /\ chan' = [chan EXCEPT ![t] = Enqueued([chan[t] EXCEPT !.os = @ \ {f}], f)]
    /\ UNCHANGED <<entries, closed, durable, pc, watcher, job, world,
                   troubles, unremoved>>

\* The operating system gives up on details.
DeliverRescan(t) ==
    /\ chan[t].os # {}
    /\ chan' = [chan EXCEPT ![t] = Enqueued([chan[t] EXCEPT !.os = {}], "rescan")]
    /\ UNCHANGED <<entries, closed, durable, pc, watcher, job, world,
                   troubles, unremoved>>

\* A watcher reports an error, and nothing more.
WatcherBreaks(t) ==
    /\ watcher[t] = "live" /\ Trouble
    /\ watcher' = [watcher EXCEPT ![t] = "deaf"]
    /\ chan' = [chan EXCEPT ![t] = Enqueued([chan[t] EXCEPT !.os = {}], "error")]
    /\ UNCHANGED <<entries, closed, durable, pc, job, world, unremoved>>

-----------------------------------------------------------------------------
(* A thread: watch::run. *)

\* The entry is there, of the thread's generation, and not cancelled.
Current(t) ==
    /\ state[t[1]] # "none"
    /\ gen[t[1]] = t[2]
    /\ t \notin cancelled

InQueue(t) == {chan[t].queue[i] : i \in DOMAIN chan[t].queue}

\* drain: the flag, then the events.  (An event that comes between the two is
\* like one that comes right after.)
Drained(t) ==
    LET paths == InQueue(t) \cap Files
        full  == \/ chan[t].lost
                 \/ InQueue(t) \cap {"rescan", "error"} # {}
                 \/ Cardinality(paths) > BatchCap
    IN  [paths  |-> IF full THEN {} ELSE paths,
         rescan |-> full,
         broken |-> "error" \in InQueue(t)]

Merged(a, b) ==
    LET full == a.rescan \/ b.rescan \/ Cardinality(a.paths \cup b.paths) > BatchCap
    IN  [paths  |-> IF full THEN {} ELSE a.paths \cup b.paths,
         rescan |-> full,
         broken |-> a.broken \/ b.broken]

Some(batch) == batch.paths # {} \/ batch.rescan \/ batch.broken

Batch(t) == Merged(job[t].carried, Drained(t))

\* The channel once it is drained; without a watcher nothing is on its way.
Emptied(t, watched) ==
    [chan EXCEPT ![t] = [NoChan EXCEPT !.os = IF watched THEN chan[t].os ELSE {}]]

\* The thread returns; its watcher and its channel are dropped.
Ends(t) ==
    /\ pc' = [pc EXCEPT ![t] = "off"]
    /\ watcher' = [watcher EXCEPT ![t] = "none"]
    /\ chan' = [chan EXCEPT ![t] = NoChan]
    /\ job' = [job EXCEPT ![t] = NewJob]

Subscribe(t, ok) ==
    /\ pc[t] = "subscribing"
    /\ IF ok THEN UNCHANGED troubles ELSE Trouble
    /\ watcher' = [watcher EXCEPT ![t] = IF ok THEN "live" ELSE "none"]
    /\ pc' = [pc EXCEPT ![t] = "loop"]
    /\ UNCHANGED <<entries, closed, durable, chan, job, world, unremoved>>

\* While it backs off the thread forgets the paths, and owes a full scan.
BackOff(t) ==
    LET batch == Batch(t) IN
    /\ pc[t] = "loop" /\ job[t].backoff /\ Some(batch)
    /\ watcher' = [watcher EXCEPT ![t] = IF batch.broken THEN "none" ELSE @]
    /\ chan' = Emptied(t, watcher'[t] = "live")
    /\ job' = [job EXCEPT ![t].carried = NoBatch,
                          ![t].full = @ \/ batch.rescan \/ batch.paths # {}]
    /\ UNCHANGED <<entries, closed, durable, pc, world, troubles, unremoved>>

BackoffEnds(t) ==
    /\ job[t].backoff
    /\ job' = [job EXCEPT ![t].backoff = FALSE]
    /\ UNCHANGED <<entries, closed, durable, pc, watcher, chan, world,
                   troubles, unremoved>>

\* Mutant: a snapshot is never calibrated.
PeriodNeverPasses(t) == FALSE /\ UNCHANGED vars

\* Five minutes have passed since the last full scan.
PeriodPasses(t) ==
    /\ pc[t] = "loop" /\ ~job[t].full
    /\ job' = [job EXCEPT ![t].full = TRUE]
    /\ UNCHANGED <<entries, closed, durable, pc, watcher, chan, world,
                   troubles, unremoved>>

\* A batch is taken: a lost watcher is replaced, then working marks the entry.
Begin(t, ok) ==
    LET batch  == Batch(t)
        broken == batch.broken \/ watcher[t] = "none"
    IN
    /\ pc[t] = "loop" /\ ~job[t].backoff
    /\ job[t].full \/ batch.rescan \/ batch.paths # {}
    /\ Current(t)
    /\ IF broken /\ ~ok THEN Trouble ELSE UNCHANGED troubles
    /\ watcher' = [watcher EXCEPT ![t] = IF ~broken THEN @ ELSE IF ok THEN "live" ELSE "none"]
    /\ chan' = Emptied(t, ~broken)
    /\ job' = [job EXCEPT ![t].carried = NoBatch, ![t].full = @ \/ batch.rescan,
                          ![t].todo = batch.paths]
    /\ state' = [state EXCEPT ![t[1]] = "building"]
    /\ pc' = [pc EXCEPT ![t] = "waiting"]
    /\ UNCHANGED <<gen, token, snapshot, cancelled, closed, durable, world,
                   unremoved>>

\* One scan at a time.  refresh starts from the records and reads the paths; it
\* may hand over to a scan (a directory, a link, an unknown parent).
StartScan(t, whole) ==
    LET d == t[1]
        full == job[t].full \/ whole \/ snapshot[d] = NoRecords
    IN
    /\ pc[t] = "waiting" /\ \A u \in Threads : pc[u] # "scanning"
    /\ job' = [job EXCEPT ![t].full = full,
                          ![t].todo = IF full THEN Files ELSE @,
                          ![t].seen = IF full THEN Empty ELSE snapshot[d]]
    /\ pc' = [pc EXCEPT ![t] = "scanning"]
    /\ UNCHANGED <<entries, closed, durable, watcher, chan, world, troubles,
                   unremoved>>

ReadFile(t, f) ==
    /\ pc[t] = "scanning" /\ f \in job[t].todo
    /\ job' = [job EXCEPT ![t].todo = @ \ {f}, ![t].seen[f] = disk[t[1]][f]]
    /\ UNCHANGED <<entries, closed, durable, pc, watcher, chan, world,
                   troubles, unremoved>>

\* Mutant: the database is written before the entry is looked up.
PublishToDisk(t) ==
    /\ pc[t] = "scanning" /\ job[t].todo = {}
    /\ db' = [db EXCEPT ![t[1]] = job[t].seen]
    /\ Ends(t)
    /\ UNCHANGED <<entries, closed, stored, used, world, troubles, unremoved>>

\* What came during the scan is carried to the next batch, and keeps the entry
\* from being ready; the database is replaced, then the records.
Publish(t) ==
    LET d == t[1]
        batch == Drained(t)
    IN
    /\ pc[t] = "scanning" /\ job[t].todo = {}
    /\ Current(t)
    /\ watcher' = [watcher EXCEPT ![t] = IF batch.broken THEN "none" ELSE @]
    /\ chan' = Emptied(t, watcher'[t] = "live")
    /\ snapshot' = [snapshot EXCEPT ![d] = job[t].seen]
    /\ db' = [db EXCEPT ![d] = job[t].seen]
    /\ state' = [state EXCEPT ![d] = IF watcher'[t] = "none" THEN "pending"
                                     ELSE IF Some(batch) THEN "building" ELSE "ready"]
    /\ job' = [job EXCEPT ![t] = [NewJob EXCEPT !.carried = batch,
                                                !.full = (watcher'[t] = "none"),
                                                !.backoff = (watcher'[t] = "none")]]
    /\ pc' = [pc EXCEPT ![t] = "loop"]
    /\ UNCHANGED <<gen, token, cancelled, closed, stored, used, world,
                   troubles, unremoved>>

\* The scan, the copy or the replacement of the database fails.
ScanFails(t) ==
    LET batch == Drained(t) IN
    /\ pc[t] = "scanning" /\ Current(t) /\ Trouble
    /\ watcher' = [watcher EXCEPT ![t] = IF batch.broken THEN "none" ELSE @]
    /\ chan' = Emptied(t, watcher'[t] = "live")
    /\ state' = [state EXCEPT ![t[1]] = "pending"]
    /\ job' = [job EXCEPT ![t] = [NewJob EXCEPT !.carried = batch, !.backoff = TRUE]]
    /\ pc' = [pc EXCEPT ![t] = "loop"]
    /\ UNCHANGED <<gen, token, snapshot, cancelled, closed, durable, world,
                   unremoved>>

\* Too many entries, or too slow: the thread gives up.
BudgetExceeded(t) ==
    /\ pc[t] = "scanning" /\ Current(t) /\ Trouble
    /\ state' = [state EXCEPT ![t[1]] = "pending"]
    /\ Ends(t)
    /\ UNCHANGED <<gen, token, snapshot, cancelled, closed, durable, world,
                   unremoved>>

\* A cancelled thread, or one whose entry is gone, notices: at the top of its
\* loop, in working, between two files or in publish.
Exit(t) ==
    /\ pc[t] \in {"loop", "waiting", "scanning"} /\ ~Current(t)
    /\ Ends(t)
    /\ UNCHANGED <<entries, closed, durable, world, troubles, unremoved>>

-----------------------------------------------------------------------------

Run(t) ==
    \/ \E ok \in BOOLEAN : Subscribe(t, ok) \/ Begin(t, ok)
    \/ BackOff(t) \/ Publish(t) \/ ScanFails(t) \/ BudgetExceeded(t) \/ Exit(t)
    \/ \E whole \in BOOLEAN : StartScan(t, whole)
    \/ \E f \in Files : ReadFile(t, f)

Timer(t) == BackoffEnds(t) \/ PeriodPasses(t)

Events(t) ==
    \/ \E f \in Files : Deliver(t, f)
    \/ DeliverRescan(t) \/ WatcherBreaks(t)

Command(d) ==
    \/ \E saved \in BOOLEAN : Add(d, saved)
    \/ \E saved, erased \in BOOLEAN : Remove(d, saved, erased)
    \/ Update(d) \/ Stop(d)

Next ==
    \/ \E t \in Threads : Run(t) \/ Timer(t) \/ Events(t)
    \/ \E d \in Dirs : Command(d) \/ Allow(d)
    \/ \E d \in Dirs, f \in Files, v \in 0 .. MaxVersion : Change(d, f, v)
    \/ \E bad, again \in SUBSET Dirs : Restart(bad, again)
    \/ Restrict \/ Shutdown

Spec == Init /\ [][Next]_vars

\* Threads run on, timers run out, events arrive.
Fairness ==
    \A t \in Threads :
       /\ WF_vars(Run(t)) /\ WF_vars(BackoffEnds(t)) /\ WF_vars(PeriodPasses(t))
       /\ WF_vars(\E f \in Files : Deliver(t, f))

FairSpec == Spec /\ Fairness

-----------------------------------------------------------------------------
(* Properties. *)

Latest(d) == <<d, gen[d]>>

\* A snapshot that searches are served from misses nothing silently: what it
\* does not show is on its way to the thread, or known to be lost, or the
\* watcher has failed and the next calibration will find it.
NoSilentStaleness ==
    \A d \in Dirs :
       state[d] = "ready" /\ ~closed /\ d \notin unremoved =>
         LET t == Latest(d) IN
         \A f \in Files :
            \/ snapshot[d][f] = disk[d][f]
            \/ f \in chan[t].os \cup InQueue(t)
            \/ Drained(t).rescan \/ job[t].full
            \/ watcher[t] = "deaf"

\* A directory that is shown as current or under way has a thread of its own
\* generation; what was stopped, restricted or superseded never comes back.
RunningHasThread ==
    \A d \in Dirs :
       state[d] \in {"building", "ready"} /\ ~closed /\ d \notin unremoved =>
         token[d] = gen[d] /\ Latest(d) \notin cancelled /\ pc[Latest(d)] # "off"

\* What was removed stays removed, however late a thread publishes.
StaysGone ==
    \A d \in used : state[d] = "none" => state'[d] = "none" /\ db'[d] = db[d]
GoneStaysGone == [][StaysGone]_vars

\* A thread that is left alone catches up with the disk for good, through
\* lost events, failed watchers and failed scans, and serves searches again.
CatchesUp ==
    \A d \in Dirs :
       <>[](gen[d] # 0 /\ Current(Latest(d)) /\ pc[Latest(d)] # "off")
         => <>[](snapshot[d] = disk[d]) /\ []<>(state[d] = "ready")

\* "calibrated every five minutes" (the status of a ready directory,
\* src/inventory.rs:370).
ReadyIsCalibrated ==
    \A d \in Dirs : state[d] = "ready" /\ ~closed => Latest(d) \notin cancelled
=============================================================================
