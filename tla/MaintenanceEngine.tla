--------------------------- MODULE MaintenanceEngine ---------------------------
(***************************************************************************)
(* Software maintenance and the DNS flush: src/software/engine.rs as       *)
(* src/software/store.rs calls it, the isolated provider worker            *)
(* (isolated.rs), the WinGet queue behind it (typed.rs) and the receipt    *)
(* journal with its exclusive file lock.                                   *)
(*                                                                         *)
(* A host is one Dao-Shell process; the desktop admits one request at a    *)
(* time, so a host has at most one engine call.  Two hosts share the       *)
(* journal directory.  A worker process survives the host that spawned it, *)
(* and the installer survives the worker.                                  *)
(*                                                                         *)
(* Bounds: MaxBoot and MaxCrashes cap machine restarts and host crashes.   *)
(***************************************************************************)
EXTENDS ActionJournal

CONSTANTS
    Hosts, Ops, Packages,
    MaxVersion,      \* versions of a package are 1..MaxVersion, 0 is absent
    NoHost, NoOp,
    Resolver,        \* the target of a DNS flush
    MaxBoot, MaxCrashes

ASSUME MaxVersionAssumption == MaxVersion \in Nat \ {0}
ASSUME MaxBootAssumption == MaxBoot \in Nat \ {0}
ASSUME MaxCrashesAssumption == MaxCrashes \in Nat
ASSUME NoHostAssumption == NoHost \notin Hosts
ASSUME NoOpAssumption == NoOp \notin Ops
ASSUME ResolverAssumption == Resolver \notin Packages
ASSUME NoTargetAssumption == NoOp \notin Packages \cup {Resolver}

VARIABLES
    rows,       \* the durable journal: operation -> receipt
    lock,       \* the host that holds actions.lock
    pc,         \* where each host's call stands
    call,       \* the operation of each host's call
    result,     \* the lifecycle each host's call is about to record
    idle,       \* what recover saw of the provider queue, per host
    plan,       \* operation -> the frozen plan, its kind "none" before prepare
    worker,     \* operation -> its isolated provider process
    native,     \* operation -> what the machine does for it
    installed,  \* package -> installed version, 0 when absent
    boot,       \* the machine's boot sequence
    crashes,    \* host crashes so far
    orphans,    \* history: operations whose host died before their worker acted
    bootAt      \* history: the boot in which each operation was recorded

vars == <<rows, lock, pc, call, result, idle, plan, worker, native, installed,
          boot, crashes, orphans, bootAt>>
machine == <<installed, boot, crashes, orphans, bootAt>>

Versions == 1 .. MaxVersion
Kinds == {"install", "upgrade", "uninstall", "flush_dns_cache"}

Lives == {"none", "dispatching", "unknown", "verified", "failed",
          "awaiting_reboot", "cancelled_before_dispatch", "checked_unknown"}
Receipts == [life : Lives, aged : BOOLEAN, reboot : BOOLEAN,
             boot : 0 .. MaxBoot, baseline : 0 .. MaxBoot]
NoReceipt == [life |-> "none", aged |-> FALSE, reboot |-> FALSE,
              boot |-> 0, baseline |-> 0]

Plans == [kind : Kinds \cup {"none"}, target : Packages \cup {Resolver},
          version : 0 .. MaxVersion, prestate : 0 .. MaxVersion]
NoPlan == [kind |-> "none", target |-> Resolver, version |-> 0, prestate |-> 0]

KindOf == [op \in Ops |-> plan[op].kind]
IsFlush(op) == plan[op].kind = "flush_dns_cache"

\* Mutant: an install lands one version too far.
WantedNextVersion(p) == IF p.kind = "uninstall" THEN 0 ELSE p.version + 1

\* The state a plan is to leave behind.
Wanted(p) == IF p.kind = "uninstall" THEN 0 ELSE p.version

\* For software, an inspection still shows the package the plan was frozen for.
Unchanged(op) == ~IsFlush(op) => installed[plan[op].target] = plan[op].prestate

\* Mutant: a receipt waiting for a restart no longer blocks its package.
BlockedByUnknownOnly(op) ==
    \E old \in Ops : /\ rows[old].life \in {"unknown", "dispatching"}
                     /\ plan[old].target = plan[op].target

\* A pending receipt for the same package (or another flush) blocks a plan.
Blocked(op) ==
    \E old \in Ops : /\ rows[old].life \in Pending
                     /\ plan[old].target = plan[op].target

WorkerLive == {"checking", "checked", "waiting"}
NativeDone == {"ok", "reboot", "failed"}

\* No matching item in the provider's queue.
QueueIdle(target) ==
    \A op \in Ops : plan[op].target = target => native[op] # "running"

Steps == {"idle", "prepared", "opened", "confirming", "approved", "validated",
          "recorded", "awaiting", "postcheck", "finishing",
          "recovering", "reconciling"}

\* The steps at which a host has the engine open, and with it the file lock.
EngineOpen == Steps \ {"idle", "prepared"}

TypeOK ==
    /\ rows \in [Ops -> Receipts]
    /\ lock \in Hosts \cup {NoHost}
    /\ pc \in [Hosts -> Steps]
    /\ call \in [Hosts -> Ops \cup {NoOp}]
    /\ result \in [Hosts -> Lives]
    /\ idle \in [Hosts -> BOOLEAN]
    /\ plan \in [Ops -> Plans]
    /\ worker \in [Ops -> {"none", "replied", "error", "dead"} \cup WorkerLive]
    /\ native \in [Ops -> {"none", "running", "ended"} \cup NativeDone]
    /\ installed \in [Packages -> 0 .. MaxVersion]
    /\ boot \in 1 .. MaxBoot
    /\ crashes \in 0 .. MaxCrashes
    /\ orphans \in SUBSET Ops
    /\ bootAt \in [Ops -> 0 .. MaxBoot]

Init ==
    /\ rows = [op \in Ops |-> NoReceipt]
    /\ lock = NoHost
    /\ pc = [h \in Hosts |-> "idle"]
    /\ call = [h \in Hosts |-> NoOp]
    /\ result = [h \in Hosts |-> "none"]
    /\ idle = [h \in Hosts |-> FALSE]
    /\ plan = [op \in Ops |-> NoPlan]
    /\ worker = [op \in Ops |-> "none"]
    /\ native = [op \in Ops |-> "none"]
    /\ installed \in [Packages -> 0 .. MaxVersion]
    /\ boot = 1
    /\ crashes = 0
    /\ orphans = {}
    /\ bootAt = [op \in Ops |-> 0]

-----------------------------------------------------------------------------
(* The call of a host. *)

Goto(h, step) == pc' = [pc EXCEPT ![h] = step]

\* The call returns and the Engine it holds is dropped, its lock with it.
Return(h) ==
    /\ Goto(h, "idle")
    /\ call' = [call EXCEPT ![h] = NoOp]
    /\ result' = [result EXCEPT ![h] = "none"]
    /\ idle' = [idle EXCEPT ![h] = FALSE]
    /\ lock' = IF lock = h THEN NoHost ELSE lock

\* Store::call inspects the package and freezes a plan that fits its state.
Prepare(h, op, k, p, v) ==
    /\ pc[h] = "idle" /\ plan[op].kind = "none"
    /\ \/ k = "install" /\ installed[p] = 0
       \/ k = "upgrade" /\ installed[p] \in 1 .. v - 1
       \/ k = "uninstall" /\ installed[p] = v
    /\ plan' = [plan EXCEPT ![op] = [kind |-> k, target |-> p, version |-> v,
                                     prestate |-> installed[p]]]
    /\ call' = [call EXCEPT ![h] = op]
    /\ Goto(h, "prepared")
    /\ UNCHANGED <<rows, lock, result, idle, worker, native, machine>>

PrepareFlush(h, op) ==
    /\ pc[h] = "idle" /\ plan[op].kind = "none"
    /\ plan' = [plan EXCEPT ![op] = [NoPlan EXCEPT !.kind = "flush_dns_cache"]]
    /\ call' = [call EXCEPT ![h] = op]
    /\ Goto(h, "prepared")
    /\ UNCHANGED <<rows, lock, result, idle, worker, native, machine>>

OpenEngine(h) ==
    /\ pc[h] = "prepared" /\ lock = NoHost
    /\ lock' = h
    /\ rows' = Opened(rows, KindOf)
    /\ Goto(h, "opened")
    /\ UNCHANGED <<call, result, idle, plan, worker, native, machine>>

\* Mutant: the gate is not consulted.
AdmitUngated(h) ==
    /\ pc[h] = "opened"
    /\ Unchanged(call[h])
    /\ Goto(h, "confirming")
    /\ UNCHANGED <<rows, lock, call, result, idle, plan, worker, native, machine>>

\* The gate is open and a fresh inspection still fits.
Admit(h) ==
    /\ pc[h] = "opened"
    /\ ~Blocked(call[h])
    /\ Unchanged(call[h])
    /\ Goto(h, "confirming")
    /\ UNCHANGED <<rows, lock, call, result, idle, plan, worker, native, machine>>

\* The person approves in time and nothing was cancelled.
Confirm(h) ==
    /\ pc[h] = "confirming"
    /\ Goto(h, IF IsFlush(call[h]) THEN "validated" ELSE "approved")
    /\ UNCHANGED <<rows, lock, call, result, idle, plan, worker, native, machine>>

\* The second inspection, after the confirmation.
Revalidate(h) ==
    /\ pc[h] = "approved" /\ Unchanged(call[h])
    /\ Goto(h, "validated")
    /\ UNCHANGED <<rows, lock, call, result, idle, plan, worker, native, machine>>

\* The boot sequence may be unreadable (0); a flush does not record it.
SaveDispatching(h, seen) ==
    LET op == call[h] IN
    /\ pc[h] = "validated"
    /\ CanSave(rows, op)
    /\ seen \in IF IsFlush(op) THEN {0} ELSE {0, boot}
    /\ rows' = [rows EXCEPT ![op] =
                  [NoReceipt EXCEPT !.life = "dispatching", !.boot = seen]]
    /\ bootAt' = [bootAt EXCEPT ![op] = boot]
    /\ Goto(h, "recorded")
    /\ UNCHANGED <<lock, call, result, idle, plan, worker, native,
                   installed, boot, crashes, orphans>>

\* Every way a call ends before its receipt exists: the lock is taken, the
\* gate is closed, the plan is stale or expired, the answer is no, late or
\* cancelled, a query fails, the save fails.
GiveUp(h) ==
    /\ pc[h] \in {"prepared", "opened", "confirming", "approved", "validated"}
    /\ Return(h)
    /\ UNCHANGED <<rows, plan, worker, native, machine>>

\* Cancelled or expired between the save and the dispatch; the second save
\* may fail and leave the row "dispatching".
CancelRecorded(h, saved) ==
    /\ pc[h] = "recorded"
    /\ rows' = IF saved
                 THEN [rows EXCEPT ![call[h]].life = "cancelled_before_dispatch"]
                 ELSE rows
    /\ Return(h)
    /\ UNCHANGED <<plan, worker, native, machine>>

Spawn(h) ==
    /\ pc[h] = "recorded" /\ ~IsFlush(call[h])
    /\ worker' = [worker EXCEPT ![call[h]] = "checking"]
    /\ Goto(h, "awaiting")
    /\ UNCHANGED <<rows, lock, call, result, idle, plan, native, machine>>

\* The flush is a synchronous call in the host.
CallFlush(h) ==
    /\ pc[h] = "recorded" /\ IsFlush(call[h])
    /\ native' = [native EXCEPT ![call[h]] = "running"]
    /\ Goto(h, "awaiting")
    /\ UNCHANGED <<rows, lock, call, result, idle, plan, worker, machine>>

Conclude(h, life) ==
    /\ result' = [result EXCEPT ![h] = life]
    /\ Goto(h, "finishing")

\* The request fails before a worker (or the resolver library) exists.
DispatchFails(h) ==
    /\ pc[h] = "recorded"
    /\ Conclude(h, "unknown")
    /\ UNCHANGED <<rows, lock, call, idle, plan, worker, native, machine>>

FlushReturns(h, ok) ==
    /\ pc[h] = "awaiting" /\ IsFlush(call[h])
    /\ native' = [native EXCEPT ![call[h]] = IF ok THEN "ok" ELSE "failed"]
    /\ Conclude(h, IF ok THEN "verified" ELSE "failed")
    /\ UNCHANGED <<rows, lock, call, idle, plan, worker, machine>>

\* Mutant: any answer of the worker counts as success.
ReceiveAnyAsOk(h) ==
    /\ pc[h] = "awaiting" /\ worker[call[h]] = "replied"
    /\ Goto(h, "postcheck")
    /\ worker' = [worker EXCEPT ![call[h]] = "dead"]
    /\ UNCHANGED <<rows, lock, call, result, idle, plan, native, machine>>

\* The worker's answer: the outcome typed.rs reads off the finished operation.
Receive(h) ==
    LET op == call[h] IN
    /\ pc[h] = "awaiting" /\ worker[op] = "replied"
    /\ IF native[op] = "ok"
         THEN Goto(h, "postcheck") /\ UNCHANGED result
         ELSE Conclude(h, IF native[op] = "reboot"
                            THEN "awaiting_reboot" ELSE "unknown")
    /\ worker' = [worker EXCEPT ![op] = "dead"]
    /\ UNCHANGED <<rows, lock, call, idle, plan, native, machine>>

ReceiveError(h) ==
    /\ pc[h] = "awaiting" /\ worker[call[h]] = "error"
    /\ worker' = [worker EXCEPT ![call[h]] = "dead"]
    /\ Conclude(h, "unknown")
    /\ UNCHANGED <<rows, lock, call, idle, plan, native, machine>>

\* Mutant: a killed worker is taken for a cancelled dispatch.
KillAsCancelled(h) ==
    LET op == call[h] IN
    /\ pc[h] = "awaiting" /\ worker[op] \in WorkerLive \cup {"replied"}
    /\ worker' = [worker EXCEPT ![op] = "dead"]
    /\ Conclude(h, "cancelled_before_dispatch")
    /\ UNCHANGED <<rows, lock, call, idle, plan, native, machine>>

\* Mutant: exchange waits for its worker without a time limit.
KillNever(h) == FALSE /\ UNCHANGED vars

\* Cancelled, out of time or over budget: exchange kills the worker and waits
\* for it; an installer it started keeps running.
Kill(h) ==
    LET op == call[h] IN
    /\ pc[h] = "awaiting" /\ worker[op] \in WorkerLive \cup {"replied"}
    /\ worker' = [worker EXCEPT ![op] = "dead"]
    /\ Conclude(h, "unknown")
    /\ UNCHANGED <<rows, lock, call, idle, plan, native, machine>>

\* "verified" needs an inspection that shows the planned state.
PostCheck(h, readable) ==
    LET p == plan[call[h]] IN
    /\ pc[h] = "postcheck"
    /\ Conclude(h, IF readable /\ installed[p.target] = Wanted(p)
                     THEN "verified" ELSE "unknown")
    /\ UNCHANGED <<rows, lock, call, idle, plan, worker, native, machine>>

\* The last save; if it fails the durable row stays "dispatching".
Finish(h, saved) ==
    /\ pc[h] = "finishing"
    /\ rows' = IF saved
                 THEN [rows EXCEPT ![call[h]].life = result[h],
                                   ![call[h]].reboot = result[h] = "awaiting_reboot"]
                 ELSE rows
    /\ Return(h)
    /\ UNCHANGED <<plan, worker, native, machine>>

-----------------------------------------------------------------------------
(* Recovery: the read-only check of a receipt. *)

\* Store::local_with_cancel opens the engine and looks the receipt up.
StartReconcile(h, op) ==
    /\ pc[h] = "idle" /\ lock = NoHost
    /\ rows' = Opened(rows, KindOf)
    /\ rows'[op].life # "none"
    /\ lock' = h
    /\ call' = [call EXCEPT ![h] = op]
    /\ Goto(h, IF IsFlush(op) THEN "reconciling" ELSE "recovering")
    /\ UNCHANGED <<result, idle, plan, worker, native, machine>>

\* Provider.recover: is this package in the provider's queue?
Recover(h) ==
    /\ pc[h] = "recovering"
    /\ idle' = [idle EXCEPT ![h] = QueueIdle(plan[call[h]].target)]
    /\ Goto(h, "reconciling")
    /\ UNCHANGED <<rows, lock, call, result, plan, worker, native, machine>>

\* Mutant: the receipt is released while the provider is busy.
CheckedWhileBusy(row, isIdle, now) ==
    LET waiting  == row.life = "awaiting_reboot" \/ row.reboot
        previous == IF row.boot # 0 THEN row.boot ELSE row.baseline
        newer    == previous # 0 /\ now # 0 /\ now > previous
    IN  [row EXCEPT !.life = IF ~waiting \/ newer THEN "checked_unknown" ELSE @]

\* Mutant: the boot on record counts as a new one.
CheckedSameBoot(row, isIdle, now) ==
    LET waiting  == row.life = "awaiting_reboot" \/ row.reboot
        previous == IF row.boot # 0 THEN row.boot ELSE row.baseline
        newer    == previous # 0 /\ now # 0 /\ now >= previous
    IN  [row EXCEPT
           !.baseline = IF waiting /\ previous = 0 THEN now ELSE @,
           !.life = IF isIdle /\ (~waiting \/ newer) THEN "checked_unknown" ELSE @]

\* The receipt recovery leaves: released only when the provider is idle and,
\* where a restart is awaited, in a later boot than the one on record.  now
\* is the boot sequence as read, 0 when unreadable.
Checked(row, isIdle, now) ==
    LET waiting  == row.life = "awaiting_reboot" \/ row.reboot
        previous == IF row.boot # 0 THEN row.boot ELSE row.baseline
        newer    == previous # 0 /\ now # 0 /\ now > previous
    IN  [row EXCEPT
           !.baseline = IF waiting /\ previous = 0 THEN now ELSE @,
           !.life = IF isIdle /\ (~waiting \/ newer) THEN "checked_unknown" ELSE @]

\* reconcile_with_boot; a settled receipt is returned as it is.
Reconcile(h, now, saved) ==
    LET op == call[h] IN
    /\ pc[h] = "reconciling" /\ ~IsFlush(op)
    /\ now \in {0, boot}
    /\ rows' = IF rows[op].life \in Pending /\ saved
                 THEN [rows EXCEPT ![op] = Checked(@, idle[h], now)]
                 ELSE rows
    /\ Return(h)
    /\ UNCHANGED <<plan, worker, native, machine>>

\* reconcile_local_dns: holding the lock shows the synchronous call is over.
ReconcileFlush(h, saved) ==
    LET op == call[h] IN
    /\ pc[h] = "reconciling" /\ IsFlush(op)
    /\ rows' = IF rows[op].life \in Pending /\ saved
                 THEN [rows EXCEPT ![op].life = "checked_unknown"]
                 ELSE rows
    /\ Return(h)
    /\ UNCHANGED <<plan, worker, native, machine>>

\* The provider query fails or the request is cancelled.
RecoverFails(h) ==
    /\ pc[h] \in {"recovering", "reconciling"}
    /\ ~IsFlush(call[h])
    /\ Return(h)
    /\ UNCHANGED <<rows, plan, worker, native, machine>>

-----------------------------------------------------------------------------
(* The isolated worker and the machine behind it. *)

\* The worker inspects and revalidates the plan again.
WorkerChecks(op) ==
    /\ worker[op] = "checking" /\ Unchanged(op)
    /\ worker' = [worker EXCEPT ![op] = "checked"]
    /\ UNCHANGED <<rows, lock, pc, call, result, idle, plan, native, machine>>

\* InstallPackageAsync, UpgradePackageAsync or UninstallPackageAsync.
WorkerDispatches(op) ==
    /\ worker[op] = "checked"
    /\ worker' = [worker EXCEPT ![op] = "waiting"]
    /\ native' = [native EXCEPT ![op] = "running"]
    /\ UNCHANGED <<rows, lock, pc, call, result, idle, plan, machine>>

WorkerReplies(op) ==
    /\ worker[op] = "waiting" /\ native[op] \in NativeDone
    /\ worker' = [worker EXCEPT ![op] = "replied"]
    /\ UNCHANGED <<rows, lock, pc, call, result, idle, plan, native, machine>>

\* A refused plan, a failed COM call, the worker's own time limit or its death.
WorkerFails(op) ==
    /\ worker[op] \in WorkerLive
    /\ worker' = [worker EXCEPT ![op] = "error"]
    /\ UNCHANGED <<rows, lock, pc, call, result, idle, plan, native, machine>>

\* The installer ends.  Waiting for a restart, or failed, it may or may not
\* have reached the wanted state.
NativeEnds(op, outcome, reached) ==
    LET p == plan[op] IN
    /\ native[op] = "running" /\ ~IsFlush(op)
    /\ outcome = "ok" => reached
    /\ native' = [native EXCEPT ![op] = outcome]
    /\ installed' = IF reached THEN [installed EXCEPT ![p.target] = Wanted(p)]
                               ELSE installed
    /\ UNCHANGED <<rows, lock, pc, call, result, idle, plan, worker,
                   boot, crashes, orphans, bootAt>>

\* Someone changes the package outside Dao-Shell.
ExternalChange(p, v) ==
    /\ installed' = [installed EXCEPT ![p] = v]
    /\ UNCHANGED <<rows, lock, pc, call, result, idle, plan, worker, native,
                   boot, crashes, orphans, bootAt>>

\* Seven days pass over a receipt; no call lasts that long.
Age(op) ==
    /\ rows[op].life # "none" /\ ~rows[op].aged
    /\ \A h \in Hosts : call[h] # op
    /\ rows' = [rows EXCEPT ![op].aged = TRUE]
    /\ UNCHANGED <<lock, pc, call, result, idle, plan, worker, native, machine>>

-----------------------------------------------------------------------------
(* Crashes. *)

\* A flush ends with its process; an installer does not.
EndedFlush(dead) == [op \in Ops |-> IF op \in dead /\ IsFlush(op) /\ native[op] = "running"
                                      THEN "ended" ELSE native[op]]

\* A host process ends in the middle of a call.  The operating system drops
\* its lock; its worker goes on without it.
Crash(h) ==
    /\ pc[h] # "idle" /\ crashes < MaxCrashes
    /\ crashes' = crashes + 1
    /\ native' = EndedFlush({call[h]})
    /\ orphans' = orphans \cup {op \in {call[h]} : worker[op] \in {"checking", "checked"}}
    /\ Return(h)
    /\ UNCHANGED <<rows, plan, worker, installed, boot, bootAt>>

\* The machine restarts: every process ends, and with them every installer.
Reboot ==
    /\ boot < MaxBoot
    /\ boot' = boot + 1
    /\ pc' = [h \in Hosts |-> "idle"]
    /\ call' = [h \in Hosts |-> NoOp]
    /\ result' = [h \in Hosts |-> "none"]
    /\ idle' = [h \in Hosts |-> FALSE]
    /\ lock' = NoHost
    /\ worker' = [op \in Ops |-> IF worker[op] \in WorkerLive THEN "dead" ELSE worker[op]]
    /\ native' = [op \in Ops |-> IF native[op] = "running" THEN "ended" ELSE native[op]]
    /\ UNCHANGED <<rows, plan, installed, crashes, orphans, bootAt>>

-----------------------------------------------------------------------------

Call(h) ==
    \/ OpenEngine(h) \/ Admit(h) \/ Confirm(h) \/ Revalidate(h) \/ GiveUp(h)
    \/ \E seen \in 0 .. MaxBoot : SaveDispatching(h, seen)
    \/ \E saved \in BOOLEAN : CancelRecorded(h, saved)
    \/ Spawn(h) \/ CallFlush(h) \/ DispatchFails(h)
    \/ \E ok \in BOOLEAN : FlushReturns(h, ok)
    \/ Receive(h) \/ ReceiveError(h) \/ Kill(h)
    \/ \E readable \in BOOLEAN : PostCheck(h, readable)
    \/ \E saved \in BOOLEAN : Finish(h, saved)
    \/ Recover(h) \/ RecoverFails(h)
    \/ \E now \in 0 .. MaxBoot, saved \in BOOLEAN : Reconcile(h, now, saved)
    \/ \E saved \in BOOLEAN : ReconcileFlush(h, saved)

Request(h, op) ==
    \/ \E k \in Kinds, p \in Packages, v \in Versions : Prepare(h, op, k, p, v)
    \/ PrepareFlush(h, op)
    \/ StartReconcile(h, op)

Machine(op) ==
    \/ WorkerChecks(op) \/ WorkerDispatches(op) \/ WorkerReplies(op) \/ WorkerFails(op)
    \/ \E outcome \in NativeDone, reached \in BOOLEAN : NativeEnds(op, outcome, reached)
    \/ Age(op)

Next ==
    \/ \E h \in Hosts : Call(h) \/ Crash(h)
    \/ \E h \in Hosts, op \in Ops : Request(h, op)
    \/ \E op \in Ops : Machine(op)
    \/ \E p \in Packages, v \in 0 .. MaxVersion : ExternalChange(p, v)
    \/ Reboot

Spec == Init /\ [][Next]_vars

\* A host's call is one thread of code with a deadline at every wait: the
\* confirmation expires, and exchange kills a worker that does not answer.
Fairness == \A h \in Hosts : WF_vars(Call(h))

FairSpec == Spec /\ Fairness

-----------------------------------------------------------------------------
(* Properties. *)

\* An operation that can still change the machine.
Acting(op) == worker[op] \in {"checking", "checked"} \/ native[op] = "running"

\* One package is never worked on by two operations at once, through crashes,
\* restarts, failed saves, killed workers and a second host; the only way
\* around is a worker that outlived its host before it reached the provider.
NoOverlap ==
    \A a, b \in Ops :
       /\ a # b
       /\ plan[a].target = plan[b].target
       /\ native[a] = "running" /\ native[b] = "running"
       => a \in orphans \/ b \in orphans

\* What may still act is on record as unsettled, so a later request for the
\* same package finds its gate closed.
ActingIsOnRecord ==
    \A op \in Ops :
       Acting(op) => rows[op].life \in Pending \/ op \in orphans

\* A receipt that says the operation was cancelled before dispatch is true.
CancelledNeverActs ==
    \A op \in Ops :
       rows[op].life = "cancelled_before_dispatch"
         => worker[op] = "none" /\ native[op] = "none"

\* "verified" is only written for an operation whose own provider call ended
\* well, never for a killed, lost or interrupted one.
VerifiedRan ==
    \A op \in Ops : rows[op].life = "verified" => native[op] = "ok"

\* An operation known to need a restart is not released in the boot it ran in.
RebootHonoured ==
    \A op \in Ops :
       rows[op].life = "checked_unknown" /\ rows[op].reboot => boot > bootAt[op]

\* The table never grows past what list accepts, or every later call fails.
JournalReadable == Cardinality(Held(rows)) <= JournalCap

\* A step keeps an unsettled receipt on record and a settled one settled.
Settles ==
    \A op \in Ops :
       /\ rows[op].life \in Pending => rows'[op].life # "none"
       /\ rows[op].life \notin Pending \cup {"none"}
            => rows'[op].life \in {rows[op].life, "none"}

\* Recovery, pruning and failed saves never lose an unsettled receipt, and a
\* settled one is never reopened.
SettledStepwise == [][Settles]_rows

\* Every call returns and gives the journal lock back.
CallsReturn == \A h \in Hosts : pc[h] # "idle" ~> pc[h] = "idle"

\* The gate of a target, as this module builds it: held by the operations with
\* a pending receipt.  As long as no host crashes it keeps PackageGate's promise,
\* through failed saves, killed workers, a second host and machine restarts.
Gate == INSTANCE PackageGate WITH
    Targets  <- Packages \cup {Resolver},
    NoTarget <- NoOp,
    target   <- [op \in Ops |-> IF bootAt[op] = 0 THEN NoOp ELSE plan[op].target],
    held     <- {op \in Ops : rows[op].life \in Pending},
    begun    <- {op \in Ops : native[op] # "none"},
    acting   <- {op \in Ops : native[op] = "running"}

GateSpec == Gate!Spec

\* The design's rule (docs/plans/2026-10-22-phase4-maintenance-design.md:93):
\* what cannot be shown to have stopped keeps its gate.
ReleasedMeansStopped ==
    \A op \in Ops : rows[op].life = "checked_unknown" => ~Acting(op)
=============================================================================
