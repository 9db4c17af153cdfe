------------------------ MODULE MaintenanceEngineProofs ------------------------
(***************************************************************************)
(* Proofs about MaintenanceEngine, for any number of hosts, operations,    *)
(* packages, versions, machine restarts and host crashes.                  *)
(*                                                                         *)
(* NoOverlap is not inductive.  It rests on IInv: a call is at an engine   *)
(* step exactly while its host holds the file lock (LockInv); a plan that  *)
(* was never recorded has left no trace (FreshInv, UnplannedInv); the      *)
(* receipt of a call in progress matches the call's step (StageInv); a     *)
(* worker that has not reached the provider yet has a live host waiting    *)
(* for it, or is an orphan (WorkerInv); recovery's idle observation stays  *)
(* true until it is used (SeenInv); and receipts of one target are pending *)
(* one at a time (UniqueInv), because admission is still valid when the    *)
(* receipt is saved (AdmittedInv).                                         *)
(***************************************************************************)
EXTENDS MaintenanceEngine, FiniteSetTheorems, TLAPS

PreRecord == {"prepared", "opened", "confirming", "approved", "validated"}

LockInv == \A h \in Hosts : pc[h] \in EngineOpen <=> lock = h

CallInv == \A h \in Hosts : pc[h] # "idle" => call[h] \in Ops

UnplannedInv ==
    \A op \in Ops : plan[op].kind = "none" =>
        /\ rows[op].life = "none" /\ worker[op] = "none" /\ native[op] = "none"
        /\ \A h \in Hosts : call[h] # op

FreshInv ==
    \A h \in Hosts : pc[h] \in PreRecord =>
        /\ rows[call[h]].life = "none"
        /\ worker[call[h]] = "none" /\ native[call[h]] = "none"
        /\ \A g \in Hosts : g # h => call[g] # call[h]

StageInv ==
    \A h \in Hosts :
        /\ pc[h] \in {"recorded", "awaiting", "postcheck", "finishing"}
             => rows[call[h]].life = "dispatching"
        /\ pc[h] = "recorded"
             => worker[call[h]] = "none" /\ native[call[h]] = "none"
        /\ pc[h] = "postcheck" => native[call[h]] = "ok"
        /\ pc[h] \in {"postcheck", "finishing"}
             => worker[call[h]] \in {"none", "dead"}
        /\ pc[h] = "awaiting" /\ IsFlush(call[h])
             => worker[call[h]] = "none" /\ native[call[h]] = "running"
        /\ pc[h] = "finishing"
             => /\ result[h] \in {"unknown", "awaiting_reboot", "verified", "failed"}
                /\ result[h] = "verified" => native[call[h]] = "ok"
                /\ result[h] = "failed" => native[call[h]] = "failed"

WorkerInv ==
    \A op \in Ops :
        /\ worker[op] \in {"checking", "checked"} /\ op \notin orphans
             => \E h \in Hosts : pc[h] = "awaiting" /\ call[h] = op
        /\ native[op] = "running" /\ IsFlush(op)
             => \E h \in Hosts : pc[h] = "awaiting" /\ call[h] = op
        /\ worker[op] \in WorkerLive => ~IsFlush(op)
        /\ worker[op] \in {"checking", "checked"} => native[op] = "none"

SeenInv ==
    \A h \in Hosts :
        pc[h] = "reconciling" /\ idle[h] /\ ~IsFlush(call[h])
          => native[call[h]] # "running" \/ call[h] \in orphans

UniqueInv ==
    \A a, b \in Ops :
        a # b /\ rows[a].life \in Pending /\ rows[b].life \in Pending
          => plan[a].target # plan[b].target

AdmittedInv ==
    \A h \in Hosts :
        pc[h] \in {"confirming", "approved", "validated"} => ~Blocked(call[h])

IInv ==
    /\ TypeOK
    /\ LockInv /\ CallInv /\ UnplannedInv /\ FreshInv /\ StageInv
    /\ WorkerInv /\ SeenInv /\ UniqueInv /\ AdmittedInv
    /\ ActingIsOnRecord /\ CancelledNeverActs /\ VerifiedRan

-----------------------------------------------------------------------------

\* A receipt put in place of another keeps the journal well typed.
LEMMA RowTyped ==
    ASSUME TypeOK, NEW op \in Ops, NEW row \in Receipts
    PROVE  [rows EXCEPT ![op] = row] \in [Ops -> Receipts]
  BY DEF TypeOK

\* What opening the journal makes of one receipt, whatever its operation.
LEMMA PrunedRow ==
    ASSUME NEW kind, NEW row \in Receipts
    PROVE  /\ Recovered(row) \in Receipts
           /\ Pruned(kind, Recovered(row), FALSE) \in Receipts
           /\ row.life \in Pending
                => Pruned(kind, Recovered(row), FALSE).life \in Pending \ {"none"}
           /\ row.life \notin Pending
                => Pruned(kind, Recovered(row), FALSE).life \in {"none", row.life}
<1>1. /\ Recovered(row) \in Receipts
      /\ row.life \in Pending => Recovered(row).life \in Pending
      /\ row.life \notin Pending => Recovered(row) = row
  BY DEF Recovered, Interrupted, Pending, Receipts, Lives
<1> DEFINE now == Recovered(row)
<1>2. Pruned(kind, now, FALSE) \in {now, [now EXCEPT !.life = "none"]}
  BY DEF Pruned
<1>3. now.life \in Pending => Pruned(kind, now, FALSE) = now
  BY DEF Pruned, Retained
<1>4. [now EXCEPT !.life = "none"] \in Receipts /\ [now EXCEPT !.life = "none"].life = "none"
  BY <1>1 DEF Receipts, Lives
<1>5. "none" \notin Pending
  BY DEF Pending
<1> HIDE DEF now
<1> QED
  BY <1>1, <1>2, <1>3, <1>4, <1>5 DEF now

\* What opening the journal does: a pending receipt stays pending, a settled
\* one stays as it is or goes.
LEMMA OpenedKeeps ==
    ASSUME TypeOK
    PROVE  /\ Opened(rows, KindOf) \in [Ops -> Receipts]
           /\ \A op \in Ops :
                /\ rows[op].life \in Pending
                     => Opened(rows, KindOf)[op].life \in Pending \ {"none"}
                /\ rows[op].life \notin Pending
                     => Opened(rows, KindOf)[op].life \in {"none", rows[op].life}
<1>1. rows \in [Ops -> Receipts]
  BY DEF TypeOK
<1>2. /\ DOMAIN Opened(rows, KindOf) = Ops
      /\ \A op \in Ops : Opened(rows, KindOf)[op]
                            = Pruned(KindOf[op], Recovered(rows[op]), FALSE)
      /\ Opened(rows, KindOf) = [op \in Ops |-> Opened(rows, KindOf)[op]]
  BY <1>1 DEF Opened
<1>3. ASSUME NEW op \in Ops
      PROVE  /\ Opened(rows, KindOf)[op] \in Receipts
             /\ rows[op].life \in Pending
                  => Opened(rows, KindOf)[op].life \in Pending \ {"none"}
             /\ rows[op].life \notin Pending
                  => Opened(rows, KindOf)[op].life \in {"none", rows[op].life}
  <2> DEFINE row == rows[op]
             kind == KindOf[op]
  <2>1. row \in Receipts /\ Opened(rows, KindOf)[op] = Pruned(kind, Recovered(row), FALSE)
    BY <1>1, <1>2
  <2> HIDE DEF row, kind
  <2>2. /\ Pruned(kind, Recovered(row), FALSE) \in Receipts
        /\ row.life \in Pending
             => Pruned(kind, Recovered(row), FALSE).life \in Pending \ {"none"}
        /\ row.life \notin Pending
             => Pruned(kind, Recovered(row), FALSE).life \in {"none", row.life}
    BY <2>1, PrunedRow
  <2> QED
    BY <2>1, <2>2 DEF row
<1>4. Opened(rows, KindOf) \in [Ops -> Receipts]
  BY <1>2, <1>3
<1> QED
  BY <1>3, <1>4

\* What recovery makes of a receipt: it keeps its lifecycle, or is released
\* because the provider was seen idle.
LEMMA CheckedRow ==
    ASSUME NEW row \in Receipts, NEW isIdle \in BOOLEAN, NEW now \in 0 .. MaxBoot
    PROVE  /\ Checked(row, isIdle, now) \in Receipts
           /\ \/ Checked(row, isIdle, now).life = row.life
              \/ isIdle /\ Checked(row, isIdle, now).life = "checked_unknown"
  BY DEF Checked, Receipts, Lives

LEMMA InitInv == Init => IInv
<1> SUFFICES ASSUME Init PROVE IInv
  OBVIOUS
<1>1. TypeOK
  BY MaxVersionAssumption, MaxBootAssumption, MaxCrashesAssumption
     DEF Init, TypeOK, Steps, Lives, NoReceipt, NoPlan, Plans, Receipts
<1>2. /\ LockInv /\ CallInv /\ UnplannedInv /\ FreshInv /\ StageInv
      /\ WorkerInv /\ SeenInv /\ UniqueInv /\ AdmittedInv
      /\ ActingIsOnRecord /\ CancelledNeverActs /\ VerifiedRan
  BY NoHostAssumption, NoOpAssumption
     DEF Init, NoReceipt, LockInv, CallInv, UnplannedInv, FreshInv, StageInv,
         WorkerInv, SeenInv, UniqueInv, AdmittedInv, ActingIsOnRecord,
         CancelledNeverActs, VerifiedRan, EngineOpen, PreRecord, Pending,
         Acting, WorkerLive
<1> QED
  BY <1>1, <1>2 DEF IInv

-----------------------------------------------------------------------------

\* A lifecycle, a restart mark or an age written into a receipt.
LEMMA RowSet ==
    ASSUME NEW row \in Receipts, NEW life \in Lives, NEW flag \in BOOLEAN
    PROVE  /\ [row EXCEPT !.life = life] \in Receipts
           /\ [row EXCEPT !.life = life, !.reboot = flag] \in Receipts
           /\ [row EXCEPT !.aged = flag] \in Receipts
  BY DEF Receipts

\* The receipt saved before a dispatch.
LEMMA NewRow ==
    ASSUME NEW seen \in 0 .. MaxBoot
    PROVE  [NoReceipt EXCEPT !.life = "dispatching", !.boot = seen] \in Receipts
<1>1. NoReceipt \in Receipts
  BY MaxBootAssumption DEF NoReceipt, Receipts, Lives
<1> QED
  BY <1>1 DEF Receipts, Lives

\* No step of a call under way disturbs the invariant.
LEMMA CallKeeps ==
    ASSUME IInv,
           NEW g \in Hosts, Call(g)
    PROVE  IInv'
<1>1. ASSUME NEW h \in Hosts, OpenEngine(h)
     PROVE  IInv'
  <2>1. TypeOK
    BY <1>1 DEF IInv
  <2>2. /\ rows' \in [Ops -> Receipts]
        /\ \A op \in Ops :
             /\ rows[op].life \in Pending => rows'[op].life \in Pending \ {"none"}
             /\ rows[op].life \notin Pending
                  => rows'[op].life \in {"none", rows[op].life}
    BY <1>1, OpenedKeeps, <2>1 DEF OpenEngine
  <2>3. TypeOK'
    BY <1>1, <2>2 DEF IInv, TypeOK, Steps, machine, OpenEngine, Goto
  <2>4. /\ LockInv' /\ CallInv'
    BY <1>1, NoHostAssumption, NoOpAssumption
       DEF IInv, TypeOK, LockInv, CallInv, EngineOpen, Steps, OpenEngine,
           Goto
  <2>5. UnplannedInv'
    BY <1>1, <2>2 DEF IInv, UnplannedInv, Pending, OpenEngine
  <2>6. FreshInv'
    BY <1>1, <2>2
       DEF IInv, CallInv, FreshInv, Pending, EngineOpen, PreRecord, Steps,
           OpenEngine, Goto
  <2>7. StageInv'
    BY <1>1, NoHostAssumption
       DEF IInv, LockInv, StageInv, EngineOpen, Steps, OpenEngine, Goto
  <2>8. UniqueInv'
    BY <1>1, <2>2 DEF IInv, UniqueInv, Pending, OpenEngine, Goto
  <2>9. AdmittedInv'
    BY <1>1, <2>2 DEF IInv, AdmittedInv, Pending, Blocked, OpenEngine, Goto
  <2>10. ActingIsOnRecord'
    BY <1>1, <2>2
       DEF IInv, ActingIsOnRecord, Pending, Acting, machine, OpenEngine, Goto
  <2>11. CancelledNeverActs'
    BY <1>1, NoHostAssumption, NoOpAssumption, <2>2
       DEF IInv, CancelledNeverActs, Pending, OpenEngine
  <2>12. VerifiedRan'
    BY <1>1, NoHostAssumption, NoOpAssumption, <2>2
       DEF IInv, VerifiedRan, Pending, OpenEngine
  <2>13. /\ WorkerInv' /\ SeenInv'
    BY <1>1
       DEF IInv, WorkerInv, SeenInv, IsFlush, WorkerLive, machine,
           OpenEngine, Goto
  <2> QED
    BY <2>3, <2>4, <2>5, <2>6, <2>7, <2>8, <2>9, <2>10, <2>11, <2>12, <2>13
       DEF IInv
<1>2. ASSUME NEW h \in Hosts, Admit(h)
     PROVE  IInv'
  <2>1. TypeOK'
    BY <1>2 DEF IInv, TypeOK, Steps, machine, Admit, Goto
  <2>2. /\ LockInv' /\ CallInv' /\ UnplannedInv' /\ FreshInv' /\ StageInv'
        /\ WorkerInv' /\ SeenInv' /\ UniqueInv' /\ AdmittedInv'
        /\ ActingIsOnRecord' /\ CancelledNeverActs' /\ VerifiedRan'
    BY <1>2
       DEF IInv, LockInv, CallInv, UnplannedInv, FreshInv, StageInv,
           WorkerInv, SeenInv, UniqueInv, AdmittedInv, ActingIsOnRecord,
           CancelledNeverActs, VerifiedRan, Pending, EngineOpen, PreRecord,
           Steps, IsFlush, WorkerLive, Acting, Blocked, machine, Admit, Goto
  <2> QED
    BY <2>1, <2>2 DEF IInv
<1>3. ASSUME NEW h \in Hosts, Confirm(h)
     PROVE  IInv'
  <2>1. /\ pc' = [pc EXCEPT ![h] = pc'[h]]
        /\ pc'[h] \in {"validated", "approved"}
    BY <1>3 DEF IInv, TypeOK, Confirm, Goto
  <2>2. TypeOK'
    BY <1>3 DEF IInv, TypeOK, Steps, machine, Confirm, Goto
  <2>3. /\ LockInv' /\ CallInv' /\ UnplannedInv' /\ FreshInv' /\ StageInv'
        /\ WorkerInv' /\ SeenInv' /\ UniqueInv' /\ AdmittedInv'
        /\ ActingIsOnRecord' /\ CancelledNeverActs' /\ VerifiedRan'
    BY <1>3
       DEF IInv, LockInv, CallInv, UnplannedInv, FreshInv, StageInv,
           WorkerInv, SeenInv, UniqueInv, AdmittedInv, ActingIsOnRecord,
           CancelledNeverActs, VerifiedRan, Pending, EngineOpen, PreRecord,
           Steps, IsFlush, WorkerLive, Acting, Blocked, machine, Confirm,
           Goto
  <2> QED
    BY <2>2, <2>3 DEF IInv
<1>4. ASSUME NEW h \in Hosts, Revalidate(h)
     PROVE  IInv'
  <2>1. TypeOK'
    BY <1>4 DEF IInv, TypeOK, Steps, machine, Revalidate, Goto
  <2>2. /\ LockInv' /\ CallInv' /\ UnplannedInv' /\ FreshInv' /\ StageInv'
        /\ WorkerInv' /\ SeenInv' /\ UniqueInv' /\ AdmittedInv'
        /\ ActingIsOnRecord' /\ CancelledNeverActs' /\ VerifiedRan'
    BY <1>4
       DEF IInv, LockInv, CallInv, UnplannedInv, FreshInv, StageInv,
           WorkerInv, SeenInv, UniqueInv, AdmittedInv, ActingIsOnRecord,
           CancelledNeverActs, VerifiedRan, Pending, EngineOpen, PreRecord,
           Steps, IsFlush, WorkerLive, Acting, Blocked, machine, Revalidate,
           Goto
  <2> QED
    BY <2>1, <2>2 DEF IInv
<1>5. ASSUME NEW h \in Hosts, NEW seen \in 0 .. MaxBoot,
            SaveDispatching(h, seen)
     PROVE  IInv'
  <2>1. [NoReceipt EXCEPT !.life = "dispatching", !.boot = seen] \in Receipts
    BY <1>5, NewRow
  <2>2. /\ rows' \in [Ops -> Receipts]
        /\ rows'[call[h]].life = "dispatching"
        /\ \A op \in Ops : op # call[h] => rows'[op] = rows[op]
    BY <1>5, RowTyped, <2>1
       DEF IInv, TypeOK, CallInv, Receipts, Lives, EngineOpen,
           SaveDispatching, NoReceipt
  <2>3. TypeOK'
    BY <1>5, <2>2 DEF IInv, TypeOK, Steps, SaveDispatching, Goto
  <2>4. FreshInv'
    BY <1>5 DEF IInv, TypeOK, FreshInv, PreRecord, SaveDispatching, Goto
  <2>5. StageInv'
    BY <1>5, <2>2
       DEF IInv, FreshInv, StageInv, PreRecord, IsFlush, SaveDispatching,
           Goto
  <2>6. UniqueInv'
    BY <1>5 DEF IInv, UniqueInv, AdmittedInv, Blocked, SaveDispatching
  <2>7. AdmittedInv'
    BY <1>5
       DEF IInv, TypeOK, LockInv, AdmittedInv, EngineOpen, SaveDispatching,
           Goto
  <2>8. /\ LockInv' /\ CallInv' /\ UnplannedInv' /\ WorkerInv' /\ SeenInv'
        /\ ActingIsOnRecord' /\ CancelledNeverActs' /\ VerifiedRan'
    BY <1>5
       DEF IInv, LockInv, CallInv, UnplannedInv, WorkerInv, SeenInv,
           ActingIsOnRecord, CancelledNeverActs, VerifiedRan, Pending,
           EngineOpen, Steps, IsFlush, WorkerLive, Acting, machine,
           SaveDispatching, Goto
  <2> QED
    BY <2>3, <2>4, <2>5, <2>6, <2>7, <2>8 DEF IInv
<1>6. ASSUME NEW h \in Hosts, GiveUp(h)
     PROVE  IInv'
  <2>1. TypeOK'
    BY <1>6 DEF IInv, TypeOK, Steps, Lives, machine, GiveUp, Return, Goto
  <2>2. /\ LockInv' /\ CallInv'
    BY <1>6, NoHostAssumption, NoOpAssumption
       DEF IInv, TypeOK, LockInv, CallInv, EngineOpen, Steps, GiveUp, Return,
           Goto
  <2>3. /\ UnplannedInv' /\ FreshInv'
    BY <1>6, NoOpAssumption
       DEF IInv, TypeOK, CallInv, UnplannedInv, FreshInv, PreRecord, GiveUp,
           Return, Goto
  <2>4. /\ UniqueInv' /\ AdmittedInv'
    BY <1>6
       DEF IInv, TypeOK, UniqueInv, AdmittedInv, Pending, Blocked, GiveUp,
           Return, Goto
  <2>5. /\ StageInv' /\ WorkerInv' /\ SeenInv' /\ ActingIsOnRecord'
        /\ CancelledNeverActs' /\ VerifiedRan'
    BY <1>6
       DEF IInv, StageInv, WorkerInv, SeenInv, ActingIsOnRecord,
           CancelledNeverActs, VerifiedRan, IsFlush, WorkerLive, Acting,
           machine, GiveUp, Return, Goto
  <2> QED
    BY <2>1, <2>2, <2>3, <2>4, <2>5 DEF IInv
<1>7. ASSUME NEW h \in Hosts, NEW saved \in BOOLEAN, CancelRecorded(h, saved)
     PROVE  IInv'
  <2>1. [rows[call[h]] EXCEPT !.life = "cancelled_before_dispatch"] \in Receipts
    BY <1>7, RowSet DEF IInv, TypeOK, CallInv, Lives, CancelRecorded
  <2>2. /\ rows' \in [Ops -> Receipts]
        /\ rows'[call[h]].life \in {rows[call[h]].life, "cancelled_before_dispatch"}
        /\ \A op \in Ops : op # call[h] => rows'[op] = rows[op]
    BY <1>7, RowTyped, <2>1
       DEF IInv, TypeOK, CallInv, Receipts, Lives, EngineOpen, CancelRecorded
  <2>3. TypeOK'
    BY <1>7, <2>2
       DEF IInv, TypeOK, Steps, Lives, machine, CancelRecorded, Return, Goto
  <2>4. /\ LockInv' /\ CallInv'
    BY <1>7, NoHostAssumption, NoOpAssumption
       DEF IInv, TypeOK, LockInv, CallInv, EngineOpen, Steps, CancelRecorded,
           Return, Goto
  <2>5. /\ UnplannedInv' /\ FreshInv'
    BY <1>7, NoOpAssumption
       DEF IInv, CallInv, UnplannedInv, FreshInv, PreRecord, CancelRecorded,
           Return, Goto
  <2>6. StageInv'
    BY <1>7
       DEF IInv, TypeOK, LockInv, StageInv, EngineOpen, CancelRecorded,
           Return, Goto
  <2>7. /\ ActingIsOnRecord' /\ CancelledNeverActs' /\ VerifiedRan'
    BY <1>7
       DEF IInv, StageInv, ActingIsOnRecord, CancelledNeverActs, VerifiedRan,
           Acting, machine, CancelRecorded
  <2>8. /\ WorkerInv' /\ SeenInv' /\ UniqueInv' /\ AdmittedInv'
    BY <1>7
       DEF IInv, WorkerInv, SeenInv, UniqueInv, AdmittedInv, Pending,
           IsFlush, WorkerLive, Blocked, machine, CancelRecorded, Return,
           Goto
  <2> QED
    BY <2>3, <2>4, <2>5, <2>6, <2>7, <2>8 DEF IInv
<1>8. ASSUME NEW h \in Hosts, Spawn(h)
     PROVE  IInv'
  <2>1. TypeOK'
    BY <1>8 DEF IInv, TypeOK, CallInv, Steps, WorkerLive, machine, Spawn, Goto
  <2>2. StageInv'
    BY <1>8
       DEF IInv, TypeOK, LockInv, StageInv, EngineOpen, IsFlush, Spawn, Goto
  <2>3. /\ WorkerInv' /\ SeenInv'
    BY <1>8
       DEF IInv, TypeOK, StageInv, WorkerInv, SeenInv, IsFlush, machine,
           Spawn, Goto
  <2>4. /\ ActingIsOnRecord' /\ CancelledNeverActs' /\ VerifiedRan'
    BY <1>8
       DEF IInv, StageInv, ActingIsOnRecord, CancelledNeverActs, VerifiedRan,
           Pending, Acting, machine, Spawn
  <2>5. /\ LockInv' /\ CallInv' /\ UnplannedInv' /\ FreshInv' /\ UniqueInv'
        /\ AdmittedInv'
    BY <1>8
       DEF IInv, LockInv, CallInv, UnplannedInv, FreshInv, UniqueInv,
           AdmittedInv, Pending, EngineOpen, PreRecord, Steps, Blocked,
           Spawn, Goto
  <2> QED
    BY <2>1, <2>2, <2>3, <2>4, <2>5 DEF IInv
<1>9. ASSUME NEW h \in Hosts, CallFlush(h)
     PROVE  IInv'
  <2>1. TypeOK'
    BY <1>9 DEF IInv, TypeOK, CallInv, Steps, machine, CallFlush, Goto
  <2>2. StageInv'
    BY <1>9
       DEF IInv, TypeOK, LockInv, CallInv, StageInv, EngineOpen, CallFlush, Goto
  <2>3. /\ WorkerInv' /\ SeenInv'
    BY <1>9
       DEF IInv, TypeOK, WorkerInv, SeenInv, IsFlush, WorkerLive, machine,
           CallFlush, Goto
  <2>4. /\ ActingIsOnRecord' /\ CancelledNeverActs' /\ VerifiedRan'
    BY <1>9
       DEF IInv, StageInv, ActingIsOnRecord, CancelledNeverActs, VerifiedRan,
           Pending, Acting, machine, CallFlush
  <2>5. /\ LockInv' /\ CallInv' /\ UnplannedInv' /\ FreshInv' /\ UniqueInv'
        /\ AdmittedInv'
    BY <1>9
       DEF IInv, LockInv, CallInv, UnplannedInv, FreshInv, UniqueInv,
           AdmittedInv, Pending, EngineOpen, PreRecord, Steps, Blocked,
           CallFlush, Goto
  <2> QED
    BY <2>1, <2>2, <2>3, <2>4, <2>5 DEF IInv
<1>10. ASSUME NEW h \in Hosts, DispatchFails(h)
     PROVE  IInv'
  <2>1. TypeOK'
    BY <1>10
       DEF IInv, TypeOK, Steps, Lives, machine, DispatchFails, Conclude, Goto
  <2>2. StageInv'
    BY <1>10
       DEF IInv, TypeOK, StageInv, IsFlush, DispatchFails, Conclude, Goto
  <2>3. /\ LockInv' /\ CallInv' /\ UnplannedInv' /\ FreshInv' /\ WorkerInv'
        /\ SeenInv' /\ UniqueInv' /\ AdmittedInv' /\ ActingIsOnRecord'
        /\ CancelledNeverActs' /\ VerifiedRan'
    BY <1>10
       DEF IInv, LockInv, CallInv, UnplannedInv, FreshInv, WorkerInv,
           SeenInv, UniqueInv, AdmittedInv, ActingIsOnRecord,
           CancelledNeverActs, VerifiedRan, Pending, EngineOpen, PreRecord,
           Steps, IsFlush, WorkerLive, Acting, Blocked, machine,
           DispatchFails, Conclude, Goto
  <2> QED
    BY <2>1, <2>2, <2>3 DEF IInv
<1>11. ASSUME NEW h \in Hosts, NEW ok \in BOOLEAN, FlushReturns(h, ok)
     PROVE  IInv'
  <2>1. TypeOK'
    BY <1>11
       DEF IInv, TypeOK, CallInv, Steps, Lives, NativeDone, machine,
           FlushReturns, Conclude, Goto
  <2>2. StageInv'
    BY <1>11
       DEF IInv, TypeOK, LockInv, CallInv, StageInv, EngineOpen,
           FlushReturns, Conclude, Goto
  <2>3. /\ WorkerInv' /\ SeenInv'
    BY <1>11
       DEF IInv, TypeOK, WorkerInv, SeenInv, IsFlush, machine, FlushReturns,
           Conclude, Goto
  <2>4. /\ ActingIsOnRecord' /\ CancelledNeverActs' /\ VerifiedRan'
    BY <1>11
       DEF IInv, StageInv, ActingIsOnRecord, CancelledNeverActs, VerifiedRan,
           Acting, machine, FlushReturns
  <2>5. /\ LockInv' /\ CallInv' /\ UnplannedInv' /\ FreshInv' /\ UniqueInv'
        /\ AdmittedInv'
    BY <1>11
       DEF IInv, LockInv, CallInv, UnplannedInv, FreshInv, UniqueInv,
           AdmittedInv, Pending, EngineOpen, PreRecord, Steps, Blocked,
           FlushReturns, Conclude, Goto
  <2> QED
    BY <2>1, <2>2, <2>3, <2>4, <2>5 DEF IInv
<1>12. ASSUME NEW h \in Hosts, Receive(h)
     PROVE  IInv'
  <2>1. TypeOK'
    BY <1>12
       DEF IInv, TypeOK, CallInv, Steps, Lives, machine, Receive, Conclude,
           Goto
  <2>2. /\ LockInv' /\ CallInv'
    BY <1>12
       DEF IInv, TypeOK, LockInv, CallInv, EngineOpen, Steps, Receive,
           Conclude, Goto
  <2>3. /\ UnplannedInv' /\ FreshInv'
    BY <1>12
       DEF IInv, TypeOK, UnplannedInv, FreshInv, PreRecord, Receive,
           Conclude, Goto
  <2>4. StageInv'
    BY <1>12
       DEF IInv, TypeOK, CallInv, StageInv, IsFlush, Receive, Conclude, Goto
  <2>5. /\ WorkerInv' /\ SeenInv'
    BY <1>12
       DEF IInv, TypeOK, FreshInv, StageInv, WorkerInv, SeenInv, IsFlush,
           machine, Receive, Conclude, Goto
  <2>6. /\ UniqueInv' /\ AdmittedInv'
    BY <1>12
       DEF IInv, TypeOK, UniqueInv, AdmittedInv, Pending, Blocked, Receive,
           Conclude, Goto
  <2>7. /\ ActingIsOnRecord' /\ CancelledNeverActs' /\ VerifiedRan'
    BY <1>12
       DEF IInv, ActingIsOnRecord, CancelledNeverActs, VerifiedRan, Acting,
           machine, Receive
  <2> QED
    BY <2>1, <2>2, <2>3, <2>4, <2>5, <2>6, <2>7 DEF IInv
<1>13. ASSUME NEW h \in Hosts, ReceiveError(h)
     PROVE  IInv'
  <2>1. TypeOK'
    BY <1>13
       DEF IInv, TypeOK, CallInv, Steps, Lives, machine, ReceiveError,
           Conclude, Goto
  <2>2. StageInv'
    BY <1>13
       DEF IInv, TypeOK, CallInv, StageInv, IsFlush, ReceiveError, Conclude,
           Goto
  <2>3. /\ WorkerInv' /\ SeenInv'
    BY <1>13
       DEF IInv, StageInv, WorkerInv, SeenInv, IsFlush, machine,
           ReceiveError, Conclude, Goto
  <2>4. /\ LockInv' /\ CallInv' /\ UnplannedInv' /\ FreshInv' /\ UniqueInv'
        /\ AdmittedInv' /\ ActingIsOnRecord' /\ CancelledNeverActs'
        /\ VerifiedRan'
    BY <1>13
       DEF IInv, LockInv, CallInv, UnplannedInv, FreshInv, UniqueInv,
           AdmittedInv, ActingIsOnRecord, CancelledNeverActs, VerifiedRan,
           Pending, EngineOpen, PreRecord, Steps, Acting, Blocked, machine,
           ReceiveError, Conclude, Goto
  <2> QED
    BY <2>1, <2>2, <2>3, <2>4 DEF IInv
<1>14. ASSUME NEW h \in Hosts, Kill(h)
     PROVE  IInv'
  <2>1. TypeOK'
    BY <1>14
       DEF IInv, TypeOK, CallInv, Steps, Lives, machine, Kill, Conclude, Goto
  <2>2. StageInv'
    BY <1>14
       DEF IInv, TypeOK, LockInv, CallInv, StageInv, EngineOpen, Kill,
           Conclude, Goto
  <2>3. /\ WorkerInv' /\ SeenInv'
    BY <1>14
       DEF IInv, TypeOK, FreshInv, StageInv, WorkerInv, SeenInv, IsFlush,
           machine, Kill, Conclude, Goto
  <2>4. /\ ActingIsOnRecord' /\ CancelledNeverActs' /\ VerifiedRan'
    BY <1>14
       DEF IInv, StageInv, ActingIsOnRecord, CancelledNeverActs, VerifiedRan,
           Acting, machine, Kill
  <2>5. /\ LockInv' /\ CallInv' /\ UnplannedInv' /\ FreshInv' /\ UniqueInv'
        /\ AdmittedInv'
    BY <1>14
       DEF IInv, LockInv, CallInv, UnplannedInv, FreshInv, UniqueInv,
           AdmittedInv, Pending, EngineOpen, PreRecord, Steps, Blocked, Kill,
           Conclude, Goto
  <2> QED
    BY <2>1, <2>2, <2>3, <2>4, <2>5 DEF IInv
<1>15. ASSUME NEW h \in Hosts, NEW readable \in BOOLEAN,
            PostCheck(h, readable)
     PROVE  IInv'
  <2>1. TypeOK'
    BY <1>15
       DEF IInv, TypeOK, Steps, Lives, machine, PostCheck, Conclude, Goto
  <2>2. StageInv'
    BY <1>15 DEF IInv, TypeOK, StageInv, IsFlush, PostCheck, Conclude, Goto
  <2>3. /\ LockInv' /\ CallInv' /\ UnplannedInv' /\ FreshInv' /\ WorkerInv'
        /\ SeenInv' /\ UniqueInv' /\ AdmittedInv' /\ ActingIsOnRecord'
        /\ CancelledNeverActs' /\ VerifiedRan'
    BY <1>15
       DEF IInv, LockInv, CallInv, UnplannedInv, FreshInv, WorkerInv,
           SeenInv, UniqueInv, AdmittedInv, ActingIsOnRecord,
           CancelledNeverActs, VerifiedRan, Pending, EngineOpen, PreRecord,
           Steps, IsFlush, WorkerLive, Acting, Blocked, machine, PostCheck,
           Conclude, Goto
  <2> QED
    BY <2>1, <2>2, <2>3 DEF IInv
<1>16. ASSUME NEW h \in Hosts, NEW saved \in BOOLEAN, Finish(h, saved)
     PROVE  IInv'
  <2>1. [rows[call[h]] EXCEPT !.life = result[h], !.reboot = result[h] = "awaiting_reboot"]
         \in Receipts
    BY <1>16, RowSet DEF IInv, TypeOK, CallInv, Finish
  <2>2. /\ rows' \in [Ops -> Receipts]
        /\ rows'[call[h]].life \in {rows[call[h]].life, result[h]}
        /\ \A op \in Ops : op # call[h] => rows'[op] = rows[op]
    BY <1>16, RowTyped, <2>1
       DEF IInv, TypeOK, CallInv, Receipts, Lives, EngineOpen, Finish
  <2>3. TypeOK'
    BY <1>16, <2>2
       DEF IInv, TypeOK, Steps, Lives, machine, Finish, Return, Goto
  <2>4. /\ LockInv' /\ CallInv'
    BY <1>16, NoHostAssumption, NoOpAssumption
       DEF IInv, TypeOK, LockInv, CallInv, EngineOpen, Steps, Finish, Return,
           Goto
  <2>5. /\ UnplannedInv' /\ FreshInv'
    BY <1>16, NoOpAssumption
       DEF IInv, TypeOK, CallInv, UnplannedInv, FreshInv, PreRecord, Finish,
           Return, Goto
  <2>6. StageInv'
    BY <1>16
       DEF IInv, TypeOK, LockInv, StageInv, EngineOpen, Finish, Return, Goto
  <2>7. /\ UniqueInv' /\ AdmittedInv'
    BY <1>16
       DEF IInv, TypeOK, StageInv, UniqueInv, AdmittedInv, Pending, Blocked,
           Finish, Return, Goto
  <2>8. /\ ActingIsOnRecord' /\ CancelledNeverActs' /\ VerifiedRan'
    BY <1>16
       DEF IInv, TypeOK, StageInv, ActingIsOnRecord, CancelledNeverActs,
           VerifiedRan, Pending, Acting, machine, Finish, Return
  <2>9. /\ WorkerInv' /\ SeenInv'
    BY <1>16
       DEF IInv, WorkerInv, SeenInv, IsFlush, WorkerLive, machine, Finish,
           Return, Goto
  <2> QED
    BY <2>3, <2>4, <2>5, <2>6, <2>7, <2>8, <2>9 DEF IInv
<1>17. ASSUME NEW h \in Hosts, Recover(h)
     PROVE  IInv'
  <2>1. TypeOK'
    BY <1>17 DEF IInv, TypeOK, Steps, machine, Recover, Goto, QueueIdle
  <2>2. /\ WorkerInv' /\ SeenInv'
    BY <1>17
       DEF IInv, TypeOK, CallInv, WorkerInv, SeenInv, IsFlush, machine,
           Recover, Goto, QueueIdle
  <2>3. /\ LockInv' /\ CallInv' /\ UnplannedInv' /\ FreshInv' /\ StageInv'
        /\ UniqueInv' /\ AdmittedInv' /\ ActingIsOnRecord'
        /\ CancelledNeverActs' /\ VerifiedRan'
    BY <1>17
       DEF IInv, LockInv, CallInv, UnplannedInv, FreshInv, StageInv,
           UniqueInv, AdmittedInv, ActingIsOnRecord, CancelledNeverActs,
           VerifiedRan, Pending, EngineOpen, PreRecord, Steps, IsFlush,
           Acting, Blocked, machine, Recover, Goto, QueueIdle
  <2> QED
    BY <2>1, <2>2, <2>3 DEF IInv
<1>18. ASSUME NEW h \in Hosts, RecoverFails(h)
     PROVE  IInv'
  <2>1. TypeOK'
    BY <1>18
       DEF IInv, TypeOK, Steps, Lives, machine, RecoverFails, Return, Goto
  <2>2. /\ LockInv' /\ CallInv'
    BY <1>18, NoHostAssumption, NoOpAssumption
       DEF IInv, TypeOK, LockInv, CallInv, EngineOpen, Steps, RecoverFails,
           Return, Goto
  <2>3. /\ UnplannedInv' /\ FreshInv'
    BY <1>18, NoOpAssumption
       DEF IInv, CallInv, UnplannedInv, FreshInv, PreRecord, RecoverFails,
           Return, Goto
  <2>4. /\ WorkerInv' /\ SeenInv'
    BY <1>18
       DEF IInv, TypeOK, WorkerInv, SeenInv, IsFlush, machine, RecoverFails,
           Return, Goto
  <2>5. /\ StageInv' /\ UniqueInv' /\ AdmittedInv' /\ ActingIsOnRecord'
        /\ CancelledNeverActs' /\ VerifiedRan'
    BY <1>18
       DEF IInv, StageInv, UniqueInv, AdmittedInv, ActingIsOnRecord,
           CancelledNeverActs, VerifiedRan, Pending, IsFlush, Acting,
           Blocked, machine, RecoverFails, Return, Goto
  <2> QED
    BY <2>1, <2>2, <2>3, <2>4, <2>5 DEF IInv
<1>19. ASSUME NEW h \in Hosts, NEW now \in 0 .. MaxBoot, NEW saved \in BOOLEAN,
            Reconcile(h, now, saved)
     PROVE  IInv'
  <2>1. /\ Checked(rows[call[h]], idle[h], now) \in Receipts
        /\ \/ Checked(rows[call[h]], idle[h], now).life = rows[call[h]].life
           \/ /\ idle[h]
              /\ Checked(rows[call[h]], idle[h], now).life = "checked_unknown"
    BY <1>19, CheckedRow DEF IInv, TypeOK, CallInv, Reconcile
  <2>2. /\ rows' \in [Ops -> Receipts]
        /\ \/ rows'[call[h]].life = rows[call[h]].life
           \/ /\ idle[h] /\ rows[call[h]].life \in Pending
              /\ rows'[call[h]].life = "checked_unknown"
        /\ \A op \in Ops : op # call[h] => rows'[op] = rows[op]
    BY <1>19, RowTyped, <2>1 DEF IInv, TypeOK, CallInv, Reconcile
  <2>3. TypeOK'
    BY <1>19, <2>2
       DEF IInv, TypeOK, Steps, Lives, machine, Reconcile, Return, Goto
  <2>4. /\ LockInv' /\ CallInv'
    BY <1>19, NoHostAssumption, NoOpAssumption
       DEF IInv, TypeOK, LockInv, CallInv, EngineOpen, Steps, Reconcile,
           Return, Goto
  <2>5. /\ UnplannedInv' /\ FreshInv'
    BY <1>19, NoOpAssumption
       DEF IInv, CallInv, UnplannedInv, FreshInv, PreRecord, Reconcile,
           Return, Goto
  <2>6. StageInv'
    BY <1>19
       DEF IInv, LockInv, StageInv, EngineOpen, Steps, Reconcile, Return,
           Goto
  <2>7. /\ WorkerInv' /\ SeenInv'
    BY <1>19
       DEF IInv, TypeOK, WorkerInv, SeenInv, IsFlush, machine, Reconcile,
           Return, Goto
  <2>8. /\ ActingIsOnRecord' /\ CancelledNeverActs' /\ VerifiedRan'
    BY <1>19, NoHostAssumption, NoOpAssumption, <2>2
       DEF IInv, TypeOK, LockInv, CallInv, UnplannedInv, FreshInv, StageInv,
           WorkerInv, SeenInv, UniqueInv, AdmittedInv, ActingIsOnRecord,
           CancelledNeverActs, VerifiedRan, Pending, EngineOpen, PreRecord,
           Steps, IsFlush, WorkerLive, Acting, Blocked, Plans, Receipts,
           machine, NativeDone, Reconcile, Return, Goto
  <2>9. /\ UniqueInv' /\ AdmittedInv'
    BY <1>19
       DEF IInv, UniqueInv, AdmittedInv, Pending, Blocked, Reconcile, Return,
           Goto
  <2> QED
    BY <2>3, <2>4, <2>5, <2>6, <2>7, <2>8, <2>9 DEF IInv
<1>20. ASSUME NEW h \in Hosts, NEW saved \in BOOLEAN, ReconcileFlush(h, saved)
     PROVE  IInv'
  <2>1. [rows[call[h]] EXCEPT !.life = "checked_unknown"] \in Receipts
    BY <1>20, RowSet DEF IInv, TypeOK, CallInv, Lives, ReconcileFlush
  <2>2. /\ rows' \in [Ops -> Receipts]
        /\ \/ rows'[call[h]].life = rows[call[h]].life
           \/ /\ rows[call[h]].life \in Pending
              /\ rows'[call[h]].life = "checked_unknown"
        /\ \A op \in Ops : op # call[h] => rows'[op] = rows[op]
    BY <1>20, RowTyped, <2>1
       DEF IInv, TypeOK, CallInv, Receipts, Lives, EngineOpen, ReconcileFlush
  <2>3. TypeOK'
    BY <1>20, <2>2
       DEF IInv, TypeOK, Steps, Lives, machine, ReconcileFlush, Return, Goto
  <2>4. /\ LockInv' /\ CallInv'
    BY <1>20, NoHostAssumption, NoOpAssumption
       DEF IInv, TypeOK, LockInv, CallInv, EngineOpen, Steps, ReconcileFlush,
           Return, Goto
  <2>5. UnplannedInv'
    BY <1>20, NoOpAssumption DEF IInv, UnplannedInv, ReconcileFlush, Return
  <2>6. FreshInv'
    BY <1>20, NoOpAssumption
       DEF IInv, CallInv, FreshInv, PreRecord, ReconcileFlush, Return, Goto
  <2>7. StageInv'
    BY <1>20
       DEF IInv, LockInv, StageInv, EngineOpen, Steps, ReconcileFlush,
           Return, Goto
  <2>8. /\ WorkerInv' /\ SeenInv'
    BY <1>20
       DEF IInv, TypeOK, WorkerInv, SeenInv, IsFlush, machine,
           ReconcileFlush, Return, Goto
  <2>9. ActingIsOnRecord'
    BY <1>20
       DEF IInv, TypeOK, LockInv, WorkerInv, ActingIsOnRecord, EngineOpen,
           PreRecord, WorkerLive, Acting, machine, ReconcileFlush
  <2>10. /\ UniqueInv' /\ AdmittedInv' /\ CancelledNeverActs'
         /\ VerifiedRan'
    BY <1>20
       DEF IInv, UniqueInv, AdmittedInv, CancelledNeverActs, VerifiedRan,
           Pending, Blocked, ReconcileFlush, Return, Goto
  <2> QED
    BY <2>3, <2>4, <2>5, <2>6, <2>7, <2>8, <2>9, <2>10 DEF IInv
<1> QED
  BY <1>1, <1>2, <1>3, <1>4, <1>5, <1>6, <1>7, <1>8, <1>9, <1>10, <1>11, <1>12, <1>13, <1>14, <1>15, <1>16, <1>17, <1>18, <1>19, <1>20
     DEF Call

\* Nor does the start of a call: a prepared plan, or a receipt to be checked.
LEMMA RequestKeeps ==
    ASSUME IInv,
           NEW host \in Hosts, NEW which \in Ops, Request(host, which)
    PROVE  IInv'
<1>1. ASSUME NEW h \in Hosts, NEW op \in Ops, NEW k \in Kinds, NEW p \in Packages, NEW v \in Versions,
            Prepare(h, op, k, p, v)
     PROVE  IInv'
  <2>1. TypeOK'
    BY <1>1 DEF IInv, TypeOK, Steps, Plans, Versions, machine, Prepare, Goto
  <2>2. /\ LockInv' /\ CallInv'
    BY <1>1
       DEF IInv, TypeOK, LockInv, CallInv, EngineOpen, Steps, Prepare, Goto
  <2>3. /\ UnplannedInv' /\ FreshInv'
    BY <1>1 DEF IInv, TypeOK, UnplannedInv, FreshInv, PreRecord, Prepare, Goto
  <2>4. /\ UniqueInv' /\ AdmittedInv'
    BY <1>1
       DEF IInv, UnplannedInv, UniqueInv, AdmittedInv, Pending, Blocked,
           Prepare, Goto
  <2>5. /\ StageInv' /\ WorkerInv' /\ SeenInv' /\ ActingIsOnRecord'
        /\ CancelledNeverActs' /\ VerifiedRan'
    BY <1>1
       DEF IInv, StageInv, WorkerInv, SeenInv, ActingIsOnRecord,
           CancelledNeverActs, VerifiedRan, Pending, IsFlush, WorkerLive,
           Acting, machine, Prepare, Goto
  <2> QED
    BY <2>1, <2>2, <2>3, <2>4, <2>5 DEF IInv
<1>2. ASSUME NEW h \in Hosts, NEW op \in Ops, PrepareFlush(h, op)
     PROVE  IInv'
  <2>1. TypeOK'
    BY <1>2, MaxVersionAssumption
       DEF IInv, TypeOK, Steps, WorkerLive, Plans, Kinds, machine,
           PrepareFlush, Goto, NoPlan
  <2>2. /\ LockInv' /\ CallInv'
    BY <1>2
       DEF IInv, TypeOK, LockInv, CallInv, EngineOpen, Steps, PrepareFlush,
           Goto, NoPlan
  <2>3. /\ UnplannedInv' /\ FreshInv'
    BY <1>2
       DEF IInv, TypeOK, UnplannedInv, FreshInv, PreRecord, PrepareFlush,
           Goto, NoPlan
  <2>4. StageInv'
    BY <1>2 DEF IInv, UnplannedInv, StageInv, IsFlush, PrepareFlush, Goto
  <2>5. /\ WorkerInv' /\ SeenInv'
    BY <1>2
       DEF IInv, UnplannedInv, WorkerInv, SeenInv, IsFlush, WorkerLive,
           machine, PrepareFlush, Goto, NoPlan
  <2>6. /\ UniqueInv' /\ AdmittedInv'
    BY <1>2
       DEF IInv, UnplannedInv, UniqueInv, AdmittedInv, Pending, Blocked,
           PrepareFlush, Goto
  <2>7. /\ ActingIsOnRecord' /\ CancelledNeverActs' /\ VerifiedRan'
    BY <1>2
       DEF IInv, ActingIsOnRecord, CancelledNeverActs, VerifiedRan, Acting,
           machine, PrepareFlush
  <2> QED
    BY <2>1, <2>2, <2>3, <2>4, <2>5, <2>6, <2>7 DEF IInv
<1>3. ASSUME NEW h \in Hosts, NEW op \in Ops, StartReconcile(h, op)
     PROVE  IInv'
  <2>1. TypeOK
    BY <1>3 DEF IInv
  <2>2. /\ rows' \in [Ops -> Receipts]
        /\ \A o \in Ops :
             /\ rows[o].life \in Pending => rows'[o].life \in Pending \ {"none"}
             /\ rows[o].life \notin Pending
                  => rows'[o].life \in {"none", rows[o].life}
    BY <1>3, OpenedKeeps, <2>1 DEF StartReconcile
  <2>3. TypeOK'
    BY <1>3, <2>2 DEF IInv, TypeOK, Steps, machine, StartReconcile, Goto
  <2>4. /\ LockInv' /\ CallInv'
    BY <1>3, NoHostAssumption, NoOpAssumption
       DEF IInv, TypeOK, LockInv, CallInv, EngineOpen, Steps, StartReconcile,
           Goto
  <2>5. UnplannedInv'
    BY <1>3, NoHostAssumption, NoOpAssumption, <2>2
       DEF IInv, UnplannedInv, CallInv, Pending, StartReconcile, Goto, TypeOK
  <2>6. FreshInv'
    BY <1>3, <2>2
       DEF IInv, FreshInv, CallInv, Pending, PreRecord, StartReconcile, Goto
  <2>7. StageInv'
    BY <1>3, NoHostAssumption
       DEF IInv, LockInv, StageInv, EngineOpen, Steps, StartReconcile, Goto
  <2>8. /\ WorkerInv' /\ SeenInv'
    BY <1>3
       DEF IInv, TypeOK, WorkerInv, SeenInv, IsFlush, WorkerLive, machine,
           StartReconcile, Goto
  <2>9. UniqueInv'
    BY <1>3, <2>2 DEF IInv, UniqueInv, Pending, StartReconcile, Goto
  <2>10. AdmittedInv'
    BY <1>3, <2>2
       DEF IInv, AdmittedInv, Pending, Blocked, StartReconcile, Goto
  <2>11. ActingIsOnRecord'
    BY <1>3, <2>2
       DEF IInv, ActingIsOnRecord, Pending, Acting, machine, StartReconcile,
           Goto
  <2>12. CancelledNeverActs'
    BY <1>3, NoHostAssumption, NoOpAssumption, <2>2
       DEF IInv, CancelledNeverActs, Pending, StartReconcile
  <2>13. VerifiedRan'
    BY <1>3, NoHostAssumption, NoOpAssumption, <2>2
       DEF IInv, VerifiedRan, Pending, StartReconcile
  <2> QED
    BY <2>3, <2>4, <2>5, <2>6, <2>7, <2>8, <2>9, <2>10, <2>11, <2>12, <2>13
       DEF IInv
<1> QED
  BY <1>1, <1>2, <1>3 DEF Request

\* Nor do the workers, the installers, other programs, time, a crash or a
\* restart.
LEMMA MachineKeeps ==
    ASSUME IInv,
           \/ \E o \in Ops : Machine(o)
           \/ \E p \in Packages, v \in 0 .. MaxVersion : ExternalChange(p, v)
           \/ \E g \in Hosts : Crash(g)
           \/ Reboot
    PROVE  IInv'
<1>1. ASSUME NEW op \in Ops, WorkerChecks(op)
     PROVE  IInv'
  <2>1. TypeOK'
    BY <1>1 DEF IInv, TypeOK, WorkerLive, machine, WorkerChecks
  <2>2. /\ LockInv' /\ CallInv' /\ UnplannedInv' /\ FreshInv' /\ StageInv'
        /\ WorkerInv' /\ SeenInv' /\ UniqueInv' /\ AdmittedInv'
        /\ ActingIsOnRecord' /\ CancelledNeverActs' /\ VerifiedRan'
    BY <1>1
       DEF IInv, LockInv, CallInv, UnplannedInv, FreshInv, StageInv,
           WorkerInv, SeenInv, UniqueInv, AdmittedInv, ActingIsOnRecord,
           CancelledNeverActs, VerifiedRan, Pending, EngineOpen, PreRecord,
           Steps, IsFlush, WorkerLive, Acting, Blocked, machine, WorkerChecks
  <2> QED
    BY <2>1, <2>2 DEF IInv
<1>2. ASSUME NEW op \in Ops, WorkerDispatches(op)
     PROVE  IInv'
  <2>1. \A h \in Hosts : pc[h] = "reconciling" /\ op \notin orphans => call[h] # op
    BY <1>2
       DEF IInv, WorkerInv, LockInv, EngineOpen, Steps, WorkerDispatches,
           TypeOK
  <2>2. TypeOK'
    BY <1>2 DEF IInv, TypeOK, WorkerLive, machine, WorkerDispatches
  <2>3. /\ WorkerInv' /\ SeenInv'
    BY <1>2, <2>1
       DEF IInv, TypeOK, WorkerInv, SeenInv, IsFlush, WorkerLive, machine,
           WorkerDispatches
  <2>4. /\ ActingIsOnRecord' /\ CancelledNeverActs' /\ VerifiedRan'
    BY <1>2
       DEF IInv, WorkerInv, ActingIsOnRecord, CancelledNeverActs,
           VerifiedRan, Acting, machine, WorkerDispatches
  <2>5. /\ LockInv' /\ CallInv' /\ UnplannedInv' /\ FreshInv' /\ StageInv'
        /\ UniqueInv' /\ AdmittedInv'
    BY <1>2
       DEF IInv, LockInv, CallInv, UnplannedInv, FreshInv, StageInv,
           UniqueInv, AdmittedInv, Pending, EngineOpen, PreRecord, Steps,
           IsFlush, Blocked, WorkerDispatches
  <2> QED
    BY <2>2, <2>3, <2>4, <2>5 DEF IInv
<1>3. ASSUME NEW op \in Ops, WorkerReplies(op)
     PROVE  IInv'
  <2>1. TypeOK'
    BY <1>3 DEF IInv, TypeOK, machine, WorkerReplies
  <2>2. /\ LockInv' /\ CallInv' /\ UnplannedInv' /\ FreshInv' /\ StageInv'
        /\ WorkerInv' /\ SeenInv' /\ UniqueInv' /\ AdmittedInv'
        /\ ActingIsOnRecord' /\ CancelledNeverActs' /\ VerifiedRan'
    BY <1>3
       DEF IInv, LockInv, CallInv, UnplannedInv, FreshInv, StageInv,
           WorkerInv, SeenInv, UniqueInv, AdmittedInv, ActingIsOnRecord,
           CancelledNeverActs, VerifiedRan, Pending, EngineOpen, PreRecord,
           Steps, IsFlush, WorkerLive, Acting, Blocked, machine,
           WorkerReplies
  <2> QED
    BY <2>1, <2>2 DEF IInv
<1>4. ASSUME NEW op \in Ops, WorkerFails(op)
     PROVE  IInv'
  <2>1. TypeOK'
    BY <1>4 DEF IInv, TypeOK, machine, WorkerFails
  <2>2. /\ LockInv' /\ CallInv' /\ UnplannedInv' /\ FreshInv' /\ StageInv'
        /\ WorkerInv' /\ SeenInv' /\ UniqueInv' /\ AdmittedInv'
        /\ ActingIsOnRecord' /\ CancelledNeverActs' /\ VerifiedRan'
    BY <1>4
       DEF IInv, LockInv, CallInv, UnplannedInv, FreshInv, StageInv,
           WorkerInv, SeenInv, UniqueInv, AdmittedInv, ActingIsOnRecord,
           CancelledNeverActs, VerifiedRan, Pending, EngineOpen, Steps,
           IsFlush, WorkerLive, Acting, Blocked, machine, WorkerFails
  <2> QED
    BY <2>1, <2>2 DEF IInv
<1>5. ASSUME NEW op \in Ops, NEW outcome \in NativeDone, NEW reached \in BOOLEAN,
            NativeEnds(op, outcome, reached)
     PROVE  IInv'
  <2>1. Wanted(plan[op]) \in 0 .. MaxVersion
    BY <1>5, MaxVersionAssumption DEF IInv, TypeOK, Wanted, Plans
  <2>2. installed' \in [Packages -> 0 .. MaxVersion]
    BY <1>5, <2>1 DEF IInv, TypeOK, NativeEnds
  <2>3. TypeOK'
    BY <1>5, <2>2 DEF IInv, TypeOK, NativeEnds
  <2>4. /\ LockInv' /\ CallInv' /\ UnplannedInv' /\ FreshInv' /\ StageInv'
        /\ WorkerInv' /\ SeenInv' /\ UniqueInv' /\ AdmittedInv'
        /\ ActingIsOnRecord' /\ CancelledNeverActs' /\ VerifiedRan'
    BY <1>5
       DEF IInv, LockInv, CallInv, UnplannedInv, FreshInv, StageInv,
           WorkerInv, SeenInv, UniqueInv, AdmittedInv, ActingIsOnRecord,
           CancelledNeverActs, VerifiedRan, Pending, EngineOpen, PreRecord,
           Steps, IsFlush, WorkerLive, Acting, Blocked, machine, NativeEnds,
           Wanted
  <2> QED
    BY <2>3, <2>4 DEF IInv
<1>6. ASSUME NEW p \in Packages, NEW v \in 0 .. MaxVersion,
            ExternalChange(p, v)
     PROVE  IInv'
  <2>1. TypeOK'
    BY <1>6 DEF IInv, TypeOK, ExternalChange
  <2>2. /\ LockInv' /\ CallInv' /\ UnplannedInv' /\ FreshInv' /\ StageInv'
        /\ WorkerInv' /\ SeenInv' /\ UniqueInv' /\ AdmittedInv'
        /\ ActingIsOnRecord' /\ CancelledNeverActs' /\ VerifiedRan'
    BY <1>6
       DEF IInv, LockInv, CallInv, UnplannedInv, FreshInv, StageInv,
           WorkerInv, SeenInv, UniqueInv, AdmittedInv, ActingIsOnRecord,
           CancelledNeverActs, VerifiedRan, Pending, EngineOpen, PreRecord,
           Steps, IsFlush, WorkerLive, Acting, Blocked, machine,
           ExternalChange
  <2> QED
    BY <2>1, <2>2 DEF IInv
<1>7. ASSUME NEW op \in Ops, Age(op)
     PROVE  IInv'
  <2>1. [rows[op] EXCEPT !.aged = TRUE] \in Receipts
    BY <1>7, RowSet DEF IInv, TypeOK, Lives
  <2>2. /\ rows' \in [Ops -> Receipts]
        /\ \A o \in Ops : rows'[o].life = rows[o].life
    BY <1>7, RowTyped, <2>1
       DEF IInv, TypeOK, CallInv, Receipts, Lives, EngineOpen, Age
  <2>3. TypeOK'
    BY <1>7, <2>2 DEF IInv, TypeOK, machine, Age
  <2>4. /\ LockInv' /\ CallInv' /\ UnplannedInv' /\ FreshInv' /\ StageInv'
        /\ WorkerInv' /\ SeenInv' /\ UniqueInv' /\ AdmittedInv'
        /\ ActingIsOnRecord' /\ CancelledNeverActs' /\ VerifiedRan'
    BY <1>7
       DEF IInv, LockInv, CallInv, UnplannedInv, FreshInv, StageInv,
           WorkerInv, SeenInv, UniqueInv, AdmittedInv, ActingIsOnRecord,
           CancelledNeverActs, VerifiedRan, Pending, EngineOpen, PreRecord,
           Steps, IsFlush, WorkerLive, Acting, Blocked, machine, Age
  <2> QED
    BY <2>3, <2>4 DEF IInv
<1>8. ASSUME NEW h \in Hosts, Crash(h)
     PROVE  IInv'
  <2>1. call[h] \in Ops
    BY <1>8 DEF IInv, CallInv, Crash
  <2>2. native' \in [Ops -> {"none", "running", "ended"} \cup NativeDone]
    BY <1>8, <2>1 DEF IInv, TypeOK, Crash, EndedFlush, NativeDone
  <2>3. TypeOK'
    BY <1>8, <2>1, MaxCrashesAssumption
       DEF IInv, TypeOK, Steps, Lives, Crash, Return, Goto, EndedFlush
  <2>4. /\ LockInv' /\ CallInv'
    BY <1>8, NoHostAssumption
       DEF IInv, TypeOK, LockInv, CallInv, EngineOpen, Crash, Return, Goto
  <2>5. /\ UnplannedInv' /\ FreshInv'
    BY <1>8, NoOpAssumption
       DEF IInv, TypeOK, CallInv, UnplannedInv, FreshInv, PreRecord, Crash,
           Return, Goto, EndedFlush
  <2>6. \A g \in Hosts : g # h /\ pc[g] = "awaiting" => call[g] # call[h]
    BY <1>8
       DEF IInv, TypeOK, LockInv, FreshInv, EngineOpen, PreRecord, Steps, Crash
  <2>7. StageInv'
    BY <1>8, <2>1, <2>6
       DEF IInv, TypeOK, CallInv, StageInv, IsFlush, Crash, Return, Goto,
           EndedFlush
  <2>8. /\ WorkerInv' /\ SeenInv'
    BY <1>8
       DEF IInv, TypeOK, LockInv, CallInv, WorkerInv, SeenInv, IsFlush,
           Crash, Return, Goto, EndedFlush
  <2>9. /\ UniqueInv' /\ AdmittedInv'
    BY <1>8
       DEF IInv, TypeOK, UniqueInv, AdmittedInv, Blocked, Crash, Return, Goto
  <2>10. /\ ActingIsOnRecord' /\ CancelledNeverActs' /\ VerifiedRan'
    BY <1>8
       DEF IInv, ActingIsOnRecord, CancelledNeverActs, VerifiedRan, Acting,
           Crash, EndedFlush
  <2> QED
    BY <2>3, <2>4, <2>5, <2>7, <2>8, <2>9, <2>10 DEF IInv
<1>9. ASSUME Reboot
     PROVE  IInv'
  <2>1. boot' \in 1 .. MaxBoot
    BY <1>9, MaxBootAssumption DEF IInv, TypeOK, Reboot
  <2>2. TypeOK'
    BY <1>9, <2>1 DEF IInv, TypeOK, Steps, Lives, Reboot
  <2>3. /\ LockInv' /\ CallInv'
    BY <1>9, NoHostAssumption, NoOpAssumption
       DEF IInv, TypeOK, LockInv, CallInv, EngineOpen, Steps, Reboot
  <2>4. /\ UnplannedInv' /\ FreshInv'
    BY <1>9, NoHostAssumption, NoOpAssumption
       DEF IInv, UnplannedInv, FreshInv, PreRecord, WorkerLive, Reboot
  <2>5. /\ StageInv' /\ WorkerInv' /\ SeenInv' /\ UniqueInv' /\ AdmittedInv'
        /\ ActingIsOnRecord' /\ CancelledNeverActs' /\ VerifiedRan'
    BY <1>9
       DEF IInv, StageInv, WorkerInv, SeenInv, UniqueInv, AdmittedInv,
           ActingIsOnRecord, CancelledNeverActs, VerifiedRan, Pending,
           IsFlush, WorkerLive, Acting, Blocked, machine, Reboot
  <2> QED
    BY <2>2, <2>3, <2>4, <2>5 DEF IInv
<1> QED
  BY <1>1, <1>2, <1>3, <1>4, <1>5, <1>6, <1>7, <1>8, <1>9 DEF Machine

\* The invariant is inductive.
LEMMA NextKeeps == IInv /\ [Next]_vars => IInv'
<1> SUFFICES ASSUME IInv, [Next]_vars PROVE IInv'
  OBVIOUS
<1>1. ASSUME NEW h \in Hosts, Call(h) PROVE IInv'
  BY <1>1, CallKeeps
<1>2. ASSUME NEW h \in Hosts, NEW op \in Ops, Request(h, op) PROVE IInv'
  BY <1>2, RequestKeeps
<1>3. ASSUME \/ \E op \in Ops : Machine(op)
             \/ \E p \in Packages, v \in 0 .. MaxVersion : ExternalChange(p, v)
             \/ \E h \in Hosts : Crash(h)
             \/ Reboot
      PROVE  IInv'
  BY <1>3, MachineKeeps
<1>4. CASE UNCHANGED vars
  <2>1. TypeOK'
    BY <1>4 DEF IInv, TypeOK, vars
  <2>2. /\ LockInv' /\ CallInv' /\ UnplannedInv' /\ FreshInv' /\ StageInv'
        /\ WorkerInv' /\ SeenInv' /\ UniqueInv' /\ AdmittedInv'
        /\ ActingIsOnRecord' /\ CancelledNeverActs' /\ VerifiedRan'
    BY <1>4
       DEF IInv, LockInv, CallInv, UnplannedInv, FreshInv, StageInv, WorkerInv,
           SeenInv, UniqueInv, AdmittedInv, ActingIsOnRecord, Pending,
           CancelledNeverActs, VerifiedRan, EngineOpen, PreRecord, Steps,
           IsFlush, WorkerLive, Acting, Blocked, machine, vars
  <2> QED
    BY <2>1, <2>2 DEF IInv
<1> QED
  BY <1>1, <1>2, <1>3, <1>4 DEF Next

LEMMA Invariance == Spec => []IInv
<1> QED
  BY InitInv, NextKeeps, PTL DEF Spec

-----------------------------------------------------------------------------
(* What follows from it. *)

\* Every variable keeps its type: among others, a call holds an operation that
\* exists and a receipt a lifecycle the journal knows.
THEOREM TypeCorrect == Spec => []TypeOK
<1>1. IInv => TypeOK
  BY DEF IInv
<1> QED
  BY Invariance, <1>1, PTL

\* One package is never worked on twice at once, unless by a worker that
\* outlived its host.
THEOREM MutualExclusion == Spec => []NoOverlap
<1>1. IInv => NoOverlap
  BY DEF IInv, NoOverlap, ActingIsOnRecord, Acting, UniqueInv
<1> QED
  BY Invariance, <1>1, PTL

\* What may still act is on record as unsettled.
THEOREM OnRecord == Spec => []ActingIsOnRecord
<1>1. IInv => ActingIsOnRecord
  BY DEF IInv
<1> QED
  BY Invariance, <1>1, PTL

\* A cancelled dispatch never reached a worker or the machine.
THEOREM CancelledIsSafe == Spec => []CancelledNeverActs
<1>1. IInv => CancelledNeverActs
  BY DEF IInv
<1> QED
  BY Invariance, <1>1, PTL

\* A verified operation really ran, and ended well.
THEOREM VerifiedIsEarned == Spec => []VerifiedRan
<1>1. IInv => VerifiedRan
  BY DEF IInv
<1> QED
  BY Invariance, <1>1, PTL

-----------------------------------------------------------------------------
(* How a receipt settles. *)

\* Whatever changes the journal keeps pending receipts on record and settled
\* ones settled.
LEMMA StepSettles == IInv /\ [Next]_vars => [Settles]_rows
<1> SUFFICES ASSUME IInv, Next PROVE Settles \/ UNCHANGED rows
  BY DEF vars
<1>1. TypeOK
  BY DEF IInv
<1>2. ASSUME NEW h \in Hosts, OpenEngine(h) PROVE Settles
  BY <1>1, <1>2, OpenedKeeps DEF OpenEngine, Settles, Pending
<1>3. ASSUME NEW h \in Hosts, NEW op \in Ops, StartReconcile(h, op) PROVE Settles
  BY <1>1, <1>3, OpenedKeeps DEF StartReconcile, Settles, Pending
<1>4. ASSUME NEW h \in Hosts, NEW seen \in 0 .. MaxBoot, SaveDispatching(h, seen)
      PROVE  Settles
  <2>1. call[h] \in Ops /\ rows[call[h]].life = "none"
    BY <1>4 DEF IInv, CallInv, FreshInv, PreRecord, SaveDispatching
  <2>2. \A op \in Ops \ {call[h]} : rows'[op] = rows[op]
    BY <1>1, <1>4, <2>1 DEF TypeOK, SaveDispatching
  <2> QED
    BY <1>1, <2>1, <2>2 DEF Settles, Pending
<1>5. ASSUME NEW h \in Hosts, NEW saved \in BOOLEAN, CancelRecorded(h, saved)
      PROVE  Settles
  <2>1. call[h] \in Ops /\ rows[call[h]].life = "dispatching"
    BY <1>5 DEF IInv, CallInv, StageInv, CancelRecorded
  <2>2. \A op \in Ops \ {call[h]} : rows'[op] = rows[op]
    BY <1>1, <1>5, <2>1 DEF TypeOK, CancelRecorded
  <2>3. rows'[call[h]].life \in {"dispatching", "cancelled_before_dispatch"}
    BY <1>1, <1>5, <2>1 DEF TypeOK, Receipts, CancelRecorded
  <2> QED
    BY <1>1, <2>1, <2>2, <2>3 DEF Settles, Pending
<1>6. ASSUME NEW h \in Hosts, NEW saved \in BOOLEAN, Finish(h, saved)
      PROVE  Settles
  <2>1. /\ call[h] \in Ops /\ rows[call[h]].life = "dispatching"
        /\ result[h] # "none"
    BY <1>6 DEF IInv, CallInv, StageInv, Finish
  <2>2. \A op \in Ops \ {call[h]} : rows'[op] = rows[op]
    BY <1>1, <1>6, <2>1 DEF TypeOK, Finish
  <2>3. rows'[call[h]].life \in {"dispatching", result[h]}
    BY <1>1, <1>6, <2>1 DEF TypeOK, Receipts, Finish
  <2> QED
    BY <1>1, <2>1, <2>2, <2>3 DEF Settles, Pending
<1>7. ASSUME NEW h \in Hosts, NEW now \in 0 .. MaxBoot, NEW saved \in BOOLEAN,
             Reconcile(h, now, saved)
      PROVE  Settles
  <2>1. call[h] \in Ops
    BY <1>7 DEF IInv, CallInv, Reconcile
  <2>2. \A op \in Ops \ {call[h]} : rows'[op] = rows[op]
    BY <1>1, <1>7, <2>1 DEF TypeOK, Reconcile
  <2>3. rows[call[h]] \in Receipts /\ idle[h] \in BOOLEAN
    BY <1>1, <2>1 DEF TypeOK
  <2>4. \/ rows'[call[h]].life = rows[call[h]].life
        \/ rows[call[h]].life \in Pending /\ rows'[call[h]].life = "checked_unknown"
    BY <1>1, <1>7, <2>1, <2>3, CheckedRow DEF TypeOK, Reconcile
  <2> QED
    BY <1>1, <2>1, <2>2, <2>4 DEF Settles, Pending
<1>8. ASSUME NEW h \in Hosts, NEW saved \in BOOLEAN, ReconcileFlush(h, saved)
      PROVE  Settles
  <2>1. call[h] \in Ops
    BY <1>8 DEF IInv, CallInv, ReconcileFlush
  <2>2. \A op \in Ops \ {call[h]} : rows'[op] = rows[op]
    BY <1>1, <1>8, <2>1 DEF TypeOK, ReconcileFlush
  <2>3. \/ rows'[call[h]].life = rows[call[h]].life
        \/ rows[call[h]].life \in Pending /\ rows'[call[h]].life = "checked_unknown"
    BY <1>1, <1>8, <2>1 DEF TypeOK, Receipts, ReconcileFlush
  <2> QED
    BY <1>1, <2>1, <2>2, <2>3 DEF Settles, Pending
<1>9. ASSUME NEW op \in Ops, Age(op) PROVE Settles
  <2>1. \A o \in Ops : rows'[o].life = rows[o].life
    BY <1>1, <1>9 DEF TypeOK, Receipts, Age
  <2> QED
    BY <2>1 DEF Settles, Pending
<1> QED
  BY ZenonT(60), <1>2, <1>3, <1>4, <1>5, <1>6, <1>7, <1>8, <1>9
     DEF Next, Call, Request, Machine, Prepare, PrepareFlush, Admit, Confirm,
         Revalidate, GiveUp, Spawn, CallFlush, DispatchFails, FlushReturns,
         Receive, ReceiveError, Kill, PostCheck, Recover, RecoverFails,
         WorkerChecks, WorkerDispatches, WorkerReplies, WorkerFails, NativeEnds,
         ExternalChange, Crash, Reboot

\* No unsettled receipt is ever lost, and no settled one reopened.
THEOREM ReceiptsSettle == Spec => SettledStepwise
<1> QED
  BY Invariance, StepSettles, PTL DEF Spec, SettledStepwise

-----------------------------------------------------------------------------
(* MaintenanceEngine implements PackageGate, as long as no host crashes.   *)

\* bootAt marks exactly the operations that were recorded.
RecordedInv ==
    /\ \A op \in Ops : plan[op].kind = "none" => bootAt[op] = 0
    /\ \A op \in Ops : rows[op].life # "none" => bootAt[op] # 0
    /\ \A h \in Hosts : pc[h] \in PreRecord => bootAt[call[h]] = 0

GateInv == IInv /\ RecordedInv /\ orphans = {}

\* The gate's variables, by the names the steps below use.
GTarget == [op \in Ops |-> IF bootAt[op] = 0 THEN NoOp ELSE plan[op].target]
GHeld   == {op \in Ops : rows[op].life \in Pending}
GBegun  == {op \in Ops : native[op] # "none"}
GActing == {op \in Ops : native[op] = "running"}

LEMMA GateInit == Init => GateInv /\ Gate!Init
<1> SUFFICES ASSUME Init PROVE GateInv /\ Gate!Init
  OBVIOUS
<1>1. RecordedInv /\ orphans = {}
  BY DEF Init, NoReceipt, RecordedInv, PreRecord
<1>2. Gate!Init
  BY DEF Init, NoReceipt, Pending, Gate!Init
<1> QED
  BY <1>1, <1>2, InitInv DEF GateInv

\* Opening the journal and aging a receipt leave every gate as it is.
LEMMA SameHeld ==
    ASSUME IInv,
           \/ \E h \in Hosts : OpenEngine(h)
           \/ \E h \in Hosts, op \in Ops : StartReconcile(h, op)
           \/ \E op \in Ops : Age(op)
    PROVE  /\ GHeld' = GHeld
           /\ \A op \in Ops : rows[op].life = "none" => rows'[op].life = "none"
<1>1. TypeOK
  BY DEF IInv
<1>2. ASSUME rows' = Opened(rows, KindOf)
      PROVE  /\ GHeld' = GHeld
             /\ \A op \in Ops : rows[op].life = "none" => rows'[op].life = "none"
  BY <1>1, <1>2, OpenedKeeps DEF GHeld, Pending
<1>3. ASSUME NEW op \in Ops, Age(op)
      PROVE  \A o \in Ops : rows'[o].life = rows[o].life
  BY <1>1, <1>3 DEF TypeOK, Receipts, Age
<1> QED
  BY <1>2, <1>3 DEF OpenEngine, StartReconcile, GHeld

\* A receipt saved over another changes the gate of its own target at most.
LEMMA OneRow ==
    ASSUME IInv, NEW h \in Hosts,
           \/ \E seen \in 0 .. MaxBoot : SaveDispatching(h, seen)
           \/ \E saved \in BOOLEAN : CancelRecorded(h, saved)
           \/ \E saved \in BOOLEAN : Finish(h, saved)
           \/ \E now \in 0 .. MaxBoot, saved \in BOOLEAN : Reconcile(h, now, saved)
           \/ \E saved \in BOOLEAN : ReconcileFlush(h, saved)
    PROVE  /\ call[h] \in Ops
           /\ \A op \in Ops \ {call[h]} : rows'[op] = rows[op]
<1>1. call[h] \in Ops
  BY DEF IInv, CallInv, SaveDispatching, CancelRecorded, Finish, Reconcile,
         ReconcileFlush
<1> QED
  BY <1>1 DEF IInv, TypeOK, SaveDispatching, CancelRecorded, Finish, Reconcile,
              ReconcileFlush

LEMMA RecordedKeeps ==
    ASSUME IInv, RecordedInv, [Next]_vars
    PROVE  RecordedInv'
<1>1. TypeOK /\ CallInv /\ FreshInv
  BY DEF IInv
<1>2. ASSUME NEW h \in Hosts, NEW op \in Ops,
             \/ \E k \in Kinds, p \in Packages, v \in Versions : Prepare(h, op, k, p, v)
             \/ PrepareFlush(h, op)
      PROVE  RecordedInv'
  BY SMTT(30), <1>1, <1>2 DEF TypeOK, Plans, Kinds, NoPlan, RecordedInv, PreRecord, Prepare,
         PrepareFlush, Goto, machine
<1>3. ASSUME \/ \E h \in Hosts : OpenEngine(h)
             \/ \E h \in Hosts, op \in Ops : StartReconcile(h, op)
             \/ \E op \in Ops : Age(op)
      PROVE  RecordedInv'
  <2>1. \A op \in Ops : rows[op].life = "none" => rows'[op].life = "none"
    BY <1>3, SameHeld
  <2> QED
    BY <1>1, <1>3, <2>1 DEF TypeOK, RecordedInv, PreRecord, OpenEngine,
           StartReconcile, Age, Goto, machine
<1>4. ASSUME NEW h \in Hosts, NEW seen \in 0 .. MaxBoot, SaveDispatching(h, seen)
      PROVE  RecordedInv'
  <2>1. /\ call[h] \in Ops
        /\ \A op \in Ops \ {call[h]} : rows'[op] = rows[op]
    BY <1>4, OneRow
  <2>2. plan[call[h]].kind # "none"
    BY <1>1, <1>4, <2>1 DEF IInv, UnplannedInv, SaveDispatching
  <2>3. \A g \in Hosts : g # h /\ pc[g] \in PreRecord => call[g] # call[h]
    BY <1>4, <2>1 DEF IInv, FreshInv, PreRecord, SaveDispatching
  <2> QED
    BY <1>1, <1>4, <2>1, <2>2, <2>3, MaxBootAssumption
       DEF TypeOK, RecordedInv, PreRecord, SaveDispatching, Goto
<1>5. ASSUME NEW h \in Hosts,
             \/ \E saved \in BOOLEAN : CancelRecorded(h, saved)
             \/ \E saved \in BOOLEAN : Finish(h, saved)
             \/ \E now \in 0 .. MaxBoot, saved \in BOOLEAN : Reconcile(h, now, saved)
             \/ \E saved \in BOOLEAN : ReconcileFlush(h, saved)
      PROVE  RecordedInv'
  <2>1. /\ call[h] \in Ops
        /\ \A op \in Ops \ {call[h]} : rows'[op] = rows[op]
    BY <1>5, OneRow
  <2>2. rows[call[h]].life # "none" \/ rows' = rows
    BY <1>5, <2>1 DEF IInv, StageInv, Pending, CancelRecorded, Finish, Reconcile,
                      ReconcileFlush
  <2>3. /\ UNCHANGED <<plan, bootAt>>
        /\ pc' = [pc EXCEPT ![h] = "idle"]
        /\ call' = [call EXCEPT ![h] = NoOp]
    BY <1>5 DEF CancelRecorded, Finish, Reconcile, ReconcileFlush, Return, Goto,
                machine
  <2> QED
    BY <1>1, <2>1, <2>2, <2>3 DEF TypeOK, RecordedInv, PreRecord
<1>6. ASSUME UNCHANGED <<rows, plan, bootAt>>,
             \A g \in Hosts : pc'[g] \in PreRecord
                                => pc[g] \in PreRecord /\ call'[g] = call[g]
      PROVE  RecordedInv'
  BY <1>6 DEF RecordedInv
<1>7. ASSUME NEW h \in Hosts,
             \/ Admit(h) \/ Confirm(h) \/ Revalidate(h) \/ GiveUp(h)
             \/ Spawn(h) \/ CallFlush(h) \/ DispatchFails(h)
             \/ \E ok \in BOOLEAN : FlushReturns(h, ok)
             \/ Receive(h) \/ ReceiveError(h) \/ Kill(h)
             \/ \E readable \in BOOLEAN : PostCheck(h, readable)
             \/ Recover(h) \/ RecoverFails(h) \/ Crash(h)
      PROVE  RecordedInv'
  <2>1. /\ UNCHANGED <<rows, plan, bootAt>>
        /\ \A g \in Hosts : pc'[g] \in PreRecord
                              => pc[g] \in PreRecord /\ call'[g] = call[g]
    BY <1>1, <1>7 DEF TypeOK, PreRecord, Admit, Confirm, Revalidate, GiveUp, Spawn,
           CallFlush, DispatchFails, FlushReturns, Receive, ReceiveError, Kill,
           PostCheck, Recover, RecoverFails, Crash, Return, Conclude, Goto, machine
  <2> QED
    BY <1>6, <2>1
<1>8. ASSUME \/ \E op \in Ops : Machine(op) /\ ~Age(op)
             \/ \E p \in Packages, v \in 0 .. MaxVersion : ExternalChange(p, v)
             \/ Reboot \/ UNCHANGED vars
      PROVE  RecordedInv'
  <2>1. /\ UNCHANGED <<rows, plan, bootAt>>
        /\ \A g \in Hosts : pc'[g] \in PreRecord
                              => pc[g] \in PreRecord /\ call'[g] = call[g]
    BY <1>8 DEF PreRecord, Machine, WorkerChecks, WorkerDispatches, WorkerReplies,
           WorkerFails, NativeEnds, ExternalChange, Reboot, machine, vars
  <2> QED
    BY <1>6, <2>1
<1> QED
  BY <1>2, <1>3, <1>4, <1>5, <1>7, <1>8 DEF Next, Call, Request, Machine

\* Without host crashes every step is a step of the gate, or leaves it alone.
LEMMA GateStep ==
    ASSUME MaxCrashes = 0, GateInv, [Next]_vars
    PROVE  GateInv' /\ [Gate!Next]_(Gate!vars)
<1>1. TypeOK /\ IInv /\ RecordedInv /\ orphans = {}
  BY DEF GateInv, IInv
<1>2. IInv' /\ RecordedInv'
  BY <1>1, NextKeeps, RecordedKeeps
<1>3. \A h \in Hosts : ~Crash(h)
  BY <1>1 DEF TypeOK, Crash
<1>4. ASSUME UNCHANGED <<GTarget, GHeld, GBegun, GActing>>
      PROVE  UNCHANGED Gate!vars
  BY <1>4 DEF GTarget, GHeld, GBegun, GActing, Gate!vars
<1>5. ASSUME UNCHANGED <<rows, plan, bootAt, native>>
      PROVE  UNCHANGED Gate!vars
  BY <1>5 DEF Gate!vars
<1>6. ASSUME NEW h \in Hosts, NEW op \in Ops,
             \/ \E k \in Kinds, p \in Packages, v \in Versions : Prepare(h, op, k, p, v)
             \/ PrepareFlush(h, op)
      PROVE  UNCHANGED Gate!vars /\ UNCHANGED orphans
  <2>1. /\ UNCHANGED <<rows, bootAt, native, orphans>>
        /\ bootAt[op] = 0
        /\ \A o \in Ops \ {op} : plan'[o] = plan[o]
    BY <1>1, <1>6 DEF TypeOK, RecordedInv, Prepare, PrepareFlush, machine
  <2>2. UNCHANGED GTarget
    BY <2>1 DEF GTarget
  <2> QED
    BY <1>4, <2>1, <2>2 DEF GHeld, GBegun, GActing
<1>7. ASSUME \/ \E h \in Hosts : OpenEngine(h)
             \/ \E h \in Hosts, op \in Ops : StartReconcile(h, op)
             \/ \E op \in Ops : Age(op)
      PROVE  UNCHANGED Gate!vars /\ UNCHANGED orphans
  <2>1. UNCHANGED GHeld
    BY <1>1, <1>7, SameHeld
  <2>2. UNCHANGED <<plan, bootAt, native, orphans>>
    BY <1>7 DEF OpenEngine, StartReconcile, Age, machine
  <2> QED
    BY <1>4, <2>1, <2>2 DEF GTarget, GBegun, GActing
<1>8. ASSUME NEW h \in Hosts, NEW seen \in 0 .. MaxBoot, SaveDispatching(h, seen)
      PROVE  /\ \E op \in Ops, t \in Packages \cup {Resolver} : Gate!Acquire(op, t)
             /\ UNCHANGED orphans
  <2>1. PICK op \in Ops : op = call[h] /\ \A o \in Ops \ {op} : rows'[o] = rows[o]
    BY <1>1, <1>8, OneRow
  <2>2. PICK t \in Packages \cup {Resolver} : t = plan[op].target
    BY <1>1 DEF TypeOK, Plans
  <2>3. /\ rows'[op].life = "dispatching"
        /\ bootAt'[op] # 0 /\ bootAt[op] = 0
        /\ \A o \in Ops \ {op} : bootAt'[o] = bootAt[o]
        /\ UNCHANGED <<plan, native, orphans>>
    BY <1>1, <1>8, <2>1, MaxBootAssumption
       DEF TypeOK, Receipts, RecordedInv, PreRecord, SaveDispatching, NoReceipt
  <2>4. GTarget[op] = NoOp
    BY <2>3 DEF GTarget
  <2>5. \A o \in Ops : GTarget'[o] = IF o = op THEN t ELSE GTarget[o]
    BY <2>2, <2>3 DEF GTarget
  <2>6. GTarget' = [GTarget EXCEPT ![op] = t]
    BY <2>5 DEF GTarget
  <2>7. GHeld' = GHeld \cup {op}
    BY <2>1, <2>3 DEF GHeld, Pending
  <2>8. \A other \in GHeld : GTarget[other] # t
    BY <1>1, <1>8, <2>1, <2>2 DEF IInv, AdmittedInv, Blocked, RecordedInv, Pending,
           GHeld, GTarget, SaveDispatching
  <2>9. UNCHANGED <<GBegun, GActing>>
    BY <2>3 DEF GBegun, GActing
  <2>10. Gate!Acquire(op, t)
    BY <2>4, <2>6, <2>7, <2>8, <2>9 DEF GTarget, GHeld, GBegun, GActing, Gate!Acquire
  <2> QED
    BY <2>3, <2>10
<1>9. ASSUME NEW op \in Ops, rows[op].life \in Pending, native[op] = "none",
             native' = [native EXCEPT ![op] = "running"],
             UNCHANGED <<rows, plan, bootAt>>
      PROVE  Gate!Begin(op)
  <2>1. op \in GHeld \ GBegun
    BY <1>9 DEF GHeld, GBegun
  <2>2. GBegun' = GBegun \cup {op} /\ GActing' = GActing \cup {op}
    BY <1>1, <1>9 DEF TypeOK, GBegun, GActing
  <2> QED
    BY <1>9, <2>1, <2>2 DEF GTarget, GHeld, GBegun, GActing, Gate!Begin
<1>10. ASSUME NEW h \in Hosts, CallFlush(h)
       PROVE  (\E op \in Ops : Gate!Begin(op)) /\ UNCHANGED orphans
  <2>1. PICK op \in Ops : op = call[h]
    BY <1>1, <1>10 DEF IInv, CallInv, CallFlush
  <2>2. rows[op].life \in Pending /\ native[op] = "none"
    BY <1>1, <1>10, <2>1 DEF IInv, StageInv, Pending, CallFlush
  <2>3. Gate!Begin(op)
    BY <1>9, <1>10, <2>1, <2>2 DEF CallFlush, machine
  <2> QED
    BY <1>10, <2>3 DEF CallFlush, machine
<1>11. ASSUME NEW op \in Ops, WorkerDispatches(op)
       PROVE  (\E o \in Ops : Gate!Begin(o)) /\ UNCHANGED orphans
  <2>1. rows[op].life \in Pending /\ native[op] = "none"
    BY <1>1, <1>11 DEF IInv, ActingIsOnRecord, Acting, WorkerInv, WorkerDispatches
  <2> QED
    BY <1>9, <1>11, <2>1 DEF WorkerDispatches, machine
<1>12. ASSUME NEW stopped \in SUBSET Ops, UNCHANGED <<rows, plan, bootAt>>,
              \A op \in stopped : native[op] = "running"
                                    /\ native'[op] \notin {"none", "running"},
              \A op \in Ops \ stopped : native'[op] = native[op]
       PROVE  Gate!End(stopped)
  <2>1. stopped \subseteq GActing /\ GActing' = GActing \ stopped /\ GBegun' = GBegun
    BY <1>12 DEF GActing, GBegun
  <2> QED
    BY <1>12, <2>1 DEF GTarget, GHeld, GBegun, GActing, Gate!End
<1>13. ASSUME NEW h \in Hosts, NEW ok \in BOOLEAN, FlushReturns(h, ok)
       PROVE  (\E stopped \in SUBSET Ops : Gate!End(stopped)) /\ UNCHANGED orphans
  <2>1. PICK op \in Ops : op = call[h]
    BY <1>1, <1>13 DEF IInv, CallInv, FlushReturns
  <2>2. /\ UNCHANGED <<rows, plan, bootAt, orphans>>
        /\ native'[op] \notin {"none", "running"}
        /\ \A o \in Ops \ {op} : native'[o] = native[o]
    BY <1>1, <1>13, <2>1 DEF TypeOK, FlushReturns, machine
  <2>3. native[op] = "running"
    BY <1>1, <1>13, <2>1 DEF IInv, StageInv, FlushReturns
  <2>4. Gate!End({op})
    BY <1>12, <2>2, <2>3
  <2> QED
    BY <2>2, <2>4
<1>14. ASSUME NEW op \in Ops, NEW outcome \in NativeDone, NEW reached \in BOOLEAN,
              NativeEnds(op, outcome, reached)
       PROVE  (\E stopped \in SUBSET Ops : Gate!End(stopped)) /\ UNCHANGED orphans
  <2>1. /\ UNCHANGED <<rows, plan, bootAt, orphans>>
        /\ native[op] = "running" /\ native'[op] \notin {"none", "running"}
        /\ \A o \in Ops \ {op} : native'[o] = native[o]
    BY <1>1, <1>14 DEF TypeOK, NativeEnds, NativeDone
  <2>2. Gate!End({op})
    BY <1>12, <2>1
  <2> QED
    BY <2>1, <2>2
<1>15. ASSUME Reboot
       PROVE  (\E stopped \in SUBSET Ops : Gate!End(stopped)) /\ UNCHANGED orphans
  <2>1. PICK stopped \in SUBSET Ops : stopped = GActing
    BY DEF GActing
  <2>2. /\ UNCHANGED <<rows, plan, bootAt, orphans>>
        /\ \A op \in stopped : native[op] = "running" /\ native'[op] = "ended"
        /\ \A op \in Ops \ stopped : native'[op] = native[op]
    BY <1>15, <2>1 DEF GActing, Reboot
  <2>3. Gate!End(stopped)
    BY <1>12, <2>2
  <2> QED
    BY <2>2, <2>3
<1>16. ASSUME NEW h \in Hosts,
              \/ \E saved \in BOOLEAN : CancelRecorded(h, saved)
              \/ \E saved \in BOOLEAN : Finish(h, saved)
              \/ \E now \in 0 .. MaxBoot, saved \in BOOLEAN : Reconcile(h, now, saved)
              \/ \E saved \in BOOLEAN : ReconcileFlush(h, saved)
       PROVE  /\ (\E op \in Ops : Gate!Release(op)) \/ UNCHANGED Gate!vars
              /\ UNCHANGED orphans
  <2>1. PICK op \in Ops : op = call[h] /\ \A o \in Ops \ {op} : rows'[o] = rows[o]
    BY <1>1, <1>16, OneRow
  <2>2. UNCHANGED <<plan, bootAt, native, orphans>>
    BY <1>16 DEF CancelRecorded, Finish, Reconcile, ReconcileFlush, machine
  <2>3. rows[op].life \in Pending \/ rows' = rows
    BY <1>1, <1>16, <2>1 DEF IInv, StageInv, Pending, CancelRecorded, Finish,
           Reconcile, ReconcileFlush
  <2>4. rows'[op].life \in Pending \/ native[op] # "running" \/ rows' = rows
    <3>1. CASE \E saved \in BOOLEAN : CancelRecorded(h, saved)
      BY <1>1, <2>1, <3>1 DEF IInv, StageInv, CancelRecorded
    <3>2. CASE \E saved \in BOOLEAN : Finish(h, saved)
      <4>1. PICK saved \in BOOLEAN : Finish(h, saved)
        BY <3>2
      <4>2. /\ result[h] \in {"unknown", "awaiting_reboot", "verified", "failed"}
            /\ result[h] \in {"verified", "failed"} => native[op] # "running"
        BY <1>1, <2>1, <4>1 DEF IInv, StageInv, Finish
      <4>3. rows'[op].life = result[h] \/ rows' = rows
        BY <1>1, <2>1, <4>1 DEF TypeOK, Receipts, Finish
      <4> QED
        BY <4>2, <4>3 DEF Pending
    <3>3. CASE \E now \in 0 .. MaxBoot, saved \in BOOLEAN : Reconcile(h, now, saved)
      <4>1. PICK now \in 0 .. MaxBoot, saved \in BOOLEAN : Reconcile(h, now, saved)
        BY <3>3
      <4>2. rows[op] \in Receipts /\ idle[h] \in BOOLEAN
        BY <1>1, <2>1 DEF TypeOK
      <4>3. idle[h] => native[op] # "running"
        BY <1>1, <2>1, <4>1 DEF IInv, SeenInv, Reconcile
      <4>4. rows'[op].life = rows[op].life \/ idle[h]
        BY <1>1, <2>1, <4>1, <4>2, CheckedRow DEF TypeOK, Reconcile
      <4> QED
        BY <2>3, <4>3, <4>4
    <3>4. CASE \E saved \in BOOLEAN : ReconcileFlush(h, saved)
      BY <1>1, <2>1, <3>4 DEF IInv, TypeOK, LockInv, WorkerInv, EngineOpen, Steps,
             ReconcileFlush
    <3> QED
      BY <1>16, <3>1, <3>2, <3>3, <3>4
  <2>5. CASE rows'[op].life \in Pending \/ rows' = rows
    <3>1. UNCHANGED GHeld
      BY <2>1, <2>3, <2>5 DEF GHeld
    <3> QED
      BY <1>4, <2>2, <3>1 DEF GTarget, GBegun, GActing
  <2>6. CASE rows'[op].life \notin Pending /\ rows' # rows
    <3>1. GHeld' = GHeld \ {op} /\ op \in GHeld \ GActing
      BY <2>1, <2>3, <2>4, <2>6 DEF GHeld, GActing
    <3>2. Gate!Release(op)
      BY <2>2, <3>1 DEF GTarget, GHeld, GBegun, GActing, Gate!Release
    <3> QED
      BY <2>1, <2>2, <3>2
  <2> QED
    BY <2>5, <2>6
<1>17. ASSUME \/ \E h \in Hosts :
                   \/ Admit(h) \/ Confirm(h) \/ Revalidate(h) \/ GiveUp(h)
                   \/ Spawn(h) \/ DispatchFails(h)
                   \/ Receive(h) \/ ReceiveError(h) \/ Kill(h)
                   \/ \E readable \in BOOLEAN : PostCheck(h, readable)
                   \/ Recover(h) \/ RecoverFails(h)
              \/ \E op \in Ops : WorkerChecks(op) \/ WorkerReplies(op) \/ WorkerFails(op)
              \/ \E p \in Packages, v \in 0 .. MaxVersion : ExternalChange(p, v)
              \/ UNCHANGED vars
       PROVE  UNCHANGED Gate!vars /\ UNCHANGED orphans
  <2>1. UNCHANGED <<rows, plan, bootAt, native, orphans>>
    BY <1>17 DEF Admit, Confirm, Revalidate, GiveUp, Spawn, DispatchFails, Receive,
           ReceiveError, Kill, PostCheck, Recover, RecoverFails, WorkerChecks,
           WorkerReplies, WorkerFails, ExternalChange, machine, vars
  <2> QED
    BY <1>5, <2>1
<1>18. ASSUME NEW h \in Hosts, Call(h)
       PROVE  [Gate!Next]_(Gate!vars) /\ UNCHANGED orphans
  BY <1>7, <1>8, <1>10, <1>13, <1>16, <1>17, <1>18 DEF Call, Gate!Next
<1>19. ASSUME NEW h \in Hosts, NEW op \in Ops, Request(h, op)
       PROVE  [Gate!Next]_(Gate!vars) /\ UNCHANGED orphans
  BY <1>6, <1>7, <1>19 DEF Request
<1>20. ASSUME NEW op \in Ops, Machine(op)
       PROVE  [Gate!Next]_(Gate!vars) /\ UNCHANGED orphans
  BY <1>7, <1>11, <1>14, <1>17, <1>20 DEF Machine, Gate!Next
<1>21. [Gate!Next]_(Gate!vars) /\ UNCHANGED orphans
  BY <1>3, <1>15, <1>17, <1>18, <1>19, <1>20 DEF Next, Gate!Next
<1> QED
  BY <1>1, <1>2, <1>21 DEF GateInv

\* As long as no host crashes, maintenance keeps the gate's whole promise: an
\* operation acts once, alone on its target, and only on record.
THEOREM Implements ==
    ASSUME MaxCrashes = 0
    PROVE  Spec => GateSpec
<1>1. Init => GateInv /\ Gate!Init
  BY GateInit
<1>2. GateInv /\ [Next]_vars => GateInv' /\ [Gate!Next]_(Gate!vars)
  BY GateStep
<1> QED
  BY <1>1, <1>2, PTL DEF Spec, GateSpec, Gate!Spec

-----------------------------------------------------------------------------
(* RebootHonoured: what recovery compares is never earlier than the boot in *)
(* which the operation was recorded.                                        *)

RebootInv ==
    /\ \A op \in Ops :
          /\ bootAt[op] <= boot
          /\ rows[op].boot # 0 => bootAt[op] <= rows[op].boot
          /\ rows[op].baseline # 0 => bootAt[op] <= rows[op].baseline
          /\ rows[op].reboot => plan[op].kind \notin {"none", "flush_dns_cache"}
    /\ \A h \in Hosts :
          pc[h] = "finishing" /\ result[h] = "awaiting_reboot" => ~IsFlush(call[h])
    /\ RebootHonoured

\* Opening the journal changes no row's boots and releases no row.
LEMMA OpenedKeepsBoots ==
    ASSUME TypeOK, NEW op \in Ops, rows' = Opened(rows, KindOf)
    PROVE  /\ rows'[op].boot = rows[op].boot /\ rows'[op].baseline = rows[op].baseline
           /\ rows'[op].reboot = rows[op].reboot
           /\ rows'[op].life = "checked_unknown" => rows[op].life = "checked_unknown"
<1> DEFINE row == rows[op]
           now == Recovered(row)
<1>1. row \in Receipts /\ rows'[op] = Pruned(KindOf[op], now, FALSE)
  BY DEF TypeOK, Opened
<1>2. now \in {row, [row EXCEPT !.life = "unknown"]}
  BY DEF Recovered
<1>3. rows'[op] \in {now, [now EXCEPT !.life = "none"]}
  BY <1>1 DEF Pruned
<1> QED
  BY <1>1, <1>2, <1>3 DEF Receipts

\* Recovery: a receipt that awaits a restart is only released in a later boot
\* than the one on record, and the boot it puts on record is the present one.
LEMMA CheckedHonours ==
    ASSUME NEW row \in Receipts, NEW isIdle \in BOOLEAN, NEW now \in 0 .. MaxBoot,
           NEW at \in 0 .. MaxBoot, now # 0 => at <= now,
           row.boot # 0 => at <= row.boot, row.baseline # 0 => at <= row.baseline,
           row.life # "checked_unknown"
    PROVE  LET new == Checked(row, isIdle, now) IN
           /\ new.boot = row.boot /\ new.reboot = row.reboot
           /\ new.baseline # 0 => at <= new.baseline
           /\ new.life = "checked_unknown" /\ new.reboot => now # 0 /\ at < now
  BY MaxBootAssumption DEF Checked, Receipts

\* The boots on record stay so; who awaits a restart is no flush.
LEMMA RebootKeeps ==
    ASSUME IInv, RebootInv, [Next]_vars
    PROVE  RebootInv'
<1>1. TypeOK /\ CallInv /\ StageInv /\ UnplannedInv
  BY DEF IInv
<1>2. ASSUME NEW h \in Hosts, NEW op \in Ops,
             \/ \E k \in Kinds, p \in Packages, v \in Versions : Prepare(h, op, k, p, v)
             \/ PrepareFlush(h, op)
      PROVE  RebootInv'
  <2>1. /\ plan[op].kind = "none" /\ UNCHANGED <<rows, result, boot, bootAt>>
        /\ \A o \in Ops \ {op} : plan'[o] = plan[o]
    BY <1>1, <1>2 DEF TypeOK, Prepare, PrepareFlush, machine
  <2>2. ~rows[op].reboot
    BY <2>1 DEF RebootInv
  <2>3. \A g \in Hosts : pc'[g] = "finishing"
           => pc[g] = "finishing" /\ call'[g] = call[g] /\ call[g] \in Ops \ {op}
    BY <1>1, <1>2, <2>1 DEF TypeOK, CallInv, UnplannedInv, Prepare, PrepareFlush, Goto
  <2> QED
    BY <2>1, <2>2, <2>3 DEF RebootInv, RebootHonoured, IsFlush
<1>3. ASSUME NEW h \in Hosts, OpenEngine(h) \/ \E op \in Ops : StartReconcile(h, op)
      PROVE  RebootInv'
  <2>1. rows' = Opened(rows, KindOf) /\ UNCHANGED <<plan, result, boot, bootAt>>
    BY <1>3 DEF OpenEngine, StartReconcile, machine
  <2>2. \A g \in Hosts : pc'[g] = "finishing" => pc[g] = "finishing" /\ call'[g] = call[g]
    BY <1>1, <1>3 DEF TypeOK, OpenEngine, StartReconcile, Goto
  <2>3. \A op \in Ops :
           /\ rows'[op].boot = rows[op].boot /\ rows'[op].baseline = rows[op].baseline
           /\ rows'[op].reboot = rows[op].reboot
           /\ rows'[op].life = "checked_unknown" => rows[op].life = "checked_unknown"
    BY <1>1, <2>1, OpenedKeepsBoots
  <2> QED
    BY <2>1, <2>2, <2>3 DEF RebootInv, RebootHonoured, IsFlush
<1>4. ASSUME NEW h \in Hosts, NEW seen \in 0 .. MaxBoot, SaveDispatching(h, seen)
      PROVE  RebootInv'
  <2>1. /\ call[h] \in Ops
        /\ \A op \in Ops \ {call[h]} : rows'[op] = rows[op]
    BY <1>4, OneRow
  <2>2. /\ rows'[call[h]].life = "dispatching" /\ ~rows'[call[h]].reboot
        /\ rows'[call[h]].boot \in {0, boot} /\ rows'[call[h]].baseline = 0
    BY <1>1, <1>4, <2>1 DEF TypeOK, SaveDispatching, NoReceipt
  <2>3. /\ bootAt' = [bootAt EXCEPT ![call[h]] = boot]
        /\ \A g \in Hosts : pc'[g] = "finishing" => pc[g] = "finishing"
        /\ UNCHANGED <<plan, call, result, boot>>
    BY <1>1, <1>4 DEF TypeOK, SaveDispatching, Goto
  <2> QED
    BY <1>1, <2>1, <2>2, <2>3 DEF TypeOK, RebootInv, RebootHonoured, IsFlush
<1>5. ASSUME NEW h \in Hosts, NEW saved \in BOOLEAN, CancelRecorded(h, saved)
      PROVE  RebootInv'
  <2>1. /\ call[h] \in Ops
        /\ \A op \in Ops \ {call[h]} : rows'[op] = rows[op]
    BY <1>5, OneRow
  <2>2. rows'[call[h]] \in {rows[call[h]],
                            [rows[call[h]] EXCEPT !.life = "cancelled_before_dispatch"]}
    BY <1>1, <1>5, <2>1 DEF TypeOK, CancelRecorded
  <2>3. /\ rows'[call[h]].boot = rows[call[h]].boot
        /\ rows'[call[h]].baseline = rows[call[h]].baseline
        /\ rows'[call[h]].reboot = rows[call[h]].reboot
        /\ rows'[call[h]].life = "checked_unknown" => rows[call[h]].life = "checked_unknown"
    BY <1>1, <2>1, <2>2 DEF TypeOK, Receipts
  <2>4. /\ \A g \in Hosts : pc'[g] = "finishing"
              => pc[g] = "finishing" /\ UNCHANGED <<result[g], call[g]>>
        /\ UNCHANGED <<plan, boot, bootAt>>
    BY <1>1, <1>5 DEF TypeOK, CancelRecorded, Return, Goto, machine
  <2> QED
    BY <2>1, <2>3, <2>4 DEF RebootInv, RebootHonoured, IsFlush
<1>6. ASSUME NEW h \in Hosts, NEW saved \in BOOLEAN, Finish(h, saved)
      PROVE  RebootInv'
  <2>1. /\ call[h] \in Ops /\ plan[call[h]].kind # "none"
        /\ \A op \in Ops \ {call[h]} : rows'[op] = rows[op]
    BY <1>1, <1>6, OneRow DEF UnplannedInv
  <2>2. result[h] # "checked_unknown" /\ rows[call[h]].life # "checked_unknown"
    BY <1>1, <1>6, <2>1 DEF StageInv, Finish
  <2>3. /\ rows'[call[h]].boot = rows[call[h]].boot
        /\ rows'[call[h]].baseline = rows[call[h]].baseline
        /\ rows'[call[h]].life # "checked_unknown"
    BY <1>1, <1>6, <2>1, <2>2 DEF TypeOK, Receipts, Finish
  <2>4. rows'[call[h]].reboot => rows[call[h]].reboot \/ result[h] = "awaiting_reboot"
    BY <1>1, <1>6, <2>1 DEF TypeOK, Receipts, Finish
  <2>5. rows'[call[h]].reboot => plan[call[h]].kind \notin {"none", "flush_dns_cache"}
    BY <1>6, <2>1, <2>4 DEF RebootInv, IsFlush, Finish
  <2>6. /\ \A g \in Hosts : pc'[g] = "finishing"
              => pc[g] = "finishing" /\ UNCHANGED <<result[g], call[g]>>
        /\ UNCHANGED <<plan, boot, bootAt>>
    BY <1>1, <1>6 DEF TypeOK, Finish, Return, Goto, machine
  <2> QED
    BY <2>1, <2>3, <2>5, <2>6 DEF RebootInv, RebootHonoured, IsFlush
<1>7. ASSUME NEW h \in Hosts, NEW now \in 0 .. MaxBoot, NEW saved \in BOOLEAN,
             Reconcile(h, now, saved)
      PROVE  RebootInv'
  <2> DEFINE op == call[h]
  <2>1. /\ op \in Ops
        /\ \A o \in Ops \ {op} : rows'[o] = rows[o]
    BY <1>7, OneRow
  <2>2. /\ \A g \in Hosts : pc'[g] = "finishing"
              => pc[g] = "finishing" /\ UNCHANGED <<result[g], call[g]>>
        /\ UNCHANGED <<plan, boot, bootAt>>
    BY <1>1, <1>7 DEF TypeOK, Reconcile, Return, Goto, machine
  <2>3. CASE ~(rows[op].life \in Pending /\ saved)
    <3>1. rows' = rows
      BY <1>7, <2>3 DEF Reconcile
    <3> QED
      BY <2>2, <3>1 DEF RebootInv, RebootHonoured, IsFlush
  <2>4. CASE rows[op].life \in Pending /\ saved
    <3>1. rows'[op] = Checked(rows[op], idle[h], now) /\ now \in {0, boot}
      BY <1>1, <1>7, <2>1, <2>4 DEF TypeOK, Reconcile
    <3>2. /\ rows[op] \in Receipts /\ idle[h] \in BOOLEAN /\ bootAt[op] \in 0 .. MaxBoot
          /\ now # 0 => bootAt[op] <= now
          /\ rows[op].boot # 0 => bootAt[op] <= rows[op].boot
          /\ rows[op].baseline # 0 => bootAt[op] <= rows[op].baseline
          /\ rows[op].life # "checked_unknown"
      BY <1>1, <2>1, <2>4, <3>1 DEF TypeOK, RebootInv, Pending
    <3>3. /\ rows'[op].boot = rows[op].boot /\ rows'[op].reboot = rows[op].reboot
          /\ rows'[op].baseline # 0 => bootAt[op] <= rows'[op].baseline
          /\ rows'[op].life = "checked_unknown" /\ rows'[op].reboot
               => now # 0 /\ bootAt[op] < now
      BY <3>1, <3>2, CheckedHonours
    <3> HIDE DEF op
    <3> QED
      BY <1>1, <2>1, <2>2, <3>1, <3>3 DEF TypeOK, RebootInv, RebootHonoured, IsFlush
  <2> QED
    BY <2>3, <2>4
<1>8. ASSUME NEW h \in Hosts, NEW saved \in BOOLEAN, ReconcileFlush(h, saved)
      PROVE  RebootInv'
  <2>1. /\ call[h] \in Ops
        /\ \A op \in Ops \ {call[h]} : rows'[op] = rows[op]
    BY <1>8, OneRow
  <2>2. rows'[call[h]] \in {rows[call[h]],
                            [rows[call[h]] EXCEPT !.life = "checked_unknown"]}
    BY <1>1, <1>8, <2>1 DEF TypeOK, ReconcileFlush
  <2>3. /\ rows'[call[h]].boot = rows[call[h]].boot
        /\ rows'[call[h]].baseline = rows[call[h]].baseline
        /\ rows'[call[h]].reboot = rows[call[h]].reboot
    BY <1>1, <2>1, <2>2 DEF TypeOK, Receipts
  <2>4. ~rows[call[h]].reboot
    BY <1>8, <2>1 DEF RebootInv, IsFlush, ReconcileFlush
  <2>5. /\ \A g \in Hosts : pc'[g] = "finishing"
              => pc[g] = "finishing" /\ UNCHANGED <<result[g], call[g]>>
        /\ UNCHANGED <<plan, boot, bootAt>>
    BY <1>1, <1>8 DEF TypeOK, ReconcileFlush, Return, Goto, machine
  <2> QED
    BY <2>1, <2>3, <2>4, <2>5 DEF RebootInv, RebootHonoured, IsFlush
<1>9. ASSUME NEW op \in Ops, Age(op) PROVE RebootInv'
  <2>1. \A o \in Ops :
           /\ rows'[o].boot = rows[o].boot /\ rows'[o].baseline = rows[o].baseline
           /\ rows'[o].reboot = rows[o].reboot /\ rows'[o].life = rows[o].life
    BY <1>1, <1>9 DEF TypeOK, Receipts, Age
  <2> QED
    BY <1>9, <2>1 DEF RebootInv, RebootHonoured, IsFlush, Age, machine
<1>10. ASSUME UNCHANGED <<rows, plan, bootAt>>, boot' \in {boot, boot + 1},
              \A h \in Hosts : pc'[h] = "finishing" /\ result'[h] = "awaiting_reboot"
                                 => ~IsFlush(call'[h])
       PROVE  RebootInv'
  BY <1>1, <1>10 DEF TypeOK, RebootInv, RebootHonoured, IsFlush
<1>11. ASSUME NEW h \in Hosts,
              \/ Admit(h) \/ Confirm(h) \/ Revalidate(h) \/ GiveUp(h)
              \/ Spawn(h) \/ CallFlush(h) \/ DispatchFails(h)
              \/ \E ok \in BOOLEAN : FlushReturns(h, ok)
              \/ ReceiveError(h) \/ Kill(h)
              \/ \E readable \in BOOLEAN : PostCheck(h, readable)
              \/ Recover(h) \/ RecoverFails(h) \/ Crash(h)
       PROVE  RebootInv'
  <2>1. UNCHANGED <<rows, plan, bootAt, boot>>
    BY <1>11 DEF Admit, Confirm, Revalidate, GiveUp, Spawn, CallFlush, DispatchFails,
           FlushReturns, ReceiveError, Kill, PostCheck, Recover, RecoverFails, Crash,
           machine
  <2>2. \A g \in Hosts :
           pc'[g] = "finishing" /\ result'[g] = "awaiting_reboot"
             => /\ pc[g] = "finishing" /\ result[g] = "awaiting_reboot"
                /\ call'[g] = call[g]
    BY <1>1, <1>11 DEF TypeOK, Admit, Confirm, Revalidate, GiveUp, Spawn, CallFlush,
           DispatchFails, FlushReturns, ReceiveError, Kill, PostCheck, Recover,
           RecoverFails, Crash, Return, Conclude, Goto
  <2> QED
    BY <1>10, <2>1, <2>2 DEF RebootInv, IsFlush
<1>12. ASSUME NEW h \in Hosts, Receive(h) PROVE RebootInv'
  <2>1. ~IsFlush(call[h])
    BY <1>1, <1>12 DEF StageInv, Receive
  <2>2. \A g \in Hosts \ {h} : pc'[g] = pc[g] /\ result'[g] = result[g]
    BY <1>1, <1>12 DEF TypeOK, Receive, Conclude, Goto
  <2>3. UNCHANGED <<rows, plan, bootAt, boot, call>>
    BY <1>12 DEF Receive, machine
  <2> QED
    BY <1>10, <2>1, <2>2, <2>3 DEF RebootInv, IsFlush
<1>13. ASSUME \/ \E op \in Ops : Machine(op) /\ ~Age(op)
              \/ \E p \in Packages, v \in 0 .. MaxVersion : ExternalChange(p, v)
              \/ Reboot \/ UNCHANGED vars
       PROVE  RebootInv'
  <2>1. UNCHANGED <<rows, plan, bootAt>> /\ boot' \in {boot, boot + 1}
    BY <1>13 DEF Machine, WorkerChecks, WorkerDispatches, WorkerReplies, WorkerFails,
           NativeEnds, ExternalChange, Reboot, machine, vars
  <2>2. \A g \in Hosts : pc'[g] = "finishing"
           => pc[g] = "finishing" /\ UNCHANGED <<result[g], call[g]>>
    BY <1>13 DEF Machine, WorkerChecks, WorkerDispatches, WorkerReplies, WorkerFails,
           NativeEnds, ExternalChange, Reboot, machine, vars
  <2> QED
    BY <1>10, <2>1, <2>2 DEF RebootInv, IsFlush
<1> QED
  BY <1>2, <1>3, <1>4, <1>5, <1>6, <1>7, <1>8, <1>9, <1>11, <1>12, <1>13
     DEF Next, Call, Request, Machine

\* An operation known to need a restart is not released in the boot it ran in.
THEOREM RestartIsAwaited == Spec => []RebootHonoured
<1>1. Init => RebootInv
  BY MaxBootAssumption DEF Init, NoReceipt, NoPlan, RebootInv, RebootHonoured
<1>2. IInv /\ RebootInv /\ [Next]_vars => RebootInv'
  BY RebootKeeps
<1>3. RebootInv => RebootHonoured
  BY DEF RebootInv
<1> QED
  BY Invariance, <1>1, <1>2, <1>3, PTL DEF Spec

-----------------------------------------------------------------------------
(* JournalReadable: only a save of a new receipt adds to the table, and a   *)
(* full table refuses it.                                                   *)

TableInv == IsFiniteSet(Held(rows)) /\ JournalReadable

\* Every step but the save of a new receipt leaves an absent row absent.
LEMMA AbsentStays ==
    ASSUME IInv, [Next]_vars, NEW op \in Ops, rows[op].life = "none"
    PROVE  \/ rows'[op].life = "none"
           \/ \E h \in Hosts, seen \in 0 .. MaxBoot :
                 SaveDispatching(h, seen) /\ op = call[h]
<1>1. TypeOK /\ CallInv /\ StageInv /\ "none" \notin Pending
  BY DEF IInv, Pending
<1>2. ASSUME \/ \E h \in Hosts : OpenEngine(h)
             \/ \E h \in Hosts, o \in Ops : StartReconcile(h, o)
      PROVE  rows'[op].life = "none"
  BY <1>1, <1>2, OpenedKeeps DEF OpenEngine, StartReconcile
<1>3. ASSUME NEW h \in Hosts, NEW seen \in 0 .. MaxBoot, SaveDispatching(h, seen), op # call[h]
      PROVE  rows'[op].life = "none"
  BY <1>1, <1>3 DEF TypeOK, SaveDispatching
<1>4. ASSUME NEW h \in Hosts, NEW saved \in BOOLEAN,
             CancelRecorded(h, saved) \/ Finish(h, saved)
      PROVE  rows'[op].life = "none"
  <2>1. rows[call[h]].life = "dispatching"
    BY <1>1, <1>4 DEF StageInv, CancelRecorded, Finish
  <2>2. op # call[h]
    BY <2>1
  <2>3. rows'[op] = rows[op]
    BY <1>1, <1>4, <2>2 DEF TypeOK, CancelRecorded, Finish
  <2> QED
    BY <2>3
<1>5. ASSUME NEW h \in Hosts, NEW saved \in BOOLEAN,
             \/ \E now \in 0 .. MaxBoot : Reconcile(h, now, saved)
             \/ ReconcileFlush(h, saved)
      PROVE  rows'[op].life = "none"
  <2>1. rows' # rows => rows[call[h]].life \in Pending
    BY <1>5 DEF Reconcile, ReconcileFlush
  <2>2. rows'[op] = rows[op]
    BY <1>1, <1>5, <2>1 DEF TypeOK, Reconcile, ReconcileFlush
  <2> QED
    BY <2>2
<1>6. ASSUME NEW o \in Ops, Age(o) PROVE rows'[op].life = "none"
  BY <1>1, <1>6 DEF TypeOK, Receipts, Age
<1>7. CASE UNCHANGED rows
  BY <1>7
<1>8. CASE Next /\ rows' # rows
  <2>1. \/ \E h \in Hosts : OpenEngine(h)
        \/ \E h \in Hosts, o \in Ops : StartReconcile(h, o)
        \/ \E h \in Hosts, seen \in 0 .. MaxBoot : SaveDispatching(h, seen)
        \/ \E h \in Hosts, saved \in BOOLEAN : CancelRecorded(h, saved) \/ Finish(h, saved)
        \/ \E h \in Hosts, now \in 0 .. MaxBoot, saved \in BOOLEAN : Reconcile(h, now, saved)
        \/ \E h \in Hosts, saved \in BOOLEAN : ReconcileFlush(h, saved)
        \/ \E o \in Ops : Age(o)
    BY ZenonT(60), <1>8
     DEF Next, Call, Request, Machine, Prepare, PrepareFlush, Admit, Confirm,
         Revalidate, GiveUp, Spawn, CallFlush, DispatchFails, FlushReturns,
         Receive, ReceiveError, Kill, PostCheck, Recover, RecoverFails,
         WorkerChecks, WorkerDispatches, WorkerReplies, WorkerFails, NativeEnds,
         ExternalChange, Crash, Reboot
  <2> QED
    BY <2>1, <1>2, <1>3, <1>4, <1>5, <1>6
<1> QED
  BY <1>7, <1>8 DEF vars

LEMMA TableStart == Init => TableInv
<1> SUFFICES ASSUME Init PROVE TableInv
  OBVIOUS
<1>1. Held(rows) = {}
  BY DEF Init, NoReceipt, Held
<1> QED
  BY <1>1, FS_EmptySet, JournalCapAssumption DEF TableInv, JournalReadable

LEMMA TableKeeps ==
    ASSUME IInv, TableInv, [Next]_vars
    PROVE  TableInv'
<1>1. rows \in [Ops -> Receipts] /\ rows' \in [Ops -> Receipts]
  BY NextKeeps DEF IInv, TypeOK
<1>2. /\ Held(rows) = {op \in Ops : rows[op].life # "none"}
      /\ Held(rows') = {op \in Ops : rows'[op].life # "none"}
      /\ Held(rows)' = Held(rows')
  BY <1>1 DEF Held
<1>3. CASE \E h \in Hosts, seen \in 0 .. MaxBoot : SaveDispatching(h, seen)
  <2>1. PICK h \in Hosts : /\ CanSave(rows, call[h])
                           /\ \E seen \in 0 .. MaxBoot : SaveDispatching(h, seen)
    BY <1>3 DEF SaveDispatching
  <2>2. Held(rows') \subseteq Held(rows) \cup {call[h]}
    BY <1>1, <1>2, <2>1 DEF SaveDispatching
  <2>3. /\ IsFiniteSet(Held(rows) \cup {call[h]})
        /\ Cardinality(Held(rows) \cup {call[h]}) <= JournalCap
    <3>1. Cardinality(Held(rows)) \in Nat
      BY FS_CardinalityType DEF TableInv
    <3> QED
      BY <2>1, <3>1, FS_AddElement, JournalCapAssumption DEF TableInv, JournalReadable, CanSave
  <2>4. /\ IsFiniteSet(Held(rows'))
        /\ Cardinality(Held(rows')) <= Cardinality(Held(rows) \cup {call[h]})
    BY <2>2, <2>3, FS_Subset
  <2>5. Cardinality(Held(rows')) <= JournalCap
    BY <2>3, <2>4, FS_CardinalityType, JournalCapAssumption
  <2> QED
    BY <1>2, <2>4, <2>5 DEF TableInv, JournalReadable
<1>4. CASE ~\E h \in Hosts, seen \in 0 .. MaxBoot : SaveDispatching(h, seen)
  <2>1. Held(rows') \subseteq Held(rows)
    BY <1>2, <1>4, AbsentStays
  <2>2. /\ IsFiniteSet(Held(rows'))
        /\ Cardinality(Held(rows')) <= Cardinality(Held(rows))
    BY <2>1, FS_Subset DEF TableInv
  <2>3. Cardinality(Held(rows')) <= JournalCap
    BY <2>2, FS_CardinalityType, JournalCapAssumption DEF TableInv, JournalReadable
  <2> QED
    BY <1>2, <2>2, <2>3 DEF TableInv, JournalReadable
<1> QED
  BY <1>3, <1>4

\* The table of receipts never grows past what its readers accept, for any
\* capacity, however many operations there are.
THEOREM TableReadable == Spec => []JournalReadable
<1>1. TableInv => JournalReadable
  BY DEF TableInv
<1> QED
  BY Invariance, TableStart, TableKeeps, <1>1, PTL DEF Spec
=============================================================================
