--------------------------- MODULE ResourceSampling ---------------------------
(***************************************************************************)
(* A resource observation (Diagnostics::observe and summarize in           *)
(* src/diagnostics/mod.rs, Sampler::sample in sampler.rs): a reading is    *)
(* due at every slot, rates are differences of counters between readings,  *)
(* and the means of the summary weigh every rate by the time before it.    *)
(*                                                                         *)
(* Time is counted in ticks; a slot lasts Interval of them, a soft budget  *)
(* Budget.  One metric stands for all rates: its counter can be out of     *)
(* sight for a while (an interface that is gone, a process whose I/O       *)
(* cannot be read).  Point readings have no interval and are left out.     *)
(*                                                                         *)
(* Bounds: Slots, MaxStall ticks a stall may take, MaxTroubles stalls,     *)
(* slow readings, unreadable counters and changes of the wall clock.       *)
(***************************************************************************)
EXTENDS Integers, Sequences

CONSTANTS Slots, Interval, Budget, MaxStall, MaxTroubles

VARIABLES
    elapsed,    \* the monotonic clock
    slot,       \* the next reading, 0 .. Slots
    previous,   \* when the last point was taken
    late, resetNext,   \* the last reading was slow; the next is a baseline
    drift,      \* the wall clock disagrees with the monotonic one
    points,     \* what was recorded
    base, last, \* the sampler: when the counter it keeps was read, its last call
    status, troubles

sampler == <<base, last>>
vars == <<elapsed, slot, previous, late, resetNext, drift, points, sampler, status, troubles>>

\* A rate keeps how it was computed: the counter moved on since the tick
\* from, and the difference was divided by over ticks.
NoRate == [from |-> -1, over |-> 0]
Rates == {NoRate} \cup [from : Nat, over : Nat]
Reasons == {"none", "missed_sampling_slot", "clock_drift", "sleep_or_sampling_gap",
            "provider_soft_budget_exceeded"}
Points == [at : Nat, rate : Rates, reason : Reasons]

TypeOK ==
    /\ elapsed \in Nat /\ slot \in 0 .. Slots + 1 /\ previous \in Nat
    /\ late \in BOOLEAN /\ resetNext \in BOOLEAN /\ drift \in BOOLEAN
    /\ points \in Seq(Points)
    /\ Len(points) = slot /\ base \in Nat \cup {-1} /\ last \in Nat
    /\ status \in {"observing", "stopped", "complete"}

Init ==
    /\ elapsed = 0 /\ slot = 0 /\ previous = 0 /\ late = FALSE /\ resetNext = FALSE
    /\ drift = FALSE /\ points = <<>> /\ base = -1 /\ last = 0
    /\ status = "observing" /\ troubles = 0

Trouble == troubles < MaxTroubles /\ troubles' = troubles + 1
Calm == UNCHANGED troubles

Due == slot * Interval
Observing == status = "observing" /\ slot <= Slots

Wait ==
    /\ Observing /\ elapsed < Due /\ elapsed' = Due
    /\ UNCHANGED <<slot, previous, late, resetNext, drift, points, sampler, status>> /\ Calm

\* The host sleeps, or the thread is not scheduled.
Stall(ticks) ==
    /\ Observing /\ Trouble /\ elapsed' = elapsed + ticks
    /\ UNCHANGED <<slot, previous, late, resetNext, drift, points, sampler, status>>

WallClock ==
    /\ Observing /\ Trouble /\ drift' = ~drift
    /\ UNCHANGED <<elapsed, slot, previous, late, resetNext, points, sampler, status>>

\* More than 1.75 intervals.
TooLong(ticks) == 4 * ticks > 7 * Interval

\* slot_state
Missed == elapsed > Due + Interval
Gap == slot > 0 /\ TooLong(elapsed - previous)

MissSlot ==
    /\ Observing /\ elapsed >= Due /\ Missed
    /\ points' = Append(points, [at |-> Due, rate |-> NoRate,
                                 reason |-> "missed_sampling_slot"])
    /\ slot' = slot + 1
    /\ UNCHANGED <<elapsed, previous, late, resetNext, drift, sampler, status>> /\ Calm

Reason ==
    CASE drift -> "clock_drift"
      [] ~drift /\ Gap -> "sleep_or_sampling_gap"
      [] ~drift /\ ~Gap /\ late -> "provider_soft_budget_exceeded"
      [] OTHER -> "none"

\* A baseline sets the counters and reports no rate.
Baseline == slot = 0 \/ Gap \/ drift \/ resetNext

\* Sampler::sample: only a counter that was read replaces the one that is kept, but the
\* time of the call is kept always.
Rate(seen) ==
    IF Baseline \/ ~seen \/ base = -1 \/ elapsed = last THEN NoRate
    ELSE [from |-> base, over |-> elapsed - last]

Record(rate, spent) ==
    /\ points' = Append(points, [at |-> elapsed, rate |-> rate, reason |-> Reason])
    /\ slot' = slot + 1 /\ previous' = elapsed /\ elapsed' = elapsed + spent
    /\ late' = (spent > Budget) /\ resetNext' = (late \/ Gap \/ drift)
    /\ UNCHANGED <<drift, status>>

TakeSlot(seen, spent) ==
    /\ Observing /\ elapsed >= Due /\ ~Missed /\ ~late
    /\ IF seen /\ spent = 0 THEN Calm ELSE Trouble
    /\ base' = (IF seen THEN elapsed ELSE base) /\ last' = elapsed
    /\ Record(Rate(seen), spent)

\* After a slow reading one slot goes by without any.
SkipSlot ==
    /\ Observing /\ elapsed >= Due /\ ~Missed /\ late
    /\ Record(NoRate, 0)
    /\ UNCHANGED sampler /\ Calm

Cancel ==
    /\ Observing /\ status' = "stopped"
    /\ UNCHANGED <<elapsed, slot, previous, late, resetNext, drift, points, sampler>> /\ Calm

Complete ==
    /\ status = "observing" /\ slot = Slots + 1 /\ status' = "complete"
    /\ UNCHANGED <<elapsed, slot, previous, late, resetNext, drift, points, sampler>> /\ Calm

Next ==
    \/ Wait \/ WallClock \/ MissSlot \/ SkipSlot \/ Cancel \/ Complete
    \/ \E ticks \in 1 .. MaxStall : Stall(ticks)
    \/ \E seen \in BOOLEAN, spent \in {0, Budget + 1} : TakeSlot(seen, spent)

Spec == Init /\ [][Next]_vars

-----------------------------------------------------------------------------
\* Mutant: the point before need not have been taken in time.
WeighsAnyPair(i) ==
    /\ i > 1 /\ points[i].at > points[i - 1].at
    /\ ~TooLong(points[i].at - points[i - 1].at)
    /\ points[i].reason = "none"

\* summarize: the points whose value counts for the time since the one
\* before.  Both were taken in time, and not too far apart.
Weighs(i) ==
    /\ i > 1 /\ points[i].at > points[i - 1].at
    /\ ~TooLong(points[i].at - points[i - 1].at)
    /\ points[i].reason = "none" /\ points[i - 1].reason = "none"

RateWeighs(i) == Weighs(i) /\ points[i].rate # NoRate

\* The means rest on measured time: a rate weighs exactly as long as the time
\* it was divided by, and no two weights overlap, whatever slots were missed
\* or skipped, however long the host slept and the wall clock was changed.
MeansAreMeasured ==
    \A i \in 2 .. Len(points) :
        /\ points[i - 1].at <= points[i].at
        /\ RateWeighs(i) => points[i].rate.over = points[i].at - points[i - 1].at

\* A rate is what the counter moved in the interval it is divided by: the
\* metric's own definition calls it "adjacent actual monotonic interval".
RatesAreAdjacent ==
    \A i \in 1 .. Len(points) : points[i].rate # NoRate =>
        points[i].rate.from + points[i].rate.over = points[i].at

\* Why: the last point is not after the clock, nor after the slot that comes,
\* and one that was taken in time was taken by the sampler's last call.
Inductive ==
    /\ TypeOK /\ MeansAreMeasured
    /\ last <= elapsed
    /\ slot > 0 =>
          /\ points[slot].at <= elapsed /\ points[slot].at <= Due
          /\ points[slot].reason = "none" => points[slot].at = last
=============================================================================
