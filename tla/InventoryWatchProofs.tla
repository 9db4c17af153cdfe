-------------------------- MODULE InventoryWatchProofs --------------------------
(***************************************************************************)
(* Proofs about InventoryWatch, for any directories and files, any size of *)
(* the channel and of a batch, and any number of generations and troubles. *)
(*                                                                         *)
(* NoSilentStaleness is about ready directories only and is not inductive. *)
(* CoverInv says the same of every step of a thread that may still         *)
(* publish: what the records (while it scans: what it has read) do not     *)
(* show is on its way (Coming), in the batch it carries, still to be read, *)
(* or a full scan is owed.  It needs that such a thread is the one of the  *)
(* entry's Cancellation (GenInv), that one without a watcher owes a full   *)
(* scan (WatchInv), and that a ready directory's thread is back in its     *)
(* loop with nothing in hand (ReadyInv).                                   *)
(***************************************************************************)
EXTENDS InventoryWatch, TLAPS

\* The thread may still publish, as far as the entry's generation goes.
Alive(t) == gen[t[1]] = t[2] /\ t \notin cancelled

\* The channel says that something was lost.
Owed(t) == chan[t].lost \/ "rescan" \in InQueue(t) \/ "error" \in InQueue(t)

\* The thread will come to know of a change of f.
Coming(t, f) ==
    f \in chan[t].os \/ f \in InQueue(t) \/ Owed(t) \/ watcher[t] # "live"

\* What is known of a thread: it starts with nothing in hand,
Rest(t) ==
    pc[t] \in {"off", "subscribing"} =>
        watcher[t] = "none" /\ chan[t] = NoChan /\ job[t] = NewJob

\* a broken watcher calls for a full scan,
Carry(t) == job[t].carried.broken => job[t].carried.rescan

\* and so does one that is not there;
Watch(t) ==
    pc[t] \in {"loop", "waiting", "scanning"} /\ watcher[t] = "none" => job[t].full

\* and what the records, or the scan so far, do not show is not forgotten.
Cover(t) ==
    Alive(t) =>
        /\ pc[t] \in {"loop", "waiting"} /\ ~job[t].full => snapshot[t[1]] \in Contents
        /\ \A f \in Files :
              /\ pc[t] = "loop" =>
                    \/ job[t].full \/ f \in job[t].carried.paths \/ job[t].carried.rescan
                    \/ snapshot[t[1]][f] = disk[t[1]][f] \/ Coming(t, f)
              /\ pc[t] = "waiting" =>
                    \/ job[t].full \/ f \in job[t].todo
                    \/ snapshot[t[1]][f] = disk[t[1]][f] \/ Coming(t, f)
              /\ pc[t] = "scanning" =>
                    \/ f \in job[t].todo
                    \/ job[t].seen[f] = disk[t[1]][f] \/ Coming(t, f)

Own(t) == Rest(t) /\ Carry(t) /\ Watch(t) /\ Cover(t)

\* The newest generation that has a Cancellation is the newest with a thread.
GenInv ==
    /\ \A d \in Dirs : token[d] <= gen[d]
    /\ \A t \in Threads : t[2] > token[t[1]] => pc[t] = "off" /\ t \notin cancelled

\* A directory that is shown as ready, or as being built, has its thread; that
\* of a ready one is back in its loop with nothing in hand.
Shown(d) ==
    state[d] \in {"building", "ready"} /\ ~closed /\ d \notin unremoved =>
        /\ Latest(d) \in Threads /\ token[d] = gen[d]
        /\ Latest(d) \notin cancelled /\ pc[Latest(d)] # "off"
        /\ state[d] = "ready" =>
              /\ pc[Latest(d)] = "loop" /\ ~job[Latest(d)].backoff
              /\ job[Latest(d)].carried.paths = {} /\ ~job[Latest(d)].carried.rescan

IInv ==
    /\ TypeOK
    /\ \A t \in Threads : Own(t)
    /\ GenInv
    /\ \A d \in Dirs : Shown(d)

-----------------------------------------------------------------------------
(* The channel and the batches. *)

\* A thread is its directory and its generation.
LEMMA ThreadIs ==
    ASSUME NEW t \in Threads
    PROVE  /\ t[1] \in Dirs /\ t[2] \in 1 .. MaxGen /\ t = <<t[1], t[2]>>
           /\ Latest(t[1]) = t <=> gen[t[1]] = t[2]
  BY DEF Threads, Latest

\* What try_send cannot put into the channel sets its flag; nothing else goes.
LEMMA EnqueuedKeeps ==
    ASSUME NEW c \in Chans, NEW e \in Files \cup {"rescan", "error"}
    PROVE  LET new == Enqueued(c, e)
               was == {c.queue[i] : i \in DOMAIN c.queue}
               now == {new.queue[i] : i \in DOMAIN new.queue}
           IN  /\ new \in Chans /\ new.os = c.os
               /\ Len(c.queue) <= QueueCap => Len(new.queue) <= QueueCap
               /\ was \subseteq now /\ (c.lost => new.lost)
               /\ e \in now \/ new.lost
<1> DEFINE new == Enqueued(c, e)
<1>1. c.queue \in Seq(Files \cup {"rescan", "error"}) /\ c.os \subseteq Files /\ c.lost \in BOOLEAN
  BY DEF Chans
<1>2. CASE Len(c.queue) < QueueCap
  <2>1. new = [c EXCEPT !.queue = Append(c.queue, e)]
    BY <1>2 DEF Enqueued
  <2>2. /\ Append(c.queue, e) \in Seq(Files \cup {"rescan", "error"})
        /\ Len(Append(c.queue, e)) = Len(c.queue) + 1
        /\ \A i \in 1 .. Len(c.queue) : Append(c.queue, e)[i] = c.queue[i]
        /\ Append(c.queue, e)[Len(c.queue) + 1] = e
        /\ DOMAIN c.queue = 1 .. Len(c.queue)
        /\ DOMAIN Append(c.queue, e) = 1 .. Len(c.queue) + 1
        /\ Len(c.queue) \in Nat
    BY <1>1
  <2>3. ASSUME NEW q \in Seq(Files \cup {"rescan", "error"})
        PROVE  LET n == [c EXCEPT !.queue = q]
               IN  n \in Chans /\ n.os = c.os /\ n.lost = c.lost /\ n.queue = q
    BY DEF Chans
  <2>4. new \in Chans /\ new.os = c.os /\ new.lost = c.lost /\ new.queue = Append(c.queue, e)
    BY <2>1, <2>2, <2>3
  <2> HIDE DEF new
  <2>5. Len(c.queue) <= QueueCap => Len(new.queue) <= QueueCap
    BY <1>2, <2>2, <2>4, BoundsAssumption
  <2>6. DOMAIN new.queue = 1 .. Len(c.queue) + 1 /\ DOMAIN c.queue \subseteq DOMAIN new.queue
    BY <2>2, <2>4
  <2>7. \A i \in DOMAIN c.queue : new.queue[i] = c.queue[i]
    BY <2>2, <2>4
  <2>8. {c.queue[i] : i \in DOMAIN c.queue} \subseteq {new.queue[i] : i \in DOMAIN new.queue}
    BY <2>6, <2>7
  <2>9. e \in {new.queue[i] : i \in DOMAIN new.queue}
    BY <2>2, <2>4, <2>6
  <2> QED
    BY <2>4, <2>5, <2>8, <2>9 DEF new
<1>3. CASE ~(Len(c.queue) < QueueCap)
  <2>1. new = [c EXCEPT !.lost = TRUE]
    BY <1>3 DEF Enqueued
  <2> QED
    BY <1>1, <2>1 DEF Chans
<1> QED
  BY <1>2, <1>3

\* What drain and merge make of a channel: nothing is forgotten.
LEMMA BatchHolds ==
    ASSUME TypeOK, NEW t \in Threads, Carry(t)
    PROVE  /\ Drained(t) \in Batches /\ Batch(t) \in Batches
           /\ Drained(t).broken => Drained(t).rescan
           /\ Batch(t).broken => Batch(t).rescan
           /\ Owed(t) => Drained(t).rescan /\ Batch(t).rescan
           /\ job[t].carried.rescan => Batch(t).rescan
           /\ \A f \in Files :
                 /\ f \in InQueue(t) => f \in Drained(t).paths \/ Drained(t).rescan
                 /\ f \in InQueue(t) \/ f \in job[t].carried.paths
                      => f \in Batch(t).paths \/ Batch(t).rescan
<1>1. /\ chan[t].lost \in BOOLEAN /\ job[t].carried \in Batches
      /\ job[t].carried.broken => job[t].carried.rescan
  BY DEF TypeOK, Chans, Jobs, Carry
<1> DEFINE paths == InQueue(t) \cap Files
           full == \/ chan[t].lost
                   \/ InQueue(t) \cap {"rescan", "error"} # {}
                   \/ Cardinality(paths) > BatchCap
<1>2. /\ Drained(t).paths = IF full THEN {} ELSE paths
      /\ Drained(t).rescan = full
      /\ Drained(t).broken = ("error" \in InQueue(t))
      /\ Drained(t) \in Batches
  BY DEF Drained, Batches
<1>3. /\ Drained(t) \in Batches
      /\ Drained(t).broken => Drained(t).rescan
      /\ Owed(t) => Drained(t).rescan
      /\ \A f \in Files : f \in InQueue(t) => f \in Drained(t).paths \/ Drained(t).rescan
  BY <1>2 DEF Owed
<1>4. ASSUME NEW a \in Batches, NEW b \in Batches
      PROVE  /\ Merged(a, b) \in Batches
             /\ Merged(a, b).rescan <=> \/ a.rescan \/ b.rescan
                                        \/ Cardinality(a.paths \cup b.paths) > BatchCap
             /\ Merged(a, b).broken <=> a.broken \/ b.broken
             /\ \A f \in a.paths \cup b.paths : f \in Merged(a, b).paths \/ Merged(a, b).rescan
  BY DEF Merged, Batches
<1>5. Batch(t) = Merged(job[t].carried, Drained(t))
  BY DEF Batch
<1> DEFINE was == job[t].carried
           new == Drained(t)
<1>6. was \in Batches /\ new \in Batches /\ Batch(t) = Merged(was, new)
  BY <1>1, <1>3, <1>5
<1> HIDE DEF was, new
<1>7. /\ Batch(t) \in Batches
      /\ was.rescan \/ new.rescan => Batch(t).rescan
      /\ Batch(t).broken <=> was.broken \/ new.broken
      /\ \A f \in was.paths \cup new.paths : f \in Batch(t).paths \/ Batch(t).rescan
  BY <1>4, <1>6
<1> QED
  BY <1>1, <1>3, <1>7 DEF was, new

\* A channel that was drained.
LEMMA FreshChan ==
    ASSUME NEW os \in SUBSET Files
    PROVE  LET c == [NoChan EXCEPT !.os = os]
           IN  c \in Chans /\ c.os = os /\ Len(c.queue) <= QueueCap
<1>1. NoChan \in Chans /\ Len(NoChan.queue) <= QueueCap
  BY BoundsAssumption DEF NoChan, Chans
<1>2. ASSUME NEW c \in Chans
      PROVE  LET n == [c EXCEPT !.os = os]
             IN  n \in Chans /\ n.os = os /\ n.queue = c.queue
  BY DEF Chans
<1> QED
  BY <1>1, <1>2

\* A thread that starts has nothing in hand.
LEMMA FreshJob ==
    /\ NewJob \in Jobs /\ NewJob.carried = NoBatch /\ NewJob.full
    /\ ~NewJob.backoff /\ NewJob.todo = {} /\ NoBatch \in Batches
    /\ NoBatch.paths = {} /\ ~NoBatch.rescan /\ ~NoBatch.broken
<1>1. Empty \in Contents /\ NoBatch \in Batches
  BY BoundsAssumption DEF Empty, Contents, NoBatch, Batches
<1> QED
  BY <1>1 DEF NewJob, Jobs, NoBatch

-----------------------------------------------------------------------------
(* What a step leaves alone. *)

\* The step changes nothing but the thread t and the entry of its directory.
StepOf(t) ==
    /\ pc' = [pc EXCEPT ![t] = pc'[t]] /\ watcher' = [watcher EXCEPT ![t] = watcher'[t]]
    /\ chan' = [chan EXCEPT ![t] = chan'[t]] /\ job' = [job EXCEPT ![t] = job'[t]]
    /\ state' = [state EXCEPT ![t[1]] = state'[t[1]]]
    /\ snapshot' = [snapshot EXCEPT ![t[1]] = snapshot'[t[1]]]
    /\ UNCHANGED <<gen, token, cancelled, closed, stored, used, disk, allowed, unremoved>>

\* The type of what it changes.
OwnTyped(t) ==
    /\ pc[t] \in {"off", "subscribing", "loop", "waiting", "scanning"}
    /\ watcher[t] \in {"none", "live", "deaf"}
    /\ chan[t] \in Chans /\ Len(chan[t].queue) <= QueueCap
    /\ job[t] \in Jobs
    /\ state[t[1]] \in {"none", "pending", "building", "ready", "unavailable", "damaged"}
    /\ snapshot[t[1]] \in Snapshots /\ db \in [Dirs -> Snapshots]
    /\ troubles \in 0 .. MaxTroubles

LEMMA TypedOf ==
    ASSUME TypeOK, NEW t \in Threads
    PROVE  OwnTyped(t)
  BY ThreadIs DEF TypeOK, OwnTyped

\* A thread that is not touched keeps what is known of it, as long as it is not
\* brought back to life and nobody else publishes.
LEMMA Untouched ==
    ASSUME NEW u \in Threads, Own(u),
           pc'[u] = pc[u], watcher'[u] = watcher[u], chan'[u] = chan[u], job'[u] = job[u],
           disk'[u[1]] = disk[u[1]],
           Alive(u)' => Alive(u) /\ snapshot'[u[1]] = snapshot[u[1]]
    PROVE  Own(u)'
<1>1. Rest(u)' /\ Carry(u)' /\ Watch(u)'
  BY DEF Own, Rest, Carry, Watch
<1>2. \A f \in Files : Coming(u, f)' = Coming(u, f)
  BY DEF Coming, Owed, InQueue
<1>3. Cover(u)'
  BY <1>2 DEF Own, Cover
<1> QED
  BY <1>1, <1>3 DEF Own

\* A step of one thread has to be looked at there, and at its directory.
LEMMA OfOneThread ==
    ASSUME IInv, NEW t \in Threads, StepOf(t), OwnTyped(t)', Own(t)', Shown(t[1])',
           pc'[t] # "off" => pc[t] # "off",
           snapshot' = snapshot \/ gen[t[1]] = t[2]
    PROVE  IInv'
<1> USE DEF StepOf
<1>0. t[1] \in Dirs
  BY ThreadIs
<1>1. TypeOK'
  BY ZenonT(60), <1>0 DEF IInv, TypeOK, OwnTyped
<1>2. \A u \in Threads \ {t} : pc'[u] = pc[u] /\ watcher'[u] = watcher[u]
                               /\ chan'[u] = chan[u] /\ job'[u] = job[u]
  BY DEF IInv, TypeOK
<1>3. ASSUME NEW u \in Threads
      PROVE  Own(u)'
  <2>1. CASE u = t
    BY <2>1
  <2>2. CASE u # t
    <3>1. Alive(u)' <=> Alive(u)
      BY DEF Alive
    <3>2. Alive(u) => snapshot'[u[1]] = snapshot[u[1]]
      <4>1. CASE u[1] = t[1]
        BY <2>2, <4>1, ThreadIs DEF Alive
      <4>2. CASE u[1] # t[1]
        BY <4>2, ThreadIs DEF IInv, TypeOK
      <4> QED
        BY <4>1, <4>2
    <3> QED
      BY <1>2, <2>2, <3>1, <3>2, Untouched DEF IInv
  <2> QED
    BY <2>1, <2>2
<1>4. GenInv'
  BY <1>2 DEF IInv, GenInv
<1>5. ASSUME NEW d \in Dirs
      PROVE  Shown(d)'
  <2>1. CASE d = t[1]
    BY <2>1
  <2>2. CASE d # t[1]
    <3>1. Latest(d) # t /\ Latest(d)' = Latest(d)
      BY <2>2, ThreadIs DEF Latest
    <3>2. state'[d] = state[d]
      BY <2>2 DEF IInv, TypeOK
    <3> QED
      BY <1>2, <3>1, <3>2 DEF IInv, Shown
  <2> QED
    BY <2>1, <2>2
<1> QED
  BY <1>1, <1>3, <1>4, <1>5 DEF IInv

\* The directory of the thread is still shown truly if its status does not
\* change, the thread does not leave, and one that waits for events goes on
\* waiting.
LEMMA ShownStill ==
    ASSUME IInv, NEW t \in Threads, StepOf(t), state'[t[1]] = state[t[1]],
           Current(t) /\ pc[t] # "off" => pc'[t] # "off",
           Current(t) /\ pc[t] = "loop" /\ ~job[t].backoff =>
               pc'[t] = "loop" /\ ~job'[t].backoff /\ job'[t].carried = job[t].carried
    PROVE  Shown(t[1])'
<1> DEFINE d == t[1]
<1>1. d \in Dirs /\ Shown(d)
  BY ThreadIs DEF IInv
<1>2. Latest(d)' = Latest(d) /\ UNCHANGED <<gen, token, cancelled, closed, unremoved>>
  BY DEF StepOf, Latest
<1>3. CASE Latest(d) = t
  <2>1. t \notin cancelled /\ state[d] # "none" => Current(t)
    BY <1>1, <1>3, ThreadIs DEF Current
  <2> QED
    BY <1>1, <1>2, <1>3, <2>1 DEF Shown
<1>4. CASE Latest(d) # t
  <2>1. Latest(d) \in Threads =>
            pc'[Latest(d)] = pc[Latest(d)] /\ job'[Latest(d)] = job[Latest(d)]
    BY <1>4 DEF StepOf, IInv, TypeOK
  <2> QED
    BY <1>1, <1>2, <2>1 DEF Shown
<1> QED
  BY <1>3, <1>4

-----------------------------------------------------------------------------
(* The initial states, and the steps of a thread. *)

LEMMA InitInv == Init => IInv
<1> SUFFICES ASSUME Init PROVE IInv
  OBVIOUS
<1>1. NoChan \in Chans /\ Len(NoChan.queue) <= QueueCap
  BY BoundsAssumption DEF NoChan, Chans
<1>2. [f \in Files |-> IF f \in Present THEN 1 ELSE 0] \in Contents
  BY BoundsAssumption DEF Contents
<1>3. TypeOK
  <2>1. chan \in [Threads -> Chans] /\ \A t \in Threads : Len(chan[t].queue) <= QueueCap
    BY <1>1 DEF Init
  <2>2. job \in [Threads -> Jobs] /\ disk \in [Dirs -> Contents]
    BY <1>2, FreshJob DEF Init
  <2>3. snapshot \in [Dirs -> Snapshots] /\ db \in [Dirs -> Snapshots]
    BY DEF Init, Snapshots
  <2>4. /\ gen \in [Dirs -> 0 .. MaxGen] /\ token \in [Dirs -> 0 .. MaxGen]
        /\ troubles \in 0 .. MaxTroubles
    BY BoundsAssumption DEF Init
  <2>5. allowed \in [Dirs -> BOOLEAN] /\ closed \in BOOLEAN
    BY DEF Init
  <2> QED
    BY <2>1, <2>2, <2>3, <2>4, <2>5 DEF Init, TypeOK
<1>4. \A t \in Threads : Own(t)
  BY FreshJob DEF Init, Own, Rest, Carry, Watch, Cover
<1>5. GenInv /\ \A d \in Dirs : Shown(d)
  BY DEF Init, GenInv, Shown, Threads
<1> QED
  BY <1>3, <1>4, <1>5 DEF IInv

\* A thread that has begun and may still publish has the entry's Cancellation.
LEMMA CurrentHasToken ==
    ASSUME IInv, NEW t \in Threads, pc[t] # "off", Current(t)
    PROVE  /\ Latest(t[1]) = t /\ token[t[1]] = gen[t[1]] /\ gen[t[1]] = t[2]
           /\ t \notin cancelled /\ Alive(t)
<1>1. t[1] \in Dirs /\ t[2] \in Nat /\ gen[t[1]] \in Nat /\ token[t[1]] \in Nat
  BY ThreadIs, BoundsAssumption DEF IInv, TypeOK
<1> QED
  BY <1>1, ThreadIs DEF IInv, GenInv, Current, Alive

LEMMA SubscribeKeeps ==
    ASSUME IInv, NEW t \in Threads, NEW ok \in BOOLEAN, Subscribe(t, ok)
    PROVE  IInv'
<1>1. OwnTyped(t) /\ Own(t) /\ t[1] \in Dirs /\ Shown(t[1])
  BY TypedOf, ThreadIs DEF IInv
<1>2. /\ pc'[t] = "loop" /\ watcher'[t] \in {"live", "none"}
      /\ chan'[t] = chan[t] /\ job'[t] = job[t] /\ job[t] = NewJob
      /\ UNCHANGED <<state, snapshot, db, gen, token, cancelled, closed, unremoved, disk>>
  BY <1>1 DEF Subscribe, IInv, TypeOK, Own, Rest, entries, durable, world
<1>3. StepOf(t)
  BY DEF Subscribe, IInv, TypeOK, StepOf, entries, durable, world
<1>4. OwnTyped(t)'
  BY <1>1, <1>2, BoundsAssumption DEF OwnTyped, Subscribe, Trouble
<1>5. Own(t)'
  BY <1>1, <1>2 DEF Own, Rest, Carry, Watch, Cover, NewJob
<1>6. Shown(t[1])'
  BY <1>2, <1>3, ShownStill DEF Subscribe
<1> QED
  BY <1>1, <1>2, <1>3, <1>4, <1>5, <1>6, OfOneThread DEF Subscribe

LEMMA BackOffKeeps ==
    ASSUME IInv, NEW t \in Threads, BackOff(t)
    PROVE  IInv'
<1> DEFINE batch == Batch(t)
<1>1. OwnTyped(t) /\ Own(t) /\ t[1] \in Dirs /\ Shown(t[1])
  BY TypedOf, ThreadIs DEF IInv
<1>2. /\ batch \in Batches
      /\ Owed(t) \/ batch.broken \/ job[t].carried.rescan => batch.rescan
      /\ \A f \in Files : f \in InQueue(t) \/ f \in job[t].carried.paths
                             => f \in batch.paths \/ batch.rescan
  BY <1>1, BatchHolds DEF IInv, Own
<1> HIDE DEF batch
<1>3. /\ pc[t] = "loop" /\ pc'[t] = "loop" /\ job[t].backoff
      /\ watcher'[t] = (IF batch.broken THEN "none" ELSE watcher[t])
      /\ chan'[t] = [NoChan EXCEPT !.os = IF watcher'[t] = "live" THEN chan[t].os ELSE {}]
      /\ job'[t] = [job[t] EXCEPT !.carried = NoBatch,
                                  !.full = job[t].full \/ batch.rescan \/ batch.paths # {}]
      /\ UNCHANGED <<state, snapshot, db, gen, token, cancelled, closed, unremoved, disk, troubles>>
  BY <1>1 DEF BackOff, Emptied, IInv, TypeOK, entries, durable, world, batch
<1>4. StepOf(t)
  BY <1>3 DEF BackOff, Emptied, IInv, TypeOK, StepOf, entries, durable, world
<1>5. /\ chan'[t] \in Chans /\ Len(chan'[t].queue) <= QueueCap
      /\ chan'[t].os = (IF watcher'[t] = "live" THEN chan[t].os ELSE {})
  <2> DEFINE os == IF watcher'[t] = "live" THEN chan[t].os ELSE {}
  <2>1. os \in SUBSET Files /\ chan'[t] = [NoChan EXCEPT !.os = os]
    BY <1>1, <1>3 DEF OwnTyped, Chans
  <2> HIDE DEF os
  <2>2. chan'[t] \in Chans /\ Len(chan'[t].queue) <= QueueCap /\ chan'[t].os = os
    BY <2>1, FreshChan
  <2> QED
    BY <2>2 DEF os
<1>6. /\ job'[t] \in Jobs /\ job'[t].carried = NoBatch /\ job'[t].backoff = job[t].backoff
      /\ job'[t].full <=> job[t].full \/ batch.rescan \/ batch.paths # {}
  <2>1. job[t] \in Jobs /\ NoBatch \in Batches
    BY <1>1, FreshJob DEF OwnTyped
  <2> QED
    BY ZenonT(60), <1>3, <2>1 DEF Jobs
<1>7. OwnTyped(t)'
  BY <1>1, <1>3, <1>5, <1>6 DEF OwnTyped
<1>8. Own(t)'
  <2>1. Alive(t)' => Alive(t)
    BY <1>3 DEF Alive
  <2>2. Rest(t)' /\ Carry(t)' /\ Watch(t)'
    BY <1>1, <1>2, <1>3, <1>6 DEF Own, Rest, Carry, Watch, NoBatch
  <2>3. Cover(t)'
    BY <1>1, <1>2, <1>3, <1>5, <1>6, <2>1 DEF Own, Cover, Coming, Watch
  <2> QED
    BY <2>2, <2>3 DEF Own
<1>9. Shown(t[1])'
  BY <1>3, <1>4, ShownStill
<1> QED
  BY <1>3, <1>4, <1>7, <1>8, <1>9, OfOneThread

LEMMA BeginKeeps ==
    ASSUME IInv, NEW t \in Threads, NEW ok \in BOOLEAN, Begin(t, ok)
    PROVE  IInv'
<1> DEFINE batch == Batch(t)
           broken == batch.broken \/ watcher[t] = "none"
<1>1. OwnTyped(t) /\ Own(t) /\ t[1] \in Dirs
  BY TypedOf, ThreadIs DEF IInv
<1>2. /\ batch \in Batches /\ NoBatch \in Batches
      /\ Owed(t) \/ batch.broken \/ job[t].carried.rescan => batch.rescan
      /\ \A f \in Files : f \in InQueue(t) \/ f \in job[t].carried.paths
                             => f \in batch.paths \/ batch.rescan
  BY <1>1, BatchHolds, FreshJob DEF IInv, Own
<1> HIDE DEF batch
<1>3. /\ pc[t] = "loop" /\ pc'[t] = "waiting" /\ Current(t)
      /\ watcher'[t] = (IF ~broken THEN watcher[t] ELSE IF ok THEN "live" ELSE "none")
      /\ chan'[t] = [NoChan EXCEPT !.os = IF ~broken THEN chan[t].os ELSE {}]
      /\ job'[t] = [job[t] EXCEPT !.carried = NoBatch, !.full = job[t].full \/ batch.rescan,
                                  !.todo = batch.paths]
      /\ state'[t[1]] = "building" /\ troubles' \in 0 .. MaxTroubles
      /\ UNCHANGED <<snapshot, db, gen, token, cancelled, closed, unremoved, disk>>
  <2>1. troubles' \in 0 .. MaxTroubles
    BY <1>1, BoundsAssumption DEF Begin, Trouble, OwnTyped
  <2> QED
    BY <1>1, <2>1 DEF Begin, Emptied, IInv, TypeOK, entries, durable, world, batch
<1>4. StepOf(t)
  <2>1. job' = [job EXCEPT ![t] = job'[t]]
    <3>1. \E j : job' = [job EXCEPT ![t] = j]
      BY DEF Begin
    <3> QED
      BY <3>1 DEF IInv, TypeOK
  <2>2. watcher' = [watcher EXCEPT ![t] = watcher'[t]] /\ chan' = [chan EXCEPT ![t] = chan'[t]]
    BY <1>3 DEF Begin, Emptied, IInv, TypeOK
  <2>3. state' = [state EXCEPT ![t[1]] = "building"] /\ pc' = [pc EXCEPT ![t] = "waiting"]
    BY DEF Begin
  <2>4. /\ snapshot' = [snapshot EXCEPT ![t[1]] = snapshot'[t[1]]]
        /\ UNCHANGED <<gen, token, cancelled, closed, stored, used, disk, allowed, unremoved>>
    BY <1>1, <1>3 DEF Begin, IInv, TypeOK, durable, world
  <2> QED
    BY <1>3, <2>1, <2>2, <2>3, <2>4 DEF StepOf
<1>5. /\ chan'[t] \in Chans /\ Len(chan'[t].queue) <= QueueCap
      /\ chan'[t].os = (IF ~broken THEN chan[t].os ELSE {})
  <2> DEFINE os == IF ~broken THEN chan[t].os ELSE {}
  <2>1. os \in SUBSET Files /\ chan'[t] = [NoChan EXCEPT !.os = os]
    BY <1>1, <1>3 DEF OwnTyped, Chans
  <2> HIDE DEF os
  <2>2. chan'[t] \in Chans /\ Len(chan'[t].queue) <= QueueCap /\ chan'[t].os = os
    BY <2>1, FreshChan
  <2> QED
    BY <2>2 DEF os
<1>6. /\ job'[t] \in Jobs /\ job'[t].carried = NoBatch /\ job'[t].todo = batch.paths
      /\ job'[t].full <=> job[t].full \/ batch.rescan
  <2>1. job[t] \in Jobs /\ batch.paths \in SUBSET Files
    BY <1>1, <1>2 DEF OwnTyped, Batches
  <2> QED
    BY <1>2, <1>3, <2>1 DEF Jobs
<1>7. OwnTyped(t)'
  BY <1>1, <1>3, <1>5, <1>6 DEF OwnTyped
<1>8. Own(t)'
  <2>1. Alive(t)' => Alive(t)
    BY <1>3 DEF Alive
  <2>2. Rest(t)' /\ Carry(t)' /\ Watch(t)'
    BY <1>1, <1>2, <1>3, <1>6, FreshJob DEF Own, Rest, Carry, Watch
  <2>3. Cover(t)'
    BY <1>1, <1>2, <1>3, <1>5, <1>6, <2>1 DEF Own, Cover, Coming, Watch
  <2> QED
    BY <2>2, <2>3 DEF Own
<1>9. Shown(t[1])'
  BY <1>3, <1>4, CurrentHasToken DEF Shown, StepOf, Latest
<1> QED
  BY <1>3, <1>4, <1>7, <1>8, <1>9, OfOneThread

LEMMA StartScanKeeps ==
    ASSUME IInv, NEW t \in Threads, NEW whole \in BOOLEAN, StartScan(t, whole)
    PROVE  IInv'
<1> DEFINE full == job[t].full \/ whole \/ snapshot[t[1]] = NoRecords
<1>1. OwnTyped(t) /\ Own(t) /\ t[1] \in Dirs
  BY TypedOf, ThreadIs DEF IInv
<1>2. /\ pc[t] = "waiting" /\ pc'[t] = "scanning"
      /\ watcher'[t] = watcher[t] /\ chan'[t] = chan[t]
      /\ job'[t] = [job[t] EXCEPT !.full = full, !.todo = IF full THEN Files ELSE job[t].todo,
                                  !.seen = IF full THEN Empty ELSE snapshot[t[1]]]
      /\ UNCHANGED <<state, snapshot, db, gen, token, cancelled, closed, unremoved, disk, troubles>>
  BY <1>1 DEF StartScan, IInv, TypeOK, entries, durable, world
<1>3. StepOf(t)
  <2>1. \E j : job' = [job EXCEPT ![t] = j]
    BY DEF StartScan
  <2>2. job' = [job EXCEPT ![t] = job'[t]]
    BY <2>1 DEF IInv, TypeOK
  <2> QED
    BY <1>1, <1>2, <2>2 DEF StartScan, IInv, TypeOK, StepOf, entries, durable, world
<1>4. /\ job'[t] \in Jobs /\ job'[t].carried = job[t].carried
      /\ job'[t].full <=> full
      /\ full => job'[t].todo = Files
      /\ ~full => job'[t].todo = job[t].todo /\ job'[t].seen = snapshot[t[1]]
  <2>1. job[t] \in Jobs /\ Empty \in Contents /\ (~full => snapshot[t[1]] \in Contents)
    BY <1>1, BoundsAssumption DEF OwnTyped, Snapshots, Empty, Contents
  <2>2. CASE full
    <3>1. job'[t] = [job[t] EXCEPT !.full = TRUE, !.todo = Files, !.seen = Empty]
      BY <1>2, <2>2
    <3> QED
      BY <2>1, <2>2, <3>1 DEF Jobs
  <2>3. CASE ~full
    <3>1. job'[t] = [job[t] EXCEPT !.full = FALSE, !.todo = job[t].todo, !.seen = snapshot[t[1]]]
      BY <1>2, <2>3
    <3> QED
      BY <2>1, <2>3, <3>1 DEF Jobs
  <2> QED
    BY <2>2, <2>3
<1> HIDE DEF full
<1>5. OwnTyped(t)'
  BY <1>1, <1>2, <1>4 DEF OwnTyped
<1>6. Own(t)'
  <2>1. /\ Alive(t)' => Alive(t)
        /\ \A f \in Files : Coming(t, f) => Coming(t, f)'
    BY <1>2 DEF Alive, Coming, Owed, InQueue
  <2>2. Rest(t)' /\ Carry(t)' /\ Watch(t)'
    BY <1>1, <1>2, <1>4 DEF Own, Rest, Carry, Watch, full
  <2>3. Cover(t)'
    BY <1>1, <1>2, <1>4, <2>1 DEF Own, Cover, full
  <2> QED
    BY <2>2, <2>3 DEF Own
<1>7. Shown(t[1])'
  BY <1>2, <1>3, ShownStill
<1> QED
  BY <1>2, <1>3, <1>5, <1>6, <1>7, OfOneThread

LEMMA ReadFileKeeps ==
    ASSUME IInv, NEW t \in Threads, NEW f \in Files, ReadFile(t, f)
    PROVE  IInv'
<1>1. OwnTyped(t) /\ Own(t) /\ t[1] \in Dirs
  BY TypedOf, ThreadIs DEF IInv
<1>2. /\ pc[t] = "scanning" /\ pc'[t] = "scanning"
      /\ watcher'[t] = watcher[t] /\ chan'[t] = chan[t]
      /\ job'[t] = [job[t] EXCEPT !.todo = job[t].todo \ {f},
                                  !.seen = [job[t].seen EXCEPT ![f] = disk[t[1]][f]]]
      /\ UNCHANGED <<state, snapshot, db, gen, token, cancelled, closed, unremoved, disk, troubles>>
  BY <1>1 DEF ReadFile, IInv, TypeOK, Jobs, entries, durable, world
<1>3. StepOf(t)
  BY ZenonT(60), <1>1, <1>2 DEF ReadFile, IInv, TypeOK, StepOf, entries, durable, world
<1>4. /\ job'[t] \in Jobs /\ job'[t].carried = job[t].carried /\ job'[t].full = job[t].full
      /\ job'[t].todo = job[t].todo \ {f} /\ job'[t].seen[f] = disk[t[1]][f]
      /\ \A g \in Files \ {f} : job'[t].seen[g] = job[t].seen[g]
  <2> DEFINE seen == [job[t].seen EXCEPT ![f] = disk[t[1]][f]]
  <2>1. job[t] \in Jobs /\ seen \in Contents /\ seen[f] = disk[t[1]][f]
        /\ \A g \in Files \ {f} : seen[g] = job[t].seen[g]
    BY <1>1 DEF IInv, TypeOK, Jobs, Contents
  <2>2. job'[t] = [job[t] EXCEPT !.todo = job[t].todo \ {f}, !.seen = seen]
    BY <1>2
  <2> HIDE DEF seen
  <2> QED
    BY <2>1, <2>2 DEF Jobs
<1>5. OwnTyped(t)'
  BY <1>1, <1>2, <1>4 DEF OwnTyped
<1>6. Own(t)'
  <2>1. /\ Alive(t)' => Alive(t)
        /\ \A g \in Files : Coming(t, g) => Coming(t, g)'
    BY <1>2 DEF Alive, Coming, Owed, InQueue
  <2>2. Rest(t)' /\ Carry(t)' /\ Watch(t)'
    BY <1>1, <1>2, <1>4 DEF Own, Rest, Carry, Watch
  <2>3. Cover(t)'
    BY <1>1, <1>2, <1>4, <2>1 DEF Own, Cover
  <2> QED
    BY <2>2, <2>3 DEF Own
<1>7. Shown(t[1])'
  BY <1>2, <1>3, ShownStill
<1> QED
  BY <1>2, <1>3, <1>5, <1>6, <1>7, OfOneThread

LEMMA PublishKeeps ==
    ASSUME IInv, NEW t \in Threads, Publish(t)
    PROVE  IInv'
<1> DEFINE batch == Drained(t)
<1>1. OwnTyped(t) /\ Own(t) /\ t[1] \in Dirs
  BY TypedOf, ThreadIs DEF IInv
<1>2. /\ batch \in Batches
      /\ Owed(t) \/ batch.broken => batch.rescan
      /\ \A f \in Files : f \in InQueue(t) => f \in batch.paths \/ batch.rescan
  BY <1>1, BatchHolds DEF IInv, Own
<1>3. /\ pc[t] = "scanning" /\ pc'[t] = "loop" /\ Current(t) /\ job[t].todo = {}
      /\ watcher'[t] = (IF batch.broken THEN "none" ELSE watcher[t])
      /\ chan'[t] = [NoChan EXCEPT !.os = IF watcher'[t] = "live" THEN chan[t].os ELSE {}]
      /\ snapshot'[t[1]] = job[t].seen
      /\ state'[t[1]] = (IF watcher'[t] = "none" THEN "pending"
                         ELSE IF Some(batch) THEN "building" ELSE "ready")
      /\ job'[t] = [NewJob EXCEPT !.carried = batch, !.full = (watcher'[t] = "none"),
                                  !.backoff = (watcher'[t] = "none")]
      /\ UNCHANGED <<gen, token, cancelled, closed, unremoved, disk, troubles>>
  BY <1>1 DEF Publish, Emptied, IInv, TypeOK, durable, world
<1>4. StepOf(t)
  <2>1. /\ job' = [job EXCEPT ![t] = job'[t]] /\ state' = [state EXCEPT ![t[1]] = state'[t[1]]]
    <3>1. /\ \E j : job' = [job EXCEPT ![t] = j]
          /\ \E n : state' = [state EXCEPT ![t[1]] = n]
      BY DEF Publish
    <3> QED
      BY <1>1, <3>1 DEF IInv, TypeOK
  <2>2. watcher' = [watcher EXCEPT ![t] = watcher'[t]] /\ chan' = [chan EXCEPT ![t] = chan'[t]]
    BY <1>3 DEF Publish, Emptied, IInv, TypeOK
  <2>3. /\ pc' = [pc EXCEPT ![t] = "loop"] /\ snapshot' = [snapshot EXCEPT ![t[1]] = job[t].seen]
        /\ UNCHANGED <<gen, token, cancelled, closed, stored, used, disk, allowed, unremoved>>
    BY DEF Publish, world
  <2> QED
    BY <1>3, <2>1, <2>2, <2>3 DEF StepOf
<1>5. db' \in [Dirs -> Snapshots] /\ snapshot'[t[1]] \in Contents
  BY <1>1, <1>3 DEF Publish, OwnTyped, Jobs, Snapshots
<1> HIDE DEF batch
<1>6. /\ chan'[t] \in Chans /\ Len(chan'[t].queue) <= QueueCap
      /\ chan'[t].os = (IF watcher'[t] = "live" THEN chan[t].os ELSE {})
  <2> DEFINE os == IF watcher'[t] = "live" THEN chan[t].os ELSE {}
  <2>1. os \in SUBSET Files /\ chan'[t] = [NoChan EXCEPT !.os = os]
    BY <1>1, <1>3 DEF OwnTyped, Chans
  <2> HIDE DEF os
  <2>2. chan'[t] \in Chans /\ Len(chan'[t].queue) <= QueueCap /\ chan'[t].os = os
    BY <2>1, FreshChan
  <2> QED
    BY <2>2 DEF os
<1>7. /\ job'[t] \in Jobs /\ job'[t].carried = batch
      /\ job'[t].full <=> watcher'[t] = "none"
      /\ job'[t].backoff <=> watcher'[t] = "none"
  <2>1. NewJob \in Jobs
    BY FreshJob
  <2> HIDE DEF IInv
  <2> QED
    BY <1>2, <1>3, <2>1 DEF Jobs
<1>8. OwnTyped(t)'
  BY <1>1, <1>3, <1>5, <1>6, <1>7 DEF OwnTyped, Snapshots
<1>9. Own(t)'
  <2>1. Alive(t)' => Alive(t)
    BY <1>3 DEF Alive
  <2>2. Rest(t)' /\ Carry(t)' /\ Watch(t)'
    BY <1>1, <1>2, <1>3, <1>7 DEF Own, Rest, Carry, Watch
  <2>3. Cover(t)'
    BY <1>1, <1>2, <1>3, <1>5, <1>6, <1>7, <2>1 DEF Own, Cover, Coming
  <2> QED
    BY <2>2, <2>3 DEF Own
<1>10. Shown(t[1])'
  <2>1. /\ Latest(t[1])' = t /\ (token[t[1]] = gen[t[1]])' /\ (t \notin cancelled)'
    BY <1>3, CurrentHasToken DEF Latest
  <2>2. state'[t[1]] = "ready" =>
            ~job'[t].backoff /\ job'[t].carried.paths = {} /\ ~job'[t].carried.rescan
    BY <1>3, <1>7 DEF Some
  <2> QED
    BY <1>3, <2>1, <2>2 DEF Shown
<1>11. gen[t[1]] = t[2]
  BY <1>3 DEF Current
<1> QED
  BY <1>3, <1>4, <1>8, <1>9, <1>10, <1>11, OfOneThread

LEMMA ScanFailsKeeps ==
    ASSUME IInv, NEW t \in Threads, ScanFails(t)
    PROVE  IInv'
<1> DEFINE batch == Drained(t)
<1>1. OwnTyped(t) /\ Own(t) /\ t[1] \in Dirs
  BY TypedOf, ThreadIs DEF IInv
<1>2. batch \in Batches /\ (batch.broken => batch.rescan)
  BY <1>1, BatchHolds DEF IInv, Own
<1>3. /\ pc[t] = "scanning" /\ pc'[t] = "loop"
      /\ watcher'[t] = (IF batch.broken THEN "none" ELSE watcher[t])
      /\ chan'[t] = [NoChan EXCEPT !.os = IF watcher'[t] = "live" THEN chan[t].os ELSE {}]
      /\ state'[t[1]] = "pending"
      /\ job'[t] = [NewJob EXCEPT !.carried = batch, !.backoff = TRUE]
      /\ UNCHANGED <<snapshot, db, gen, token, cancelled, closed, unremoved, disk>>
  BY <1>1 DEF ScanFails, Emptied, IInv, TypeOK, entries, durable, world
<1>4. StepOf(t)
  <2>1. job' = [job EXCEPT ![t] = job'[t]]
    <3>1. \E j : job' = [job EXCEPT ![t] = j]
      BY DEF ScanFails
    <3> QED
      BY <1>1, <3>1 DEF IInv, TypeOK
  <2>2. watcher' = [watcher EXCEPT ![t] = watcher'[t]] /\ chan' = [chan EXCEPT ![t] = chan'[t]]
    BY <1>3 DEF ScanFails, Emptied, IInv, TypeOK
  <2>3. /\ pc' = [pc EXCEPT ![t] = "loop"] /\ state' = [state EXCEPT ![t[1]] = "pending"]
        /\ UNCHANGED <<gen, token, cancelled, closed, stored, used, disk, allowed, unremoved>>
    BY DEF ScanFails, durable, world
  <2>4. snapshot' = [snapshot EXCEPT ![t[1]] = snapshot'[t[1]]]
    BY <1>1, <1>3 DEF IInv, TypeOK
  <2> QED
    BY <1>3, <2>1, <2>2, <2>3, <2>4 DEF StepOf
<1>5. troubles' \in 0 .. MaxTroubles
  BY <1>1, BoundsAssumption DEF ScanFails, Trouble, OwnTyped
<1> HIDE DEF batch
<1>6. chan'[t] \in Chans /\ Len(chan'[t].queue) <= QueueCap
  <2> DEFINE os == IF watcher'[t] = "live" THEN chan[t].os ELSE {}
  <2>1. os \in SUBSET Files /\ chan'[t] = [NoChan EXCEPT !.os = os]
    BY <1>1, <1>3 DEF OwnTyped, Chans
  <2> HIDE DEF os
  <2> QED
    BY <2>1, FreshChan
<1>7. job'[t] \in Jobs /\ job'[t].carried = batch /\ job'[t].full
  BY <1>2, <1>3, FreshJob DEF Jobs
<1>8. OwnTyped(t)'
  BY <1>1, <1>3, <1>5, <1>6, <1>7 DEF OwnTyped, Snapshots
<1>9. Own(t)'
  BY <1>2, <1>3, <1>7 DEF Own, Rest, Carry, Watch, Cover
<1>10. Shown(t[1])'
  BY <1>3, <1>4 DEF Shown
<1> QED
  BY <1>3, <1>4, <1>8, <1>9, <1>10, OfOneThread

\* A thread that returns leaves nothing behind, and nobody waiting for it.
LEMMA EndsKeeps ==
    ASSUME IInv, NEW t \in Threads, BudgetExceeded(t) \/ Exit(t)
    PROVE  IInv'
<1>1. OwnTyped(t) /\ Own(t) /\ t[1] \in Dirs
  BY TypedOf, ThreadIs DEF IInv
<1>2. /\ pc[t] # "off" /\ pc'[t] = "off" /\ watcher'[t] = "none"
      /\ chan'[t] = NoChan /\ job'[t] = NewJob
      /\ UNCHANGED <<snapshot, db, gen, token, cancelled, closed, unremoved, disk>>
  BY <1>1 DEF BudgetExceeded, Exit, Ends, IInv, TypeOK, entries, durable, world
<1>3. StepOf(t) /\ troubles' \in 0 .. MaxTroubles
  <2>1. state' = [state EXCEPT ![t[1]] = state'[t[1]]]
    BY <1>1 DEF BudgetExceeded, Exit, IInv, TypeOK, entries
  <2>2. snapshot' = [snapshot EXCEPT ![t[1]] = snapshot'[t[1]]]
    BY <1>1, <1>2 DEF IInv, TypeOK
  <2>3. troubles' \in 0 .. MaxTroubles
    BY <1>1, BoundsAssumption DEF BudgetExceeded, Exit, Trouble, OwnTyped
  <2> QED
    BY <1>2, <2>1, <2>2, <2>3
       DEF BudgetExceeded, Exit, Ends, StepOf, entries, durable, world
<1>4. state'[t[1]] \in {state[t[1]], "pending"}
  BY <1>1 DEF BudgetExceeded, Exit, IInv, TypeOK, entries
<1>5. NoChan \in Chans /\ Len(NoChan.queue) <= QueueCap
  BY BoundsAssumption DEF NoChan, Chans
<1>6. OwnTyped(t)'
  BY <1>1, <1>2, <1>3, <1>4, <1>5, FreshJob DEF OwnTyped, Snapshots
<1>7. Own(t)'
  BY <1>2, FreshJob DEF Own, Rest, Carry, Watch, Cover
<1>8. Shown(t[1])'
  <2>1. CASE Exit(t)
    BY <1>3, <2>1, ShownStill DEF Exit, entries
  <2>2. CASE BudgetExceeded(t)
    BY <1>1, <2>2 DEF BudgetExceeded, Shown, IInv, TypeOK
  <2> QED
    BY <2>1, <2>2
<1> QED
  BY <1>2, <1>3, <1>6, <1>7, <1>8, OfOneThread

LEMMA TimerKeeps ==
    ASSUME IInv, NEW t \in Threads, Timer(t)
    PROVE  IInv'
<1>1. OwnTyped(t) /\ Own(t) /\ t[1] \in Dirs
  BY TypedOf, ThreadIs DEF IInv
<1>2. /\ job'[t] \in {[job[t] EXCEPT !.backoff = FALSE], [job[t] EXCEPT !.full = TRUE]}
      /\ UNCHANGED <<entries, closed, durable, pc, watcher, chan, world, troubles, unremoved>>
      /\ pc[t] \in {"off", "subscribing"} => job[t].backoff
  BY <1>1 DEF Timer, BackoffEnds, PeriodPasses, IInv, TypeOK
<1>3. /\ job'[t] \in Jobs /\ job'[t].carried = job[t].carried
      /\ job[t].full => job'[t].full
      /\ ~job[t].backoff => ~job'[t].backoff
      /\ job'[t].todo = job[t].todo /\ job'[t].seen = job[t].seen
      /\ pc[t] = "loop" \/ job'[t].full = job[t].full
  <2>1. job[t] \in Jobs
    BY <1>1 DEF OwnTyped
  <2>2. CASE BackoffEnds(t)
    <3>1. job'[t] = [job[t] EXCEPT !.backoff = FALSE]
      BY <2>2 DEF BackoffEnds, IInv, TypeOK
    <3> QED
      BY <2>1, <3>1 DEF Jobs
  <2>3. CASE PeriodPasses(t)
    <3>1. pc[t] = "loop" /\ job'[t] = [job[t] EXCEPT !.full = TRUE]
      BY <2>3 DEF PeriodPasses, IInv, TypeOK
    <3> QED
      BY <2>1, <3>1 DEF Jobs
  <2> QED
    BY <2>2, <2>3 DEF Timer
<1>4. StepOf(t)
  <2>1. job' = [job EXCEPT ![t] = job'[t]]
    <3>1. \E j : job' = [job EXCEPT ![t] = j]
      BY DEF Timer, BackoffEnds, PeriodPasses
    <3> QED
      BY <1>1, <3>1 DEF IInv, TypeOK
  <2> QED
    BY <1>1, <1>2, <2>1 DEF StepOf, IInv, TypeOK, entries, durable, world
<1>5. OwnTyped(t)'
  BY <1>1, <1>2, <1>3 DEF OwnTyped, entries, durable
<1>6. Own(t)'
  <2>1. /\ Alive(t)' => Alive(t)
        /\ \A f \in Files : Coming(t, f) => Coming(t, f)'
    BY <1>2 DEF Alive, Coming, Owed, InQueue, entries
  <2>2. Rest(t)' /\ Carry(t)' /\ Watch(t)'
    BY <1>1, <1>2, <1>3, FreshJob DEF Own, Rest, Carry, Watch
  <2>3. Cover(t)'
    BY <1>1, <1>2, <1>3, <2>1 DEF Own, Cover, entries, world
  <2> QED
    BY <2>2, <2>3 DEF Own
<1>7. Shown(t[1])'
  BY <1>2, <1>3, <1>4, ShownStill DEF entries
<1> QED
  BY <1>2, <1>4, <1>5, <1>6, <1>7, OfOneThread DEF entries

-----------------------------------------------------------------------------
(* The events. *)

\* An event that enters the channel, or does not fit into it.
LEMMA EventKeeps ==
    ASSUME IInv, NEW t \in Threads, NEW os \in SUBSET Files,
           NEW e \in Files \cup {"rescan", "error"},
           chan[t].os # {} \/ watcher[t] = "live",
           chan' = [chan EXCEPT ![t] = Enqueued([chan[t] EXCEPT !.os = os], e)],
           \A f \in chan[t].os \ os : e = f \/ e = "rescan" \/ watcher'[t] # "live",
           watcher' = watcher \/ watcher' = [watcher EXCEPT ![t] = "deaf"],
           UNCHANGED <<entries, closed, durable, pc, job, world, unremoved>>,
           troubles' \in 0 .. MaxTroubles
    PROVE  IInv'
<1> DEFINE c == [chan[t] EXCEPT !.os = os]
<1>1. OwnTyped(t) /\ Own(t) /\ t[1] \in Dirs
  BY TypedOf, ThreadIs DEF IInv
<1>2. /\ c \in Chans /\ c.os = os /\ c.queue = chan[t].queue /\ c.lost = chan[t].lost
  BY <1>1 DEF OwnTyped, Chans
<1>3. chan'[t] = Enqueued(c, e)
  BY DEF IInv, TypeOK
<1> HIDE DEF c
<1>4. /\ chan'[t] \in Chans /\ chan'[t].os = os /\ Len(chan'[t].queue) <= QueueCap
      /\ InQueue(t) \subseteq InQueue(t)' /\ (chan[t].lost => chan'[t].lost)
      /\ e \in InQueue(t)' \/ chan'[t].lost
  <2>1. LET new == Enqueued(c, e)
            was == {c.queue[i] : i \in DOMAIN c.queue}
            now == {new.queue[i] : i \in DOMAIN new.queue}
        IN  /\ new \in Chans /\ new.os = c.os
            /\ Len(c.queue) <= QueueCap => Len(new.queue) <= QueueCap
            /\ was \subseteq now /\ (c.lost => new.lost)
            /\ e \in now \/ new.lost
    BY <1>2, EnqueuedKeeps
  <2>2. /\ InQueue(t) = {c.queue[i] : i \in DOMAIN c.queue}
        /\ InQueue(t)' = {Enqueued(c, e).queue[i] : i \in DOMAIN Enqueued(c, e).queue}
    BY <1>2, <1>3 DEF InQueue
  <2>3. Len(c.queue) <= QueueCap
    BY <1>1, <1>2 DEF OwnTyped
  <2> QED
    BY <1>2, <1>3, <2>1, <2>2, <2>3
<1>5. /\ pc[t] \notin {"off", "subscribing"}
      /\ watcher'[t] = watcher[t] \/ watcher'[t] = "deaf"
  BY <1>1 DEF Own, Rest, NoChan, IInv, TypeOK
<1>6. StepOf(t)
  BY <1>1, <1>3, <1>5 DEF StepOf, IInv, TypeOK, entries, durable, world
<1>7. OwnTyped(t)'
  BY <1>1, <1>4, <1>5 DEF OwnTyped, entries, durable
<1>8. Own(t)'
  <2>1. Alive(t)' => Alive(t)
    BY DEF Alive, entries
  <2>2. \A f \in Files : Coming(t, f) => Coming(t, f)'
    BY <1>4, <1>5 DEF Coming, Owed
  <2>3. Rest(t)' /\ Carry(t)' /\ Watch(t)'
    BY <1>1, <1>5 DEF Own, Rest, Carry, Watch
  <2>4. Cover(t)'
    BY <1>1, <2>1, <2>2 DEF Own, Cover, entries, world
  <2> QED
    BY <2>3, <2>4 DEF Own
<1>9. Shown(t[1])'
  BY <1>6, ShownStill DEF entries
<1> QED
  BY <1>6, <1>7, <1>8, <1>9, OfOneThread DEF entries

LEMMA EventsKeep ==
    ASSUME IInv, NEW t \in Threads, Events(t)
    PROVE  IInv'
<1>1. OwnTyped(t)
  BY TypedOf DEF IInv
<1>2. chan[t].os \in SUBSET Files /\ troubles \in 0 .. MaxTroubles
  BY <1>1 DEF OwnTyped, Chans
<1>3. ASSUME NEW f \in Files, Deliver(t, f)
      PROVE  IInv'
  <2> DEFINE os == chan[t].os \ {f}
  <2>1. /\ chan' = [chan EXCEPT ![t] = Enqueued([chan[t] EXCEPT !.os = os], f)]
        /\ chan[t].os # {} /\ os \in SUBSET Files /\ f \in Files \cup {"rescan", "error"}
        /\ \A g \in chan[t].os \ os : f = g
    BY <1>2, <1>3 DEF Deliver
  <2>2. UNCHANGED <<entries, closed, durable, pc, watcher, job, world, troubles, unremoved>>
    BY <1>3 DEF Deliver
  <2> HIDE DEF os
  <2> QED
    BY <1>2, <2>1, <2>2, EventKeeps
<1>4. CASE DeliverRescan(t)
  <2>1. /\ chan' = [chan EXCEPT ![t] = Enqueued([chan[t] EXCEPT !.os = {}], "rescan")]
        /\ chan[t].os # {}
        /\ UNCHANGED <<entries, closed, durable, pc, watcher, job, world, troubles, unremoved>>
    BY <1>4 DEF DeliverRescan, IInv, TypeOK
  <2> QED
    BY <1>2, <2>1, EventKeeps
<1>5. CASE WatcherBreaks(t)
  <2>1. /\ chan' = [chan EXCEPT ![t] = Enqueued([chan[t] EXCEPT !.os = {}], "error")]
        /\ watcher[t] = "live" /\ watcher' = [watcher EXCEPT ![t] = "deaf"]
        /\ watcher'[t] = "deaf"
        /\ UNCHANGED <<entries, closed, durable, pc, job, world, unremoved>>
    BY <1>5 DEF WatcherBreaks, IInv, TypeOK
  <2>2. troubles' \in 0 .. MaxTroubles
    BY <1>2, <1>5, BoundsAssumption DEF WatcherBreaks, Trouble
  <2> QED
    BY <1>2, <2>1, <2>2, EventKeeps
<1> QED
  BY <1>3, <1>4, <1>5 DEF Events

\* A change of the disk is on its way to every watcher of the directory.
LEMMA ChangeKeeps ==
    ASSUME IInv, NEW d \in Dirs, NEW f \in Files, NEW v \in 0 .. MaxVersion, Change(d, f, v)
    PROVE  IInv'
<1>1. /\ disk' = [disk EXCEPT ![d] = [disk[d] EXCEPT ![f] = v]]
      /\ UNCHANGED <<entries, closed, durable, pc, watcher, job, allowed, unremoved>>
  BY DEF Change, IInv, TypeOK
<1>2. ASSUME NEW u \in Threads
      PROVE  /\ chan'[u] = IF u[1] = d /\ watcher[u] = "live"
                             THEN [chan[u] EXCEPT !.os = chan[u].os \cup {f}] ELSE chan[u]
             /\ chan'[u] \in Chans /\ chan'[u].queue = chan[u].queue
             /\ chan'[u].lost = chan[u].lost /\ chan[u].os \subseteq chan'[u].os
             /\ u[1] = d /\ watcher[u] = "live" => f \in chan'[u].os
             /\ watcher[u] # "live" => chan'[u] = chan[u]
  <2>1. chan[u] \in Chans
    BY DEF IInv, TypeOK
  <2>2. chan'[u] = IF u[1] = d /\ watcher[u] = "live"
                     THEN [chan[u] EXCEPT !.os = chan[u].os \cup {f}] ELSE chan[u]
    BY DEF Change
  <2>3. LET n == [chan[u] EXCEPT !.os = chan[u].os \cup {f}]
        IN  n \in Chans /\ n.queue = chan[u].queue /\ n.lost = chan[u].lost
            /\ n.os = chan[u].os \cup {f}
    BY <2>1 DEF Chans
  <2> QED
    BY <2>1, <2>2, <2>3
<1>3. TypeOK'
  <2>1. chan' \in [Threads -> Chans] /\ \A u \in Threads : Len(chan'[u].queue) <= QueueCap
    BY <1>2 DEF Change, IInv, TypeOK
  <2>2. disk' \in [Dirs -> Contents]
    BY <1>1 DEF IInv, TypeOK, Contents
  <2>3. troubles' \in 0 .. MaxTroubles
    BY BoundsAssumption DEF Change, Trouble, IInv, TypeOK
  <2> QED
    BY <1>1, <2>1, <2>2, <2>3 DEF IInv, TypeOK, entries, durable
<1>4. ASSUME NEW u \in Threads
      PROVE  Own(u)'
  <2>1. Own(u) /\ u[1] \in Dirs
    BY ThreadIs DEF IInv
  <2>2. Rest(u)' /\ Carry(u)' /\ Watch(u)'
    BY <1>1, <1>2, <2>1 DEF Own, Rest, Carry, Watch
  <2>3. \A g \in Files : \/ Coming(u, g)'
                         \/ disk'[u[1]][g] = disk[u[1]][g] /\ ~Coming(u, g)
    <3>1. \A g \in Files : Coming(u, g) => Coming(u, g)'
      <4>1. InQueue(u)' = InQueue(u) /\ watcher'[u] = watcher[u]
        BY <1>1, <1>2 DEF InQueue
      <4>2. chan'[u].lost = chan[u].lost /\ chan[u].os \subseteq chan'[u].os
        BY <1>2
      <4> QED
        BY <4>1, <4>2 DEF Coming, Owed
    <3>2. \A g \in Files : u[1] # d \/ g # f => disk'[u[1]][g] = disk[u[1]][g]
      BY <1>1, <2>1 DEF IInv, TypeOK, Contents
    <3>3. u[1] = d => Coming(u, f)'
      BY <1>1, <1>2 DEF Coming
    <3> QED
      BY <3>1, <3>2, <3>3
  <2>4. Cover(u)'
    BY <1>1, <2>1, <2>3 DEF Own, Cover, Alive, entries
  <2> QED
    BY <2>2, <2>4 DEF Own
<1>5. GenInv' /\ \A e \in Dirs : Shown(e)'
  BY <1>1 DEF IInv, GenInv, Shown, Latest, entries
<1> QED
  BY <1>3, <1>4, <1>5 DEF IInv

LEMMA AllowKeeps ==
    ASSUME IInv, NEW d \in Dirs, Allow(d)
    PROVE  IInv'
<1>1. UNCHANGED <<entries, closed, durable, threads, disk, troubles, unremoved>>
  BY DEF Allow
<1>2. allowed' \in [Dirs -> BOOLEAN]
  BY DEF Allow, IInv, TypeOK
<1>3. TypeOK'
  BY <1>1, <1>2 DEF IInv, TypeOK, entries, durable, threads
<1>4. \A u \in Threads : Own(u)'
  BY <1>1, Untouched DEF IInv, Alive, entries, threads
<1>5. GenInv' /\ \A e \in Dirs : Shown(e)'
  BY <1>1 DEF IInv, GenInv, Shown, Latest, entries, threads
<1> QED
  BY <1>3, <1>4, <1>5 DEF IInv

-----------------------------------------------------------------------------
(* The operations on the registrations. *)

\* They start threads and end generations, and touch no thread that goes on.
LEMMA OwnKept ==
    ASSUME IInv, UNCHANGED <<watcher, chan, job, disk>>,
           \A u \in Threads : pc'[u] = pc[u] \/ (pc[u] = "off" /\ pc'[u] = "subscribing"),
           \A u \in Threads : Alive(u)' /\ pc[u] # "off" =>
               Alive(u) /\ snapshot'[u[1]] = snapshot[u[1]]
    PROVE  \A u \in Threads : Own(u)'
<1> SUFFICES ASSUME NEW u \in Threads PROVE Own(u)'
  OBVIOUS
<1>1. Own(u)
  BY DEF IInv
<1>2. CASE pc[u] = "off"
  BY <1>1, <1>2 DEF Own, Rest, Carry, Watch, Cover
<1>3. CASE pc[u] # "off"
  BY <1>1, <1>3, Untouched
<1> QED
  BY <1>2, <1>3

\* Whoever is of the entry's generation has a Cancellation the entry holds, or
\* has not begun.
LEMMA AliveIsLatest ==
    ASSUME IInv, NEW u \in Threads, gen[u[1]] = u[2], pc[u] # "off" \/ u \in cancelled
    PROVE  token[u[1]] = u[2] /\ u \in Token(u[1])
<1>1. u[1] \in Dirs /\ u[2] \in Nat /\ gen[u[1]] \in Nat /\ token[u[1]] \in Nat
  BY ThreadIs, BoundsAssumption DEF IInv, TypeOK
<1> QED
  BY <1>1, ThreadIs DEF IInv, GenInv, Token

LEMMA TokenIs ==
    ASSUME NEW d, NEW u \in Token(d)
    PROVE  u \in Threads /\ u[1] = d /\ u[2] = token[d]
  BY DEF Token

LEMMA AddKeeps ==
    ASSUME IInv, NEW d \in Dirs, NEW saved \in BOOLEAN, Add(d, saved)
    PROVE  IInv'
<1>1. /\ UNCHANGED <<gen, token, snapshot, cancelled, closed, db, threads, world,
                     troubles, unremoved>>
      /\ used' = used \cup {d} /\ stored' \subseteq stored \cup {d}
      /\ state' = state \/ state' = [state EXCEPT ![d] = "pending"]
  BY DEF Add
<1>2. TypeOK'
  BY <1>1 DEF IInv, TypeOK, threads, world
<1>3. \A u \in Threads : Own(u)'
  BY <1>1, OwnKept DEF Alive, threads, world
<1>4. GenInv' /\ \A e \in Dirs : Shown(e)'
  BY <1>1 DEF IInv, TypeOK, GenInv, Shown, Latest, threads
<1> QED
  BY <1>2, <1>3, <1>4 DEF IInv

LEMMA UpdateKeeps ==
    ASSUME IInv, NEW d \in Dirs, Update(d)
    PROVE  IInv'
<1> DEFINE next == <<d, gen[d] + 1>>
<1>1. /\ next \in Threads /\ next[1] = d /\ next[2] = gen[d] + 1
      /\ gen[d] \in Nat /\ token[d] \in Nat /\ token[d] <= gen[d]
  BY BoundsAssumption DEF Update, Threads, IInv, TypeOK, GenInv
<1>2. pc[next] = "off" /\ next \notin cancelled
  BY <1>1 DEF IInv, GenInv
<1>3. /\ cancelled' = cancelled \cup Token(d) /\ gen' = [gen EXCEPT ![d] = gen[d] + 1]
      /\ token' = [token EXCEPT ![d] = gen[d] + 1]
      /\ state' = [state EXCEPT ![d] = "building"]
      /\ pc' = [pc EXCEPT ![next] = "subscribing"] /\ unremoved' = unremoved \ {d}
      /\ UNCHANGED <<snapshot, closed, durable, watcher, chan, job, world, troubles>>
  BY DEF Update
<1>4. Token(d) \subseteq Threads /\ next \notin Token(d)
  BY <1>1, TokenIs
<1> HIDE DEF next
<1>5. TypeOK'
  <2>1. gen[d] + 1 \in 0 .. MaxGen
    BY <1>1, BoundsAssumption DEF Update
  <2> QED
    BY <1>1, <1>3, <1>4, <2>1 DEF IInv, TypeOK, durable, world
<1>6. \A u \in Threads : Own(u)'
  <2>1. \A u \in Threads : pc'[u] = pc[u] \/ (pc[u] = "off" /\ pc'[u] = "subscribing")
    BY <1>2, <1>3 DEF IInv, TypeOK
  <2>2. ASSUME NEW u \in Threads, Alive(u)', pc[u] # "off"
        PROVE  Alive(u)
    <3>1. CASE u[1] = d
      <4>1. u = next
        BY <1>1, <1>3, <2>2, <3>1, ThreadIs DEF Alive, IInv, TypeOK, next
      <4> QED
        BY <1>2, <2>2, <4>1
    <3>2. CASE u[1] # d
      BY <1>3, <2>2, <3>2, ThreadIs DEF Alive, IInv, TypeOK
    <3> QED
      BY <3>1, <3>2
  <2> QED
    BY <1>3, <2>1, <2>2, OwnKept DEF world
<1>7. GenInv'
  <2>1. \A e \in Dirs : token'[e] <= gen'[e]
    BY <1>1, <1>3 DEF IInv, TypeOK, GenInv
  <2>2. ASSUME NEW u \in Threads, u[2] > token'[u[1]]
        PROVE  pc'[u] = "off" /\ u \notin cancelled'
    <3>1. u # next /\ u[2] > token[u[1]] /\ u \notin Token(d)
      <4>1. u[2] \in Nat /\ u[1] \in Dirs
        BY ThreadIs, BoundsAssumption
      <4>2. CASE u[1] = d
        BY <1>1, <1>3, <2>2, <4>1, <4>2, TokenIs DEF IInv, TypeOK
      <4>3. CASE u[1] # d
        BY <1>1, <1>3, <2>2, <4>1, <4>3, TokenIs DEF IInv, TypeOK
      <4> QED
        BY <4>2, <4>3
    <3> QED
      BY <1>3, <3>1 DEF IInv, TypeOK, GenInv
  <2> QED
    BY <2>1, <2>2 DEF GenInv
<1>8. ASSUME NEW e \in Dirs
      PROVE  Shown(e)'
  <2>1. CASE e = d
    <3>1. Latest(d)' = next /\ token'[d] = gen'[d] /\ state'[d] = "building"
      BY <1>3 DEF Latest, IInv, TypeOK, next
    <3>2. next \notin cancelled' /\ pc'[next] = "subscribing"
      BY <1>1, <1>2, <1>3, <1>4 DEF IInv, TypeOK
    <3> QED
      BY <1>1, <2>1, <3>1, <3>2 DEF Shown
  <2>2. CASE e # d
    <3>1. /\ state'[e] = state[e] /\ gen'[e] = gen[e] /\ token'[e] = token[e]
          /\ e \in unremoved' <=> e \in unremoved
          /\ Latest(e)' = Latest(e)
      BY <1>3, <2>2 DEF Latest, IInv, TypeOK
    <3>2. Latest(e) \in Threads => pc'[Latest(e)] = pc[Latest(e)]
      BY <1>1, <1>3, <2>2 DEF Latest, IInv, TypeOK
    <3>3. Latest(e) \notin Token(d)
      BY <2>2, TokenIs DEF Latest
    <3> QED
      BY <1>3, <3>1, <3>2, <3>3 DEF IInv, Shown
  <2> QED
    BY <2>1, <2>2
<1> QED
  BY <1>5, <1>6, <1>7, <1>8 DEF IInv

\* The watchers of some directories are cancelled, which are not shown as
\* ready or under way any more; nothing happens to the threads yet.
LEMMA CancellingKeeps ==
    ASSUME IInv, TypeOK', NEW D \in SUBSET Dirs, UNCHANGED <<token, threads, disk>>,
           cancelled' = cancelled \cup UNION {Token(d) : d \in D},
           \A d \in Dirs : gen'[d] = gen[d] \/ (d \in D /\ gen'[d] = gen[d] + 1),
           \A d \in Dirs \ D : snapshot'[d] = snapshot[d] /\ state'[d] = state[d],
           closed => closed', unremoved \subseteq unremoved',
           \A d \in D : state'[d] \notin {"building", "ready"} \/ closed' \/ d \in unremoved'
    PROVE  IInv'
<1>1. \A d \in Dirs : /\ gen[d] \in Nat /\ token[d] \in Nat /\ token[d] <= gen[d]
                      /\ gen'[d] \in Nat /\ token'[d] = token[d] /\ gen[d] <= gen'[d]
  <2>1. \A d \in Dirs : gen[d] \in Nat /\ token[d] \in Nat /\ token[d] <= gen[d]
    BY BoundsAssumption DEF IInv, TypeOK, GenInv
  <2> QED
    BY <2>1
<1>2. \A u \in Threads : u[1] \in Dirs /\ u[2] \in Nat
  BY ThreadIs, BoundsAssumption
<1>3. ASSUME NEW u \in Threads, Alive(u)', pc[u] # "off"
      PROVE  Alive(u) /\ snapshot'[u[1]] = snapshot[u[1]]
  <2>1. u[2] <= token[u[1]] /\ gen'[u[1]] = u[2] /\ u \notin cancelled
    BY <1>1, <1>2, <1>3 DEF IInv, GenInv, Alive
  <2>2. gen[u[1]] = u[2]
    BY <1>1, <1>2, <2>1
  <2>3. u[1] \notin D
    BY <1>3, <2>2, AliveIsLatest DEF Alive
  <2> QED
    BY <1>2, <2>1, <2>2, <2>3 DEF Alive
<1>4. \A u \in Threads : Own(u)'
  BY <1>3, OwnKept DEF threads
<1>5. GenInv'
  <2>1. ASSUME NEW u \in Threads, u[2] > token'[u[1]]
        PROVE  pc'[u] = "off" /\ u \notin cancelled'
    <3>1. u[2] > token[u[1]] /\ \A d \in D : u \notin Token(d)
      BY <1>1, <1>2, <2>1, TokenIs
    <3> QED
      BY <3>1 DEF IInv, GenInv, threads
  <2> QED
    BY <1>1, <2>1 DEF GenInv
<1>6. ASSUME NEW e \in Dirs, state'[e] \in {"building", "ready"}, ~closed', e \notin unremoved'
      PROVE  Shown(e)'
  <2>1. e \notin D /\ Shown(e)
    BY <1>6 DEF IInv
  <2>2. /\ state'[e] = state[e] /\ token'[e] = token[e] /\ Latest(e)' = Latest(e)
        /\ gen'[e] = gen[e]
    BY <2>1 DEF Latest
  <2>3. \A d \in D : Latest(e) \notin Token(d)
    BY <2>1, TokenIs DEF Latest
  <2> QED
    BY <1>6, <2>1, <2>2, <2>3 DEF Shown, threads
<1> QED
  BY <1>4, <1>5, <1>6 DEF IInv, Shown

LEMMA StopKeeps ==
    ASSUME IInv, NEW d \in Dirs, Stop(d)
    PROVE  IInv'
<1>1. /\ cancelled' = cancelled \cup UNION {Token(e) : e \in {d}}
      /\ gen' = [gen EXCEPT ![d] = gen[d] + 1] /\ state' = [state EXCEPT ![d] = "pending"]
      /\ UNCHANGED <<token, snapshot, closed, durable, threads, world, troubles, unremoved>>
  BY DEF Stop
<1>2. TypeOK'
  <2>1. gen[d] + 1 \in 0 .. MaxGen
    BY BoundsAssumption DEF Stop, IInv, TypeOK
  <2>2. cancelled' \subseteq Threads
    BY <1>1, TokenIs DEF IInv, TypeOK
  <2> QED
    BY <1>1, <2>1, <2>2 DEF IInv, TypeOK, durable, threads, world
<1>3. /\ \A e \in Dirs : gen'[e] = gen[e] \/ (e \in {d} /\ gen'[e] = gen[e] + 1)
      /\ \A e \in Dirs \ {d} : state'[e] = state[e]
      /\ state'[d] = "pending"
  BY <1>1 DEF IInv, TypeOK
<1> QED
  BY ZenonT(60), <1>1, <1>2, <1>3, CancellingKeeps DEF world

LEMMA RestrictKeeps ==
    ASSUME IInv, Restrict
    PROVE  IInv'
<1> DEFINE out == {d \in Dirs : state[d] # "none" /\ ~allowed[d]}
<1>1. /\ \A d \in out : gen[d] < MaxGen
      /\ cancelled' = cancelled \cup UNION {Token(d) : d \in out}
      /\ gen' = [d \in Dirs |-> IF d \in out THEN gen[d] + 1 ELSE gen[d]]
      /\ snapshot' = [d \in Dirs |-> IF d \in out THEN NoRecords ELSE snapshot[d]]
      /\ state' = [d \in Dirs |-> IF d \in out THEN "unavailable" ELSE state[d]]
      /\ UNCHANGED <<token, closed, durable, threads, world, troubles, unremoved>>
  BY DEF Restrict
<1> HIDE DEF out
<1>2. TypeOK'
  <2>1. gen' \in [Dirs -> 0 .. MaxGen]
    BY <1>1, BoundsAssumption DEF IInv, TypeOK
  <2>2. cancelled' \subseteq Threads
    BY <1>1, TokenIs DEF IInv, TypeOK
  <2>3. snapshot' \in [Dirs -> Snapshots]
    BY <1>1 DEF IInv, TypeOK, Snapshots
  <2> QED
    BY <1>1, <2>1, <2>2, <2>3 DEF IInv, TypeOK, durable, threads, world
<1>3. out \in SUBSET Dirs
  BY DEF out
<1>4. /\ \A d \in Dirs : gen'[d] = gen[d] \/ (d \in out /\ gen'[d] = gen[d] + 1)
      /\ \A d \in Dirs \ out : snapshot'[d] = snapshot[d] /\ state'[d] = state[d]
      /\ \A d \in out : state'[d] = "unavailable"
  BY <1>1, <1>3
<1> QED
  BY <1>1, <1>2, <1>3, <1>4, CancellingKeeps DEF world

LEMMA RemoveKeeps ==
    ASSUME IInv, NEW d \in Dirs, NEW saved \in BOOLEAN, NEW erased \in BOOLEAN,
           Remove(d, saved, erased)
    PROVE  IInv'
<1>1. /\ cancelled' = cancelled \cup UNION {Token(e) : e \in {d}}
      /\ UNCHANGED <<gen, token, closed, used, threads, world, troubles>>
      /\ state' = state \/ state' = [state EXCEPT ![d] = "none"]
      /\ snapshot' = snapshot \/ snapshot' = [snapshot EXCEPT ![d] = NoRecords]
      /\ db' = db \/ db' = [db EXCEPT ![d] = NoRecords]
      /\ stored' \subseteq stored
      /\ unremoved' = unremoved \/ unremoved' = unremoved \cup {d}
      /\ state' = [state EXCEPT ![d] = "none"] \/ d \in unremoved'
  BY DEF Remove
<1>2. TypeOK'
  <2>1. cancelled' \subseteq Threads
    BY <1>1, TokenIs DEF IInv, TypeOK
  <2>2. snapshot' \in [Dirs -> Snapshots] /\ db' \in [Dirs -> Snapshots]
    BY <1>1 DEF IInv, TypeOK, Snapshots
  <2> QED
    BY <1>1, <2>1, <2>2 DEF IInv, TypeOK, threads, world
<1>3. /\ \A e \in Dirs \ {d} : snapshot'[e] = snapshot[e] /\ state'[e] = state[e]
      /\ \A e \in {d} : state'[e] = "none" \/ e \in unremoved'
      /\ unremoved \subseteq unremoved' /\ {d} \in SUBSET Dirs
      /\ gen' = gen /\ closed' = closed
  BY <1>1 DEF IInv, TypeOK
<1>4. /\ \A e \in {d} : state'[e] \notin {"building", "ready"} \/ closed' \/ e \in unremoved'
      /\ UNCHANGED <<token, threads, disk>>
  BY <1>1, <1>3 DEF world
<1>5. cancelled' = cancelled \cup UNION {Token(e) : e \in {d}}
  BY <1>1
<1> HIDE DEF IInv
<1> QED
  BY <1>2, <1>3, <1>4, <1>5, CancellingKeeps

LEMMA ShutdownKeeps ==
    ASSUME IInv, Shutdown
    PROVE  IInv'
<1> DEFINE D == {d \in Dirs : state[d] # "none"}
<1>1. /\ cancelled' = cancelled \cup UNION {Token(d) : d \in D}
      /\ closed' = TRUE
      /\ UNCHANGED <<state, gen, token, snapshot, durable, threads, world, troubles, unremoved>>
  BY DEF Shutdown
<1>2. D \in SUBSET Dirs
  OBVIOUS
<1> HIDE DEF D
<1>3. TypeOK'
  <2>1. cancelled' \subseteq Threads
    BY <1>1, TokenIs DEF IInv, TypeOK
  <2> QED
    BY <1>1, <2>1 DEF IInv, TypeOK, durable, threads, world
<1> QED
  BY <1>1, <1>2, <1>3, CancellingKeeps DEF world

LEMMA RestartKeeps ==
    ASSUME IInv, NEW bad \in SUBSET Dirs, NEW again \in SUBSET Dirs, Restart(bad, again)
    PROVE  IInv'
<1>1. /\ again \subseteq stored \ bad
      /\ state' = [d \in Dirs |-> IF d \notin stored THEN "none"
                                  ELSE IF d \in bad THEN "damaged"
                                  ELSE IF d \in again THEN "building" ELSE "pending"]
      /\ snapshot' = [d \in Dirs |-> IF d \in stored \ bad THEN db[d] ELSE NoRecords]
      /\ gen' = [d \in Dirs |-> IF d \in again THEN 1 ELSE 0]
      /\ token' = gen'
      /\ cancelled' = {} /\ closed' = FALSE /\ unremoved' = {}
      /\ pc' = [t \in Threads |-> IF t[1] \in again /\ t[2] = 1 THEN "subscribing" ELSE "off"]
      /\ watcher' = [t \in Threads |-> "none"]
      /\ chan' = [t \in Threads |-> NoChan] /\ job' = [t \in Threads |-> NewJob]
      /\ UNCHANGED <<durable, world>>
  BY DEF Restart
<1>2. TypeOK'
  <2>1. NoChan \in Chans /\ Len(NoChan.queue) <= QueueCap
    BY BoundsAssumption DEF NoChan, Chans
  <2>2. /\ chan' \in [Threads -> Chans] /\ \A t \in Threads : Len(chan'[t].queue) <= QueueCap
        /\ job' \in [Threads -> Jobs]
    BY <1>1, <2>1, FreshJob
  <2>3. gen' \in [Dirs -> 0 .. MaxGen] /\ token' \in [Dirs -> 0 .. MaxGen]
    BY <1>1, BoundsAssumption
  <2>4. snapshot' \in [Dirs -> Snapshots]
    BY <1>1 DEF IInv, TypeOK, Snapshots
  <2>5. troubles' \in 0 .. MaxTroubles
    BY BoundsAssumption DEF Restart, Trouble, IInv, TypeOK
  <2>6. /\ state' \in [Dirs -> {"none", "pending", "building", "ready", "unavailable", "damaged"}]
        /\ pc' \in [Threads -> {"off", "subscribing", "loop", "waiting", "scanning"}]
        /\ watcher' \in [Threads -> {"none", "live", "deaf"}]
    BY <1>1
  <2>7. closed' \in BOOLEAN /\ cancelled' \subseteq Threads /\ unremoved' \subseteq Dirs
    BY <1>1
  <2> QED
    BY <1>1, <2>2, <2>3, <2>4, <2>5, <2>6, <2>7 DEF IInv, TypeOK, durable, world
<1>3. \A u \in Threads : Own(u)'
  BY <1>1, FreshJob DEF Own, Rest, Carry, Watch, Cover
<1>4. GenInv'
  <2>1. ASSUME NEW u \in Threads, u[2] > token'[u[1]]
        PROVE  pc'[u] = "off"
    BY <1>1, <2>1, ThreadIs
  <2> QED
    BY <1>1, <2>1, BoundsAssumption DEF GenInv
<1>5. ASSUME NEW d \in Dirs
      PROVE  Shown(d)'
  <2>1. CASE d \in again
    <3>1. <<d, 1>> \in Threads /\ gen'[d] = 1 /\ token'[d] = 1 /\ state'[d] = "building"
      BY <1>1, <2>1, BoundsAssumption DEF Threads
    <3>2. Latest(d)' = <<d, 1>> /\ pc'[<<d, 1>>] = "subscribing"
      BY <1>1, <2>1, <3>1 DEF Latest
    <3> QED
      BY <1>1, <3>1, <3>2 DEF Shown
  <2>2. CASE d \notin again
    BY <1>1, <2>2 DEF Shown
  <2> QED
    BY <2>1, <2>2
<1> QED
  BY <1>2, <1>3, <1>4, <1>5 DEF IInv

-----------------------------------------------------------------------------
(* The invariant, and what follows from it. *)

LEMMA RunKeeps ==
    ASSUME IInv, NEW t \in Threads, Run(t)
    PROVE  IInv'
  BY SubscribeKeeps, BeginKeeps, BackOffKeeps, PublishKeeps, ScanFailsKeeps, EndsKeeps,
     StartScanKeeps, ReadFileKeeps DEF Run

LEMMA NextKeeps == IInv /\ [Next]_vars => IInv'
<1> SUFFICES ASSUME IInv, [Next]_vars PROVE IInv'
  OBVIOUS
<1>1. ASSUME NEW t \in Threads, Run(t) \/ Timer(t) \/ Events(t) PROVE IInv'
  BY <1>1, RunKeeps, TimerKeeps, EventsKeep
<1>2. ASSUME NEW d \in Dirs, Command(d) PROVE IInv'
  BY <1>2, AddKeeps, RemoveKeeps, UpdateKeeps, StopKeeps DEF Command
<1>3. CASE Next
  BY <1>1, <1>2, <1>3, AllowKeeps, ChangeKeeps, RestartKeeps, RestrictKeeps, ShutdownKeeps
     DEF Next
<1>4. CASE UNCHANGED vars
  <2>1. UNCHANGED <<entries, closed, durable, threads, world, troubles, unremoved>>
    BY <1>4 DEF vars
  <2>2. TypeOK'
    BY <2>1 DEF IInv, TypeOK, entries, durable, threads, world
  <2>3. \A u \in Threads : Own(u)'
    BY <2>1, Untouched DEF IInv, Alive, entries, threads, world
  <2>4. GenInv' /\ \A d \in Dirs : Shown(d)'
    BY <2>1 DEF IInv, GenInv, Shown, Latest, entries, threads
  <2> QED
    BY <2>2, <2>3, <2>4 DEF IInv
<1> QED
  BY <1>3, <1>4

LEMMA Invariance == Spec => []IInv
  BY InitInv, NextKeeps, PTL DEF Spec

\* Every variable keeps its type (the inventory's entries, its files, and what
\* the watcher threads hold).
THEOREM TypeCorrect == Spec => []TypeOK
<1>1. IInv => TypeOK
  BY DEF IInv
<1> QED
  BY <1>1, Invariance, PTL

\* Every status that is shown is part of the invariant.
LEMMA StatusBacked == IInv => RunningHasThread
  BY DEF IInv, Shown, RunningHasThread

\* A directory that is shown as current or under way (publish and working set
\* that status) has a thread of its own generation that is not cancelled.
THEOREM StatusIsBacked == Spec => []RunningHasThread
<1> QED
  BY StatusBacked, Invariance, PTL

\* A snapshot that searches are served from misses nothing silently, whatever
\* the channel loses and however threads of several generations interleave.
THEOREM NothingMissedSilently == Spec => []NoSilentStaleness
<1>1. IInv => NoSilentStaleness
  <2> SUFFICES ASSUME IInv, NEW d \in Dirs, state[d] = "ready", ~closed, d \notin unremoved,
                      NEW f \in Files
               PROVE  LET t == Latest(d) IN
                      \/ snapshot[d][f] = disk[d][f]
                      \/ f \in chan[t].os \cup InQueue(t)
                      \/ Drained(t).rescan \/ job[t].full
                      \/ watcher[t] = "deaf"
    BY DEF NoSilentStaleness
  <2> DEFINE t == Latest(d)
  <2>1. /\ t \in Threads /\ t \notin cancelled /\ pc[t] = "loop"
        /\ job[t].carried.paths = {} /\ ~job[t].carried.rescan
    BY DEF IInv, Shown
  <2>2. t[1] = d /\ Alive(t)
    BY <2>1 DEF Latest, Alive
  <2>3. Own(t) /\ watcher[t] \in {"none", "live", "deaf"}
    BY <2>1 DEF IInv, TypeOK
  <2>4. Owed(t) => Drained(t).rescan
    BY <2>1, <2>3, BatchHolds DEF IInv, Own
  <2> HIDE DEF t
  <2>5. snapshot[d][f] = disk[d][f] \/ Coming(t, f) \/ job[t].full
    BY <2>1, <2>2, <2>3 DEF Own, Cover
  <2>6. watcher[t] = "none" => job[t].full
    BY <2>1, <2>3 DEF Own, Watch
  <2> QED
    BY <2>3, <2>4, <2>5, <2>6 DEF Coming, t
<1> QED
  BY <1>1, Invariance, PTL

\* A registration that is stored has an entry.
StoredInv == \A d \in stored : state[d] # "none"

\* Only a removal, and the restart of the process, take an entry away.
LEMMA WhoTakesEntries ==
    ASSUME TypeOK, Next, NEW d \in Dirs, state[d] # "none", state'[d] = "none"
    PROVE  d \notin stored'
<1>1. CASE \E t \in Threads : Run(t) \/ Timer(t) \/ Events(t)
  <2>1. PICK t \in Threads : Run(t) \/ Timer(t) \/ Events(t)
    BY <1>1
  <2>2. \/ state' = state
        \/ \E n \in {"building", "pending", "ready"} : state' = [state EXCEPT ![t[1]] = n]
    <3>1. CASE Run(t)
      BY <3>1 DEF Run, Subscribe, Begin, BackOff, Publish, ScanFails, BudgetExceeded, Exit,
                  StartScan, ReadFile, entries
    <3>2. CASE Timer(t) \/ Events(t)
      BY <3>2 DEF Timer, BackoffEnds, PeriodPasses, Events, Deliver, DeliverRescan,
                  WatcherBreaks, entries
    <3> QED
      BY <2>1, <3>1, <3>2
  <2> QED
    BY <2>2 DEF TypeOK
<1>2. ASSUME NEW e \in Dirs, Command(e) \/ Allow(e)
      PROVE  d \notin stored'
  BY <1>2 DEF Command, Add, Remove, Update, Stop, Allow, TypeOK, entries
<1>3. CASE Restrict \/ Shutdown \/ \E e \in Dirs, f \in Files, v \in 0 .. MaxVersion : Change(e, f, v)
  BY <1>3 DEF Restrict, Shutdown, Change, TypeOK, entries
<1>4. CASE \E bad, again \in SUBSET Dirs : Restart(bad, again)
  BY <1>4 DEF Restart, durable
<1> QED
  BY <1>1, <1>2, <1>3, <1>4 DEF Next

\* A new entry is stored under an id that was never used, or not at all.
LEMMA StoredKeeps == IInv /\ StoredInv /\ [Next]_vars => StoredInv'
<1> SUFFICES ASSUME IInv, StoredInv, [Next]_vars, NEW d \in stored' PROVE state'[d] # "none"
  BY DEF StoredInv
<1>1. TypeOK /\ TypeOK' /\ d \in Dirs
  BY NextKeeps DEF IInv, TypeOK
<1>2. CASE d \in stored
  BY <1>1, <1>2, WhoTakesEntries DEF StoredInv, vars, entries
<1>3. CASE d \notin stored
  <2>1. PICK e \in Dirs, saved \in BOOLEAN : Add(e, saved)
    <3>1. CASE \E t \in Threads : Run(t) \/ Timer(t) \/ Events(t)
      <4>1. PICK t \in Threads : Run(t) \/ Timer(t) \/ Events(t)
        BY <3>1
      <4>2. stored' = stored
        <5>1. CASE Run(t)
          BY <5>1 DEF Run, Subscribe, Begin, BackOff, Publish, ScanFails, BudgetExceeded, Exit,
                      StartScan, ReadFile, durable
        <5>2. CASE Timer(t) \/ Events(t)
          BY <5>2 DEF Timer, BackoffEnds, PeriodPasses, Events, Deliver, DeliverRescan,
                      WatcherBreaks, durable
        <5> QED
          BY <4>1, <5>1, <5>2
      <4> QED
        BY <1>3, <4>2
    <3>2. ASSUME NEW e \in Dirs, Command(e) \/ Allow(e)
          PROVE  \E saved \in BOOLEAN : Add(e, saved)
      <4>1. ~(Update(e) \/ Stop(e) \/ Allow(e) \/ \E saved, erased \in BOOLEAN : Remove(e, saved, erased))
        BY <1>3 DEF Update, Stop, Allow, Remove, durable
      <4> QED
        BY <3>2, <4>1 DEF Command
    <3>3. ~(Restrict \/ Shutdown \/ \E e \in Dirs, f \in Files, v \in 0 .. MaxVersion : Change(e, f, v))
      BY <1>3 DEF Restrict, Shutdown, Change, durable
    <3>4. ~(\E bad, again \in SUBSET Dirs : Restart(bad, again))
      BY <1>3 DEF Restart, durable
    <3>5. ~UNCHANGED vars
      BY <1>3 DEF vars, durable
    <3> QED
      BY <3>1, <3>2, <3>3, <3>4, <3>5 DEF Next
  <2> QED
    BY <1>1, <1>3, <2>1 DEF Add, TypeOK
<1> QED
  BY <1>2, <1>3

\* At first nothing is stored.
LEMMA StoredStart == Init => StoredInv
  BY DEF Init, StoredInv

\* No step brings back an entry that is gone, or its snapshot.
LEMMA GoneSteps ==
    ASSUME IInv, StoredInv, [Next]_vars
    PROVE  StaysGone
<1> SUFFICES ASSUME NEW d \in used, state[d] = "none"
             PROVE  state'[d] = "none" /\ db'[d] = db[d]
  BY DEF StaysGone
<1>1. d \in Dirs /\ d \notin stored /\ TypeOK
  BY DEF IInv, TypeOK, StoredInv
<1>2. CASE \E t \in Threads : Run(t)
  <2>1. PICK t \in Threads : Run(t)
    BY <1>2
  <2>2. \/ state' = state /\ db' = db
        \/ Begin(t, TRUE) \/ Begin(t, FALSE) \/ Publish(t) \/ ScanFails(t) \/ BudgetExceeded(t)
    BY <2>1 DEF Run, Subscribe, BackOff, Exit, StartScan, ReadFile, entries, durable
  <2>3. \/ state'[d] = state[d] /\ db'[d] = db[d]
        \/ Current(t) /\ d = t[1]
    BY <1>1, <2>2, ThreadIs
       DEF Begin, Publish, ScanFails, BudgetExceeded, TypeOK, durable
  <2> QED
    BY <2>3 DEF Current
<1>3. CASE \E t \in Threads : Timer(t) \/ Events(t)
  BY <1>3 DEF Timer, BackoffEnds, PeriodPasses, Events, Deliver, DeliverRescan,
              WatcherBreaks, entries, durable
<1>4. ASSUME NEW e \in Dirs, Command(e) \/ Allow(e)
      PROVE  state'[d] = "none" /\ db'[d] = db[d]
  BY <1>1, <1>4 DEF Command, Add, Remove, Update, Stop, Allow, TypeOK, entries, durable
<1>5. CASE Restrict \/ Shutdown \/ \E e \in Dirs, f \in Files, v \in 0 .. MaxVersion : Change(e, f, v)
  BY <1>1, <1>5 DEF Restrict, Shutdown, Change, TypeOK, entries, durable
<1>6. CASE \E bad, again \in SUBSET Dirs : Restart(bad, again)
  BY <1>1, <1>6 DEF Restart, durable
<1>7. CASE UNCHANGED vars
  BY <1>7 DEF vars, entries, durable
<1> QED
  BY <1>2, <1>3, <1>4, <1>5, <1>6, <1>7 DEF Next

\* What was removed stays removed, in memory and on disk, however late the
\* threads that were scanning it come to publish.
THEOREM RemovedStaysRemoved == Spec => GoneStaysGone
<1>1. IInv /\ StoredInv /\ [Next]_vars => [StaysGone]_vars
  BY GoneSteps
<1>2. Spec => []StoredInv
  BY StoredStart, StoredKeeps, Invariance, PTL DEF Spec
<1> QED
  BY <1>1, <1>2, Invariance, PTL DEF Spec, GoneStaysGone

=================================================================================
