--------------------------- MODULE ComponentsProofs ---------------------------
(***************************************************************************)
(* Proofs about the application actions, for any hosts, entries, processes, *)
(* operations and troubles, and about the parts of Components whose        *)
(* parameters are constants: ModelRequests, WorkspaceFile, ModelSettings,  *)
(* IndexWorker, IndexPipe, VolumeCatalog, EndpointProbes, VolumeSearch,    *)
(* FileCandidates, ResourceSampling and Observations, for any values of    *)
(* them that the assumptions allow.                                        *)
(*                                                                         *)
(* Each of these modules has an inductive invariant, Inductive, which says *)
(* what its property leaves open: what a request under way has reserved,   *)
(* what a save under way was compared with, in whose hands a key is, which *)
(* of a worker's states a client was told of, which call an instance of a  *)
(* pipe is for, which of the catalog's entries have a thread, what a probe *)
(* has not contacted yet, where a hit of a search that is not shown yet    *)
(* is, what a helper that opens a file may rely on, how the last point of  *)
(* a resource observation relates to the sampler's last call, and how far  *)
(* the reader of a cursor has come.  For each the first state has it       *)
(* (XStart) and a step keeps it (XStep).  What InventoryWatchProofs,       *)
(* FileIndexProofs and ServiceInstallProofs show is cited for the          *)
(* parameters they have here.  The last section puts all of it together,   *)
(* because a behaviour of the sum stays in its part.  Here the             *)
(* variables of the parts are v1 .. v17, in the order in which the parts   *)
(* declare them.                                                           *)
(***************************************************************************)
EXTENDS Components, Sequences, FiniteSetTheorems, TLAPS

-----------------------------------------------------------------------------
(* AppActions.  The lock is what the proofs turn on: from the question to    *)
(* the receipt one host holds it, so that no other opens the journal, whose  *)
(* recovery would take the operation for a crashed one.  HostInv says, for   *)
(* each step of that host, what its row and the history then are; RowsInv    *)
(* what the journal says of operations that have acted.                      *)

Rows == [life : Lifecycles, aged : {FALSE}, checked : BOOLEAN]
Works == [entry : [target : Targets \cup {NoHost}, seen : Nat],
          id : Ids \cup {NoHost}, life : Lifecycles]

\* Of an operation that has acted, a doubt has been looked at.
Settled(j, id) == j[id].life \in {"completed", "none"} \/ j[id].checked

Typed ==
    /\ TypeOK
    /\ rows \in [Ids -> Rows] /\ work \in [Hosts -> Works]

RowsInv ==
    /\ EffectsOnRecord
    /\ dispatched \subseteq approved
    /\ \A id \in cleared : rows[id].life = "none"

\* The operation of host h.
HostInv(h) ==
    LET w == work[h] IN
    /\ ~spent[h] => acted[h] = 0
    /\ step[h] # "idle" => lock = h /\ spent[h] /\ w.id \in Ids /\ w.id \notin cleared
    /\ step[h] = "asking" => w.id \notin approved
    /\ step[h] \in {"asking", "dispatching"} =>
          /\ acted[h] = 0 /\ w.id \notin dispatched
          /\ \A other \in dispatched : Settled(rows, other)
    /\ step[h] = "dispatching" => rows[w.id].life = "dispatching" /\ w.id \in approved
    /\ step[h] = "closing" =>
          \/ w.life \in {"completed", "unknown"}
          \/ w.life \in {"rejected", "expired", "failed_before_dispatch"} /\ w.id \notin dispatched

AppsInv == Typed /\ RowsInv /\ \A h \in Hosts : HostInv(h)

-----------------------------------------------------------------------------
(* The journal. *)

\* Opening only takes what is under way for unknown: no receipt has aged.
LEMMA OpenedIs ==
    ASSUME NEW j \in [Ids -> Rows]
    PROVE  /\ Opened(j, KindOf) \in [Ids -> Rows]
           /\ \A id \in Ids :
                 /\ Opened(j, KindOf)[id].life =
                       IF j[id].life = "dispatching" THEN "unknown" ELSE j[id].life
                 /\ Opened(j, KindOf)[id].checked = j[id].checked
<1> SUFFICES ASSUME NEW id \in Ids
             PROVE  /\ Opened(j, KindOf)[id] \in Rows
                    /\ Opened(j, KindOf)[id].life =
                          IF j[id].life = "dispatching" THEN "unknown" ELSE j[id].life
                    /\ Opened(j, KindOf)[id].checked = j[id].checked
  BY DEF Opened
<1>1. j[id] \in Rows
  OBVIOUS
<1>2. Opened(j, KindOf)[id] = Recovered(j[id])
  BY <1>1 DEF Opened, Pruned, Recovered, Rows
<1>3. j[id].life # "dispatched"
  BY <1>1 DEF Rows, Lifecycles
<1> QED
  BY <1>1, <1>2, <1>3 DEF Recovered, Interrupted, Rows, Lifecycles

\* What an operation that has acted is recorded as, after opening.
LEMMA OpenedKeeps ==
    ASSUME AppsInv, NEW j \in [Ids -> Rows],
           \A id \in Ids : /\ j[id].life = Opened(rows, KindOf)[id].life
                           /\ Opened(rows, KindOf)[id].checked => j[id].checked
    PROVE  /\ \A id \in dispatched : j[id].life \in {"dispatching", "unknown", "completed"}
                                     \/ id \in cleared
           /\ \A id \in cleared : j[id].life = "none"
           /\ ~InDoubt(j) => \A id \in dispatched : Settled(j, id)
<1>1. dispatched \subseteq Ids /\ cleared \subseteq Ids /\ rows \in [Ids -> Rows]
  BY DEF AppsInv, Typed, TypeOK
<1>2. \A id \in Ids :
         j[id].life = IF rows[id].life = "dispatching" THEN "unknown" ELSE rows[id].life
  BY <1>1, OpenedIs
<1>3. /\ \A id \in dispatched : j[id].life \in {"dispatching", "unknown", "completed"}
                                \/ id \in cleared
      /\ \A id \in cleared : j[id].life = "none"
  BY <1>1, <1>2 DEF AppsInv, RowsInv, EffectsOnRecord
<1>4. \A id \in dispatched : j[id].life # "dispatching"
  BY <1>1, <1>2
<1> QED
  BY <1>1, <1>3, <1>4 DEF InDoubt, Settled

\* Nobody is at work while the lock is free.
LEMMA AllIdle ==
    ASSUME AppsInv, lock = NoHost
    PROVE  \A h \in Hosts : step[h] = "idle"
  BY HostsAssumption DEF AppsInv, HostInv

\* Nor is anybody but the one who holds it.
LEMMA OthersIdle ==
    ASSUME AppsInv, NEW h \in Hosts, step[h] # "idle"
    PROVE  lock = h /\ \A g \in Hosts \ {h} : step[g] = "idle"
  BY DEF AppsInv, HostInv

LEMMA NoWorkIs == NoWork \in Works
<1>1. [target |-> NoHost, seen |-> 0] \in [target : Targets \cup {NoHost}, seen : Nat]
  OBVIOUS
<1> DEFINE e == [target |-> NoHost, seen |-> 0]
<1>2. NoWork = [entry |-> e, id |-> NoHost, life |-> "none"]
  BY DEF NoWork
<1>3. "none" \in Lifecycles
  BY DEF Lifecycles
<1>4. e \in [target : Targets \cup {NoHost}, seen : Nat]
  BY <1>1
<1> HIDE DEF e
<1> QED
  BY <1>2, <1>3, <1>4 DEF Works

-----------------------------------------------------------------------------
(* What a step changes. *)

\* A step of host h: whoever is at work holds the lock, and a step that
\* changes what it relies on is its own.
LEMMA HostStep ==
    ASSUME AppsInv, NEW h \in Hosts, Typed', RowsInv', HostInv(h)',
           \A g \in Hosts \ {h} : /\ spent'[g] = spent[g] /\ acted'[g] = acted[g]
                                  /\ step'[g] = step[g] /\ work'[g] = work[g],
           \A g \in Hosts \ {h} : \/ step[g] = "idle"
                                  \/ UNCHANGED <<rows, lock, dispatched, approved, cleared>>
    PROVE  AppsInv'
<1> SUFFICES ASSUME NEW g \in Hosts \ {h}
             PROVE  HostInv(g)'
  BY DEF AppsInv
<1>1. HostInv(g)
  BY DEF AppsInv
<1>2. CASE step[g] = "idle"
  BY <1>1, <1>2 DEF HostInv
<1>3. CASE UNCHANGED <<rows, lock, dispatched, approved, cleared>>
  BY <1>1, <1>3 DEF HostInv, Settled
<1> QED
  BY <1>2, <1>3

LEMMA RowsSame ==
    ASSUME AppsInv, UNCHANGED <<rows, dispatched, cleared>>, approved \subseteq approved'
    PROVE  RowsInv'
  BY DEF AppsInv, RowsInv, EffectsOnRecord

LEMMA ClosingIs ==
    ASSUME AppsInv, NEW h \in Hosts, NEW life \in Lifecycles, Closing(h, life)
    PROVE  /\ step' \in [Hosts -> {"idle", "asking", "dispatching", "closing"}]
           /\ work' \in [Hosts -> Works]
           /\ step'[h] = "closing" /\ work'[h].id = work[h].id /\ work'[h].life = life
           /\ \A g \in Hosts \ {h} : step'[g] = step[g] /\ work'[g] = work[g]
<1>1. work \in [Hosts -> Works] /\ work[h] \in Works
  BY DEF AppsInv, Typed
<1> DEFINE w == [work[h] EXCEPT !.life = life]
<1>2. w \in Works /\ w.id = work[h].id /\ w.life = life
  BY <1>1 DEF Works
<1>3. work' = [work EXCEPT ![h] = w]
  BY DEF Closing
<1> HIDE DEF w
<1> QED
  BY <1>1, <1>2, <1>3 DEF Closing, AppsInv, Typed, TypeOK

LEMMA AbandonIs ==
    ASSUME AppsInv, NEW h \in Hosts, Abandon(h)
    PROVE  /\ step' \in [Hosts -> {"idle", "asking", "dispatching", "closing"}]
           /\ work' \in [Hosts -> Works] /\ lock' = NoHost /\ step'[h] = "idle"
           /\ \A g \in Hosts \ {h} : step'[g] = step[g] /\ work'[g] = work[g]
  BY NoWorkIs DEF Abandon, AppsInv, Typed, TypeOK

\* One receipt is written.
LEMMA WrittenIs ==
    ASSUME AppsInv, NEW id \in Ids, NEW life \in Lifecycles,
           rows' = [rows EXCEPT ![id].life = life]
    PROVE  /\ rows' \in [Ids -> Rows] /\ rows'[id].life = life
           /\ \A other \in Ids \ {id} : rows'[other] = rows[other]
           /\ \A other \in Ids : rows'[other].checked = rows[other].checked
<1>1. rows \in [Ids -> Rows] /\ rows[id] \in Rows
  BY DEF AppsInv, Typed
<1> DEFINE r == [rows[id] EXCEPT !.life = life]
<1>2. r \in Rows /\ r.life = life /\ r.checked = rows[id].checked
  BY <1>1 DEF Rows
<1>3. rows' = [rows EXCEPT ![id] = r]
  OBVIOUS
<1> HIDE DEF r
<1> QED
  BY <1>1, <1>2, <1>3

\* The types, of a step that leaves the targets alone.
LEMMA StepTyped ==
    ASSUME AppsInv, rows' \in [Ids -> Rows], lock' \in Hosts \cup {NoHost},
           spent' \in [Hosts -> BOOLEAN], stopped' \in [Hosts -> BOOLEAN],
           step' \in [Hosts -> {"idle", "asking", "dispatching", "closing"}],
           work' \in [Hosts -> Works], acted' \in [Hosts -> Nat],
           dispatched' \subseteq Ids, approved' \subseteq Ids, cleared' \subseteq Ids,
           alive' \subseteq Processes, UNCHANGED incarnation
    PROVE  Typed'
<1>1. rows' \in [Ids -> [life : Lifecycles, aged : BOOLEAN, checked : BOOLEAN]]
  <2>1. \A r \in Rows : r \in [life : Lifecycles, aged : BOOLEAN, checked : BOOLEAN]
    BY DEF Rows
  <2> QED
    BY <2>1
<1> QED
  BY <1>1 DEF AppsInv, Typed, TypeOK

LEMMA Types ==
    ASSUME AppsInv
    PROVE  /\ rows \in [Ids -> Rows] /\ lock \in Hosts \cup {NoHost}
           /\ spent \in [Hosts -> BOOLEAN] /\ stopped \in [Hosts -> BOOLEAN]
           /\ step \in [Hosts -> {"idle", "asking", "dispatching", "closing"}]
           /\ work \in [Hosts -> Works] /\ acted \in [Hosts -> Nat]
           /\ dispatched \subseteq Ids /\ approved \subseteq Ids /\ cleared \subseteq Ids
           /\ alive \subseteq Processes
  BY DEF AppsInv, Typed, TypeOK

-----------------------------------------------------------------------------
(* The turn. *)

LEMMA BeginTurnKeeps ==
    ASSUME AppsInv, NEW h \in Hosts, BeginTurn(h)
    PROVE  AppsInv'
<1>1. /\ step[h] = "idle" /\ spent' = [spent EXCEPT ![h] = FALSE]
      /\ stopped' = [stopped EXCEPT ![h] = FALSE] /\ acted' = [acted EXCEPT ![h] = 0]
      /\ UNCHANGED <<rows, lock, step, work, alive, incarnation, dispatched, approved, cleared>>
  BY DEF BeginTurn, world
<1>2. Typed'
  BY <1>1, Types, StepTyped
<1>3. RowsInv'
  BY <1>1, RowsSame
<1>4. HostInv(h)'
  BY <1>1, Types DEF HostInv
<1> QED
  BY <1>1, <1>2, <1>3, <1>4, Types, HostStep

LEMMA CancelKeeps ==
    ASSUME AppsInv, NEW h \in Hosts, Cancel(h)
    PROVE  AppsInv'
<1>1. /\ stopped' = [stopped EXCEPT ![h] = TRUE]
      /\ UNCHANGED <<rows, lock, spent, step, work, alive, incarnation, dispatched, approved,
                     cleared, acted>>
  BY DEF Cancel, world, history
<1>2. Typed'
  BY <1>1, Types, StepTyped
<1>3. RowsInv'
  BY <1>1, RowsSame
<1>4. HostInv(h)'
  BY <1>1 DEF AppsInv, HostInv, Settled
<1> QED
  BY <1>1, <1>2, <1>3, <1>4, HostStep

LEMMA BlockTurnKeeps ==
    ASSUME AppsInv, NEW h \in Hosts, BlockTurn(h)
    PROVE  AppsInv'
<1>1. /\ step[h] = "idle" /\ spent' = [spent EXCEPT ![h] = TRUE]
      /\ UNCHANGED <<rows, lock, stopped, step, work, alive, incarnation, dispatched, approved,
                     cleared, acted>>
  BY DEF BlockTurn, world, history
<1>2. Typed'
  BY <1>1, Types, StepTyped
<1>3. RowsInv'
  BY <1>1, RowsSame
<1>4. HostInv(h)'
  BY <1>1, Types DEF HostInv
<1> QED
  BY <1>1, <1>2, <1>3, <1>4, Types, HostStep

LEMMA OfferedIs ==
    ASSUME AppsInv, NEW t \in Targets, NEW e \in Offered(t)
    PROVE  e \in [target : Targets \cup {NoHost}, seen : Nat]
<1>1. incarnation[t] \in Nat
  BY DEF AppsInv, Typed, TypeOK
<1>2. PICK n \in 0 .. incarnation[t] : e = [target |-> t, seen |-> n]
  BY DEF Offered, Discovered, Enumerated
<1> QED
  BY <1>1, <1>2

\* What the host finds when it opens the journal is all there is to find.
LEMMA ActKeeps ==
    ASSUME AppsInv, NEW h \in Hosts, NEW id \in Ids,
           NEW e \in [target : Targets \cup {NoHost}, seen : Nat], Act(h, e, id)
    PROVE  AppsInv'
<1> DEFINE journal == Opened(rows, KindOf)
<1>1. /\ step[h] = "idle" /\ ~spent[h] /\ spent' = [spent EXCEPT ![h] = TRUE]
      /\ UNCHANGED <<stopped, alive, incarnation, dispatched, approved, cleared, acted>>
      /\ \/ /\ lock = NoHost /\ rows' = journal
            /\ \/ UNCHANGED <<lock, step, work>>
               \/ /\ ~InDoubt(journal) /\ id \notin cleared \cup approved
                  /\ lock' = h /\ step' = [step EXCEPT ![h] = "asking"]
                  /\ work' = [work EXCEPT ![h] = [entry |-> e, id |-> id, life |-> "none"]]
         \/ UNCHANGED <<rows, lock, step, work>>
  BY DEF Act, world, history
<1>2. acted[h] = 0 /\ spent' \in [Hosts -> BOOLEAN] /\ spent'[h] = TRUE
  BY <1>1, Types DEF AppsInv, HostInv
<1>3. \A g \in Hosts \ {h} : spent'[g] = spent[g]
  BY <1>1, Types
<1>4. /\ journal \in [Ids -> Rows]
      /\ \A i \in dispatched : \/ journal[i].life \in {"dispatching", "unknown", "completed"}
                               \/ i \in cleared
      /\ \A i \in cleared : journal[i].life = "none"
      /\ ~InDoubt(journal) => \A i \in dispatched : Settled(journal, i)
  BY Types, OpenedIs, OpenedKeeps
<1> HIDE DEF journal
<1>5. CASE UNCHANGED <<rows, lock, step, work>>
  <2>1. Typed'
    BY <1>1, <1>2, <1>5, Types, StepTyped
  <2>2. RowsInv'
    BY <1>1, <1>5, RowsSame
  <2>3. HostInv(h)'
    BY <1>1, <1>2, <1>5 DEF HostInv
  <2> QED
    BY <1>1, <1>3, <1>5, <2>1, <2>2, <2>3, HostStep
<1>6. CASE lock = NoHost /\ rows' = journal
  <2>1. \A g \in Hosts : step[g] = "idle"
    BY <1>6, AllIdle
  <2>2. RowsInv'
    BY <1>1, <1>4, <1>6 DEF AppsInv, RowsInv, EffectsOnRecord
  <2>3. CASE UNCHANGED <<lock, step, work>>
    <3>1. Typed'
      BY <1>1, <1>2, <1>4, <1>6, <2>3, Types, StepTyped
    <3>2. HostInv(h)'
      BY <1>1, <1>2, <2>3 DEF HostInv
    <3> QED
      BY <1>1, <1>3, <2>1, <2>2, <2>3, <3>1, <3>2, HostStep
  <2>4. CASE /\ ~InDoubt(journal) /\ id \notin cleared \cup approved
             /\ lock' = h /\ step' = [step EXCEPT ![h] = "asking"]
             /\ work' = [work EXCEPT ![h] = [entry |-> e, id |-> id, life |-> "none"]]
    <3> DEFINE w == [entry |-> e, id |-> id, life |-> "none"]
    <3>1. w \in Works /\ w.id = id
      BY DEF Works, Lifecycles
    <3>2. work' = [work EXCEPT ![h] = w]
      BY <2>4
    <3> HIDE DEF w
    <3>3. /\ work' \in [Hosts -> Works] /\ work'[h] = w
          /\ step' \in [Hosts -> {"idle", "asking", "dispatching", "closing"}]
          /\ step'[h] = "asking"
          /\ \A g \in Hosts \ {h} : step'[g] = step[g] /\ work'[g] = work[g]
      BY <2>4, <3>1, <3>2, Types
    <3>4. Typed'
      BY <1>1, <1>2, <1>4, <1>6, <2>4, <3>3, Types, StepTyped
    <3>5. id \notin dispatched
      BY <2>4 DEF AppsInv, RowsInv
    <3>6. \A other \in dispatched' : Settled(rows', other)
      BY <1>1, <1>4, <1>6, <2>4
    <3>7. HostInv(h)'
      BY <1>1, <1>2, <2>4, <3>1, <3>3, <3>5, <3>6 DEF HostInv, Settled
    <3> QED
      BY <1>1, <1>3, <2>1, <2>2, <3>3, <3>4, <3>7, HostStep
  <2> QED
    BY <1>1, <1>6, <2>3, <2>4, <1>5
<1> QED
  BY <1>1, <1>5, <1>6

-----------------------------------------------------------------------------
(* The action, of the host that holds the lock. *)

LEMMA DeclineKeeps ==
    ASSUME AppsInv, NEW h \in Hosts, Decline(h)
    PROVE  AppsInv'
<1>1. /\ step[h] = "asking"
      /\ UNCHANGED <<rows, spent, stopped, alive, incarnation, dispatched, approved, cleared,
                     acted>>
      /\ \/ \E life \in {"rejected", "expired"} : Closing(h, life) /\ UNCHANGED lock
         \/ Abandon(h)
  BY DEF Decline, world, history
<1>2. \A g \in Hosts \ {h} : step[g] = "idle"
  BY <1>1, OthersIdle
<1>3. /\ ~spent[h] => acted[h] = 0
      /\ lock = h /\ spent[h] /\ work[h].id \in Ids
      /\ work[h].id \notin cleared /\ work[h].id \notin dispatched
  BY <1>1 DEF AppsInv, HostInv
<1>4. RowsInv'
  BY <1>1, RowsSame
<1>5. ASSUME NEW life \in {"rejected", "expired"}, Closing(h, life), UNCHANGED lock
      PROVE  AppsInv'
  <2>1. life \in Lifecycles
    BY DEF Lifecycles
  <2>2. Typed'
    BY <1>1, <1>5, <2>1, Types, ClosingIs, StepTyped
  <2>3. HostInv(h)'
    BY <1>1, <1>3, <1>5, <2>1, ClosingIs DEF HostInv
  <2> QED
    BY <1>1, <1>2, <1>4, <1>5, <2>1, <2>2, <2>3, ClosingIs, HostStep
<1>6. CASE Abandon(h)
  <2>1. Typed'
    BY <1>1, <1>6, Types, AbandonIs, StepTyped
  <2>2. HostInv(h)'
    BY <1>1, <1>3, <1>6, AbandonIs DEF HostInv
  <2> QED
    BY <1>1, <1>2, <1>4, <1>6, <2>1, <2>2, AbandonIs, HostStep
<1> QED
  BY <1>1, <1>5, <1>6

LEMMA ApproveKeeps ==
    ASSUME AppsInv, NEW h \in Hosts, Approve(h)
    PROVE  AppsInv'
<1> DEFINE id == work[h].id
<1>1. /\ step[h] = "asking" /\ approved' = approved \cup {id}
      /\ UNCHANGED <<spent, stopped, alive, incarnation, dispatched, cleared, acted>>
      /\ \/ /\ rows' = [rows EXCEPT ![id].life = "dispatching"]
            /\ step' = [step EXCEPT ![h] = "dispatching"] /\ UNCHANGED <<lock, work>>
         \/ Abandon(h) /\ UNCHANGED rows
  BY DEF Approve, world
<1>2. \A g \in Hosts \ {h} : step[g] = "idle"
  BY <1>1, OthersIdle
<1>3. /\ acted[h] = 0 /\ lock = h /\ spent[h] /\ id \in Ids
      /\ id \notin cleared /\ id \notin dispatched
      /\ \A other \in dispatched : Settled(rows, other)
  BY <1>1 DEF AppsInv, HostInv
<1>4. approved' \subseteq Ids /\ approved \subseteq approved'
  BY <1>1, <1>3, Types
<1> HIDE DEF id
<1>5. CASE Abandon(h) /\ UNCHANGED rows
  <2>1. Typed'
    BY <1>1, <1>4, <1>5, Types, AbandonIs, StepTyped
  <2>2. RowsInv'
    BY <1>1, <1>4, <1>5, RowsSame
  <2>3. HostInv(h)'
    BY <1>1, <1>3, <1>5, AbandonIs DEF HostInv
  <2> QED
    BY <1>1, <1>2, <1>5, <2>1, <2>2, <2>3, AbandonIs, HostStep
<1>6. CASE /\ rows' = [rows EXCEPT ![id].life = "dispatching"]
           /\ step' = [step EXCEPT ![h] = "dispatching"] /\ UNCHANGED <<lock, work>>
  <2>1. "dispatching" \in Lifecycles
    BY DEF Lifecycles
  <2>2. /\ rows' \in [Ids -> Rows] /\ rows'[id].life = "dispatching"
        /\ \A other \in Ids \ {id} : rows'[other] = rows[other]
        /\ \A other \in Ids : rows'[other].checked = rows[other].checked
    BY <1>3, <1>6, <2>1, WrittenIs
  <2>3. /\ step' \in [Hosts -> {"idle", "asking", "dispatching", "closing"}]
        /\ step'[h] = "dispatching" /\ \A g \in Hosts \ {h} : step'[g] = step[g]
    BY <1>6, Types
  <2>4. Typed'
    BY <1>1, <1>4, <1>6, <2>2, <2>3, Types, StepTyped
  <2>5. RowsInv'
    BY <1>1, <1>3, <1>4, <2>2, Types DEF AppsInv, RowsInv, EffectsOnRecord
  <2>6. \A other \in dispatched : Settled(rows', other)
    BY <1>3, <2>2, Types DEF Settled
  <2>7. HostInv(h)'
    BY <1>1, <1>3, <1>6, <2>2, <2>3, <2>6 DEF HostInv, Settled, id
  <2> QED
    BY <1>1, <1>2, <1>6, <2>3, <2>4, <2>5, <2>7, HostStep
<1> QED
  BY <1>1, <1>5, <1>6

\* Launch and Terminate: the effect, if there is one, and how it is closed.
LEMMA DispatchKeeps ==
    ASSUME AppsInv, NEW h \in Hosts, step[h] = "dispatching", NEW life \in Lifecycles,
           Closing(h, life),
           \/ Effect(h) /\ life \in {"completed", "unknown"}
           \/ NoEffect /\ life \in {"completed", "failed_before_dispatch"},
           alive' \subseteq Processes,
           UNCHANGED <<rows, lock, spent, stopped, incarnation, approved, cleared>>
    PROVE  AppsInv'
<1> DEFINE id == work[h].id
<1>1. \A g \in Hosts \ {h} : step[g] = "idle"
  BY OthersIdle
<1>2. /\ acted[h] = 0 /\ lock = h /\ spent[h] /\ id \in Ids /\ id \notin cleared
      /\ id \notin dispatched /\ rows[id].life = "dispatching" /\ id \in approved
  BY DEF AppsInv, HostInv
<1>3. /\ step' \in [Hosts -> {"idle", "asking", "dispatching", "closing"}]
      /\ work' \in [Hosts -> Works]
      /\ step'[h] = "closing" /\ work'[h].id = id /\ work'[h].life = life
      /\ \A g \in Hosts \ {h} : step'[g] = step[g] /\ work'[g] = work[g]
  BY ClosingIs
<1>4. \/ dispatched' = dispatched \cup {id} /\ acted' = [acted EXCEPT ![h] = @ + 1]
      \/ dispatched' = dispatched /\ acted' = acted
  BY DEF Effect, NoEffect
<1> HIDE DEF id
<1>5. /\ dispatched' \subseteq Ids /\ acted' \in [Hosts -> Nat]
      /\ \A g \in Hosts \ {h} : acted'[g] = acted[g]
  BY <1>2, <1>4, Types
<1>6. Typed'
  BY <1>3, <1>5, Types, StepTyped
<1>7. RowsInv'
  BY <1>2, <1>4 DEF AppsInv, RowsInv, EffectsOnRecord
<1>8. HostInv(h)'
  <2>1. life \notin {"completed", "unknown"} => id \notin dispatched'
    BY <1>2 DEF NoEffect
  <2> QED
    BY <1>2, <1>3, <2>1 DEF HostInv
<1> QED
  BY <1>1, <1>3, <1>5, <1>6, <1>7, <1>8, HostStep

LEMMA LaunchKeeps ==
    ASSUME AppsInv, NEW h \in Hosts, Launch(h)
    PROVE  AppsInv'
<1>1. /\ step[h] = "dispatching"
      /\ UNCHANGED <<rows, lock, spent, stopped, alive, incarnation, approved, cleared>>
      /\ \/ Effect(h) /\ Closing(h, "completed")
         \/ NoEffect /\ Closing(h, "failed_before_dispatch")
  BY DEF Launch, world
<1>2. "completed" \in Lifecycles /\ "failed_before_dispatch" \in Lifecycles
  BY DEF Lifecycles
<1>3. alive' \subseteq Processes
  BY <1>1, Types
<1> QED
  BY <1>1, <1>2, <1>3, DispatchKeeps

LEMMA TerminateKeeps ==
    ASSUME AppsInv, NEW h \in Hosts, Terminate(h)
    PROVE  AppsInv'
<1>1. /\ step[h] = "dispatching" /\ alive' \subseteq alive
      /\ UNCHANGED <<rows, lock, spent, stopped, incarnation, approved, cleared>>
      /\ \/ Effect(h) /\ (Closing(h, "completed") \/ Closing(h, "unknown"))
         \/ NoEffect /\ (Closing(h, "completed") \/ Closing(h, "failed_before_dispatch"))
  BY DEF Terminate
<1>2. /\ "completed" \in Lifecycles /\ "failed_before_dispatch" \in Lifecycles
      /\ "unknown" \in Lifecycles
  BY DEF Lifecycles
<1>3. alive' \subseteq Processes
  BY <1>1, Types
<1> QED
  BY <1>1, <1>2, <1>3, DispatchKeeps

LEMMA CloseKeeps ==
    ASSUME AppsInv, NEW h \in Hosts, Close(h)
    PROVE  AppsInv'
<1> DEFINE id == work[h].id
           life == work[h].life
<1>1. /\ step[h] = "closing" /\ Abandon(h)
      /\ UNCHANGED <<spent, stopped, alive, incarnation, dispatched, approved, cleared, acted>>
      /\ rows' = [rows EXCEPT ![id].life = life] \/ UNCHANGED rows
  BY DEF Close, world, history
<1>2. \A g \in Hosts \ {h} : step[g] = "idle"
  BY <1>1, OthersIdle
<1>3. /\ ~spent[h] => acted[h] = 0
      /\ id \in Ids /\ id \notin cleared
      /\ \/ life \in {"completed", "unknown"}
         \/ life \in {"rejected", "expired", "failed_before_dispatch"} /\ id \notin dispatched
  BY <1>1 DEF AppsInv, HostInv
<1>4. life \in Lifecycles
  BY <1>3 DEF Lifecycles
<1> HIDE DEF id, life
<1>5. HostInv(h)'
  BY <1>1, <1>3, AbandonIs DEF HostInv
<1>6. CASE UNCHANGED rows
  <2>1. Typed'
    BY <1>1, <1>6, Types, AbandonIs, StepTyped
  <2>2. RowsInv'
    BY <1>1, <1>6, RowsSame
  <2> QED
    BY <1>1, <1>2, <1>5, <2>1, <2>2, AbandonIs, HostStep
<1>7. CASE rows' = [rows EXCEPT ![id].life = life]
  <2>1. /\ rows' \in [Ids -> Rows] /\ rows'[id].life = life
        /\ \A other \in Ids \ {id} : rows'[other] = rows[other]
    BY <1>3, <1>4, <1>7, WrittenIs
  <2>2. Typed'
    BY <1>1, <2>1, Types, AbandonIs, StepTyped
  <2>3. RowsInv'
    BY <1>1, <1>3, <2>1, Types DEF AppsInv, RowsInv, EffectsOnRecord
  <2> QED
    BY <1>1, <1>2, <1>5, <2>2, <2>3, AbandonIs, HostStep
<1> QED
  BY <1>1, <1>6, <1>7

-----------------------------------------------------------------------------
(* Receipts, which the user manages while nobody is at work, and the rest. *)

LEMMA ManageKeeps ==
    ASSUME AppsInv, lock = NoHost, rows' \in [Ids -> Rows],
           cleared' \subseteq Ids, RowsInv',
           UNCHANGED <<lock, spent, stopped, step, work, alive, incarnation, dispatched, approved,
                       acted>>
    PROVE  AppsInv'
<1>1. \A h \in Hosts : step[h] = "idle"
  BY AllIdle
<1>2. Typed'
  BY Types, StepTyped
<1>3. \A h \in Hosts : HostInv(h)'
  BY <1>1 DEF AppsInv, HostInv
<1> QED
  BY <1>2, <1>3 DEF AppsInv

LEMMA OpenJournalKeeps ==
    ASSUME AppsInv, NEW h \in Hosts, OpenJournal(h)
    PROVE  AppsInv'
<1> DEFINE journal == Opened(rows, KindOf)
<1>1. /\ lock = NoHost /\ rows' = journal
      /\ UNCHANGED <<lock, spent, stopped, step, work, alive, incarnation, dispatched, approved,
                     cleared, acted>>
  BY DEF OpenJournal, host, world, history
<1>2. /\ journal \in [Ids -> Rows]
      /\ \A i \in dispatched : \/ journal[i].life \in {"dispatching", "unknown", "completed"}
                               \/ i \in cleared
      /\ \A i \in cleared : journal[i].life = "none"
  BY Types, OpenedIs, OpenedKeeps
<1> HIDE DEF journal
<1>3. RowsInv'
  BY <1>1, <1>2 DEF AppsInv, RowsInv, EffectsOnRecord
<1> QED
  BY <1>1, <1>2, <1>3, Types, ManageKeeps

LEMMA ReconcileKeeps ==
    ASSUME AppsInv, NEW h \in Hosts, NEW id \in Ids, Reconcile(h, id)
    PROVE  AppsInv'
<1> DEFINE journal == Opened(rows, KindOf)
           looked == [journal EXCEPT ![id].checked = TRUE]
<1>1. /\ lock = NoHost /\ rows' \in {journal, looked}
      /\ UNCHANGED <<lock, spent, stopped, step, work, alive, incarnation, dispatched, approved,
                     cleared, acted>>
  BY DEF Reconcile, host, world, history
<1>2. journal \in [Ids -> Rows]
  BY Types, OpenedIs
<1>3. /\ looked \in [Ids -> Rows]
      /\ \A i \in Ids : looked[i].life = journal[i].life /\ (journal[i].checked => looked[i].checked)
  <2> HIDE DEF journal
  <2> DEFINE r == [journal[id] EXCEPT !.checked = TRUE]
  <2>1. journal[id] \in Rows
    BY <1>2
  <2>2. r \in Rows /\ r.life = journal[id].life /\ r.checked = TRUE
    BY <2>1 DEF Rows
  <2>3. looked = [journal EXCEPT ![id] = r]
    OBVIOUS
  <2> HIDE DEF r, looked
  <2> QED
    BY <1>2, <2>2, <2>3
<1>4. /\ rows' \in [Ids -> Rows]
      /\ \A i \in Ids : rows'[i].life = journal[i].life /\ (journal[i].checked => rows'[i].checked)
  <2> HIDE DEF journal, looked
  <2> QED
    BY <1>1, <1>2, <1>3
<1>5. PICK j \in [Ids -> Rows] : j = rows'
  BY <1>4
<1>6. /\ \A i \in dispatched : \/ j[i].life \in {"dispatching", "unknown", "completed"}
                               \/ i \in cleared
      /\ \A i \in cleared : j[i].life = "none"
  <2>1. \A i \in Ids : /\ j[i].life = Opened(rows, KindOf)[i].life
                       /\ Opened(rows, KindOf)[i].checked => j[i].checked
    BY <1>4, <1>5
  <2> QED
    BY <2>1, OpenedKeeps
<1> HIDE DEF journal, looked
<1>7. RowsInv'
  BY <1>1, <1>5, <1>6 DEF AppsInv, RowsInv, EffectsOnRecord
<1> QED
  BY <1>1, <1>4, <1>7, Types, ManageKeeps

LEMMA ClearCompletedKeeps ==
    ASSUME AppsInv, NEW h \in Hosts, ClearCompleted(h)
    PROVE  AppsInv'
<1> DEFINE journal == Opened(rows, KindOf)
<1>1. /\ lock = NoHost
      /\ rows' = [id \in Ids |-> Pruned("application", journal[id], TRUE)]
      /\ cleared' = cleared \cup {id \in Ids : rows[id].life \notin {"none"} /\ rows'[id].life = "none"}
      /\ UNCHANGED <<lock, spent, stopped, step, work, alive, incarnation, dispatched, approved,
                     acted>>
  BY DEF ClearCompleted, host, world
<1>2. /\ journal \in [Ids -> Rows]
      /\ \A i \in Ids : journal[i].life = IF rows[i].life = "dispatching" THEN "unknown" ELSE rows[i].life
      /\ \A i \in dispatched : \/ journal[i].life \in {"dispatching", "unknown", "completed"}
                               \/ i \in cleared
      /\ \A i \in cleared : journal[i].life = "none"
  BY Types, OpenedIs, OpenedKeeps
<1> HIDE DEF journal
<1>3. \A i \in Ids : /\ rows'[i] \in Rows
                     /\ rows'[i].life \in {journal[i].life, "none"}
  <2> SUFFICES ASSUME NEW i \in Ids
               PROVE  rows'[i] \in Rows /\ rows'[i].life \in {journal[i].life, "none"}
    OBVIOUS
  <2>1. journal[i] \in Rows /\ rows'[i] = Pruned("application", journal[i], TRUE)
    BY <1>1, <1>2
  <2> QED
    BY <2>1 DEF Pruned, Rows, Lifecycles
<1>4. rows' \in [Ids -> Rows]
  BY <1>1, <1>3
<1>5. RowsInv'
  <2>1. \A i \in Ids : rows'[i].life # "none" => rows'[i].life = journal[i].life
    BY <1>3
  <2>2. \A i \in Ids : rows'[i].life = "none" => i \in cleared' \/ rows[i].life = "none"
    BY <1>1
  <2>3. \A i \in dispatched : rows[i].life = "none" => i \in cleared
    BY DEF AppsInv, RowsInv, EffectsOnRecord
  <2>4. EffectsOnRecord'
    BY <1>1, <1>2, <2>1, <2>2, <2>3, Types DEF EffectsOnRecord
  <2>5. \A i \in cleared' : rows'[i].life = "none"
    BY <1>1, <1>2, <1>3, Types
  <2> QED
    BY <1>1, <2>4, <2>5 DEF AppsInv, RowsInv
<1>6. cleared' \subseteq Ids
  BY <1>1, Types
<1> QED
  BY <1>1, <1>4, <1>5, <1>6, ManageKeeps

LEMMA CrashKeeps ==
    ASSUME AppsInv, NEW h \in Hosts, Crash(h)
    PROVE  AppsInv'
<1>1. /\ lock' = (IF lock = h THEN NoHost ELSE lock)
      /\ spent' = [spent EXCEPT ![h] = FALSE] /\ stopped' = [stopped EXCEPT ![h] = FALSE]
      /\ step' = [step EXCEPT ![h] = "idle"] /\ work' = [work EXCEPT ![h] = NoWork]
      /\ acted' = [acted EXCEPT ![h] = 0]
      /\ UNCHANGED <<rows, alive, incarnation, dispatched, approved, cleared>>
  BY DEF Crash, world
<1>2. Typed'
  BY <1>1, Types, NoWorkIs, StepTyped
<1>3. RowsInv'
  BY <1>1, RowsSame
<1>4. HostInv(h)'
  BY <1>1, Types DEF HostInv
<1>5. \A g \in Hosts \ {h} : step[g] = "idle" \/ UNCHANGED <<rows, lock, dispatched, approved, cleared>>
  BY <1>1 DEF AppsInv, HostInv
<1> QED
  BY <1>1, <1>2, <1>3, <1>4, <1>5, Types, HostStep

LEMMA ChangeKeeps ==
    ASSUME AppsInv, NEW t \in Targets, Change(t)
    PROVE  AppsInv'
<1>1. /\ UNCHANGED <<rows, lock, spent, stopped, step, work, dispatched, approved, cleared, acted>>
      /\ alive' \subseteq alive \cup ({t} \cap Processes)
      /\ incarnation' = [incarnation EXCEPT ![t] = @ + 1] \/ UNCHANGED incarnation
  BY DEF Change, host, history
<1>2. alive' \subseteq Processes /\ incarnation' \in [Targets -> Nat]
  BY <1>1 DEF AppsInv, Typed, TypeOK
<1>3. Typed'
  BY <1>1, <1>2 DEF AppsInv, Typed, TypeOK
<1>4. RowsInv'
  BY <1>1, RowsSame
<1>5. \A h \in Hosts : HostInv(h)'
  BY <1>1 DEF AppsInv, HostInv, Settled
<1> QED
  BY <1>3, <1>4, <1>5 DEF AppsInv

-----------------------------------------------------------------------------
(* The invariant, and what follows from it. *)

LEMMA AppsStart == Init => AppsInv
<1> SUFFICES ASSUME Init
             PROVE  AppsInv
  OBVIOUS
<1>1. Typed
  <2>1. NoRow \in Rows /\ NoRow \in [life : Lifecycles, aged : BOOLEAN, checked : BOOLEAN]
    BY DEF NoRow, Rows, Lifecycles
  <2> HIDE DEF NoRow
  <2> QED
    BY <2>1, NoWorkIs DEF Init, Typed, TypeOK
<1>2. RowsInv
  BY DEF Init, RowsInv, EffectsOnRecord
<1>3. \A h \in Hosts : HostInv(h)
  BY DEF Init, HostInv
<1> QED
  BY <1>1, <1>2, <1>3 DEF AppsInv

LEMMA AppsStep ==
    ASSUME AppsInv, [Next]_vars
    PROVE  AppsInv'
<1>1. ASSUME NEW h \in Hosts, Turn(h)
      PROVE  AppsInv'
  <2>1. ASSUME NEW t \in Targets, NEW id \in Ids, NEW e \in Offered(t), Act(h, e, id)
        PROVE  AppsInv'
    BY <2>1, OfferedIs, ActKeeps
  <2> QED
    BY <1>1, <2>1, BeginTurnKeeps, CancelKeeps, BlockTurnKeeps, DeclineKeeps, ApproveKeeps,
       LaunchKeeps, TerminateKeeps, CloseKeeps DEF Turn
<1>2. ASSUME NEW h \in Hosts, Manage(h)
      PROVE  AppsInv'
  BY <1>2, OpenJournalKeeps, ClearCompletedKeeps, CrashKeeps, ReconcileKeeps DEF Manage
<1>3. ASSUME NEW t \in Targets, Change(t)
      PROVE  AppsInv'
  BY <1>3, ChangeKeeps
<1>4. CASE UNCHANGED vars
  <2>1. /\ UNCHANGED <<rows, lock, spent, stopped, step, work, alive, incarnation>>
        /\ UNCHANGED <<dispatched, approved, cleared, acted>>
    BY <1>4 DEF vars, host, world, history
  <2>2. Typed'
    BY <2>1, Types, StepTyped
  <2>3. RowsInv'
    BY <2>1, RowsSame
  <2>4. \A h \in Hosts : HostInv(h)'
    BY <2>1 DEF AppsInv, HostInv, Settled
  <2> QED
    BY <2>2, <2>3, <2>4 DEF AppsInv
<1> QED
  BY <1>1, <1>2, <1>3, <1>4 DEF Next

\* A step that acts finds the operation approved and nothing in doubt.
LEMMA KnowingSteps ==
    ASSUME AppsInv, [Next]_vars
    PROVE  ActedKnowingly
<1>1. ASSUME NEW h \in Hosts, step[h] = "dispatching",
             \/ Effect(h) /\ incarnation[work[h].entry.target] = work[h].entry.seen
             \/ NoEffect
      PROVE  ActedKnowingly
  <2>1. dispatched' \subseteq dispatched \cup {work[h].id}
    BY <1>1 DEF Effect, NoEffect
  <2>2. /\ work[h].id \in approved /\ acted[h] = 0
        /\ \A other \in dispatched : Settled(rows, other)
    BY <1>1 DEF AppsInv, HostInv
  <2>3. dispatched' # dispatched => incarnation[work[h].entry.target] = work[h].entry.seen
    BY <1>1 DEF NoEffect
  <2> QED
    BY <2>1, <2>2, <2>3 DEF ActedKnowingly, Settled
<1>2. ASSUME NEW h \in Hosts, Launch(h)
      PROVE  ActedKnowingly
  BY <1>1, <1>2 DEF Launch, Pinned
<1>3. ASSUME NEW h \in Hosts, Terminate(h)
      PROVE  ActedKnowingly
  BY <1>1, <1>3 DEF Terminate
<1>4. CASE UNCHANGED dispatched
  BY <1>4 DEF ActedKnowingly
<1>5. ASSUME NEW h \in Hosts, \/ BeginTurn(h) \/ Cancel(h) \/ BlockTurn(h)
                              \/ Decline(h) \/ Approve(h) \/ Close(h)
      PROVE  UNCHANGED dispatched
  BY <1>5 DEF BeginTurn, Cancel, BlockTurn, Decline, Approve, Close, history
<1>6. ASSUME NEW h \in Hosts, NEW id \in Ids, NEW e, Act(h, e, id)
      PROVE  UNCHANGED dispatched
  BY <1>6 DEF Act, history
<1>7. ASSUME NEW h \in Hosts, Manage(h)
      PROVE  UNCHANGED dispatched
  BY <1>7 DEF Manage, OpenJournal, ClearCompleted, Crash, Reconcile, history
<1>8. ASSUME NEW t \in Targets, Change(t)
      PROVE  UNCHANGED dispatched
  BY <1>8 DEF Change, history
<1>9. UNCHANGED vars => UNCHANGED dispatched
  BY DEF vars, history
<1> QED
  BY <1>1, <1>2, <1>3, <1>4, <1>5, <1>6, <1>7, <1>8, <1>9 DEF Next, Turn

-----------------------------------------------------------------------------
(* ModelRequests *)

\* Nothing is reserved, and nothing is billed.
LEMMA RequestsStart ==
    ASSUME Requests!Init
    PROVE  Requests!Inductive
  BY DEF Requests!Init, Requests!Inductive, Requests!TypeOK, Requests!NoRequest,
         Requests!Outstanding, Requests!BillIsCovered

\* What is billed never exceeds what is counted and reserved.
LEMMA RequestsStep ==
    ASSUME Requests!Inductive, [Requests!Next]_(Requests!vars)
    PROVE  Requests!Inductive'
<1> USE TokensAssumption
    DEF Requests!Inductive, Requests!TypeOK, Requests!Outstanding, Requests!BillIsCovered,
        Requests!NoRequest
<1>1. CASE Requests!Configure
  BY <1>1 DEF Requests!Configure
<1>2. ASSUME NEW check \in BOOLEAN, NEW step_ \in {"sent", "last"}, Requests!Send(check, step_)
      PROVE  Requests!Inductive'
  BY <1>2 DEF Requests!Send, Requests!LimitFor
<1>3. CASE Requests!Answer
  <2>1. PICK charge \in 0 .. v4.reserved :
          /\ v5' = v5 + charge
          /\ Requests!Settle(0) \/ Requests!Settle(charge)
    BY <1>3 DEF Requests!Answer, Requests!Charged
  <2>2. /\ v4.step \in {"sent", "last"} /\ v4.reserved \in Nat
        /\ v3' = v3 /\ v6' = v6 /\ Requests!Done
    BY <1>3 DEF Requests!Answer
  <2>3. v4' \in [step : {"none", "second"}, reserved : {0}, check : BOOLEAN]
    BY <2>2 DEF Requests!Done
  <2>4. /\ {v1', v2'} \subseteq Nat /\ v1' + v2' <= v1 + v2
        /\ v5 + charge <= v1' + v2'
    BY <2>1, <2>2 DEF Requests!Settle
  <2> QED
    BY <2>1, <2>2, <2>3, <2>4
<1>4. CASE Requests!Fail
  BY <1>4 DEF Requests!Fail, Requests!Charged
<1>5. CASE Requests!CheckEnds
  BY <1>5 DEF Requests!CheckEnds
<1>6. CASE UNCHANGED Requests!vars
  BY <1>6 DEF Requests!vars
<1> QED
  BY <1>1, <1>2, <1>3, <1>4, <1>5, <1>6
  DEF Requests!Next, Requests!Begin, Requests!BeginSecond

-----------------------------------------------------------------------------
(* WorkspaceFile *)

\* No process has the file open.
LEMMA WorkspaceStart ==
    ASSUME Workspace!Init
    PROVE  Workspace!Inductive
  BY DEF Workspace!Init, Workspace!Inductive, Workspace!TypeOK, Workspace!Contents,
         Workspace!MayWrite

\* Who may save holds the lock, and nobody else has written what it is about
\* to write over.
LEMMA WorkspaceStep ==
    ASSUME Workspace!Inductive, [Workspace!Next]_(Workspace!vars)
    PROVE  Workspace!Inductive'
<1> USE NoneAssumption
    DEF Workspace!Inductive, Workspace!TypeOK, Workspace!Contents, Workspace!MayWrite
<1>1. ASSUME NEW p \in Desktops, Workspace!Start(p)
      PROVE  Workspace!Inductive'
  BY <1>1 DEF Workspace!Start
<1>2. ASSUME NEW p \in Desktops, Workspace!Load(p)
      PROVE  Workspace!Inductive'
  <2>1. v2 \in {None, p} /\ v2' = p /\ UNCHANGED <<v1, v3, v6, v7>>
    BY <1>2 DEF Workspace!Load, Workspace!LockFor
  <2>2. /\ v4' \in [Desktops -> BOOLEAN] /\ v5' \in [Desktops -> Texts \cup {Missing}]
        /\ \A q \in Desktops \ {p} : v4'[q] = v4[q] /\ v5'[q] = v5[q]
    <3>1. CASE v1 # Damaged /\ v5' = [v5 EXCEPT ![p] = v1] /\ v4' = [v4 EXCEPT ![p] = TRUE]
      <4>1. v1 \in Texts \cup {Missing}
        BY <3>1
      <4> QED
        BY <3>1, <4>1
    <3>2. CASE UNCHANGED <<v4, v5>>
      BY <3>2
    <3> QED
      BY <1>2, <3>1, <3>2 DEF Workspace!Load
  <2>3. v3[p] = "up"
    BY <1>2 DEF Workspace!Load
  <2> QED
    BY <2>1, <2>2, <2>3
<1>3. ASSUME NEW p \in Desktops, Workspace!Compare(p)
      PROVE  Workspace!Inductive'
  BY <1>3 DEF Workspace!Compare
<1>4. ASSUME NEW p \in Desktops, Workspace!Persist(p)
      PROVE  Workspace!Inductive'
  BY <1>4 DEF Workspace!Persist, Workspace!SaveOver
<1>5. ASSUME NEW p \in Desktops, Workspace!PersistFails(p)
      PROVE  Workspace!Inductive'
  BY <1>5 DEF Workspace!PersistFails, Workspace!SaveOver
<1>6. ASSUME NEW p \in Desktops, Workspace!Exit(p)
      PROVE  Workspace!Inductive'
  BY <1>6 DEF Workspace!Exit
<1>7. CASE Workspace!Outside
  BY <1>7 DEF Workspace!Outside
<1>8. CASE UNCHANGED Workspace!vars
  BY <1>8 DEF Workspace!vars
<1> QED
  BY <1>1, <1>2, <1>3, <1>4, <1>5, <1>6, <1>7, <1>8 DEF Workspace!Next

\* So what it writes over is what it has seen.
LEMMA WorkspaceWrites ==
    ASSUME Workspace!Inductive
    PROVE  Workspace!WritesOverSeen
  BY DEF Workspace!Inductive, Workspace!MayWrite, Workspace!WritesOverSeen

-----------------------------------------------------------------------------
(* ModelSettings *)

\* No key is kept anywhere, and none was sent.
LEMMA SettingsStart ==
    ASSUME Settings!Init
    PROVE  Settings!Inductive
<1>1. /\ v3 = Settings!DeskAtRest /\ v5 = Settings!LineAtRest /\ v2 = Settings!NoKeys
      /\ v4 = Settings!NoKeys /\ v6 = Settings!NoKeys
      /\ v1 \in Settings!Configs /\ v7 = {} /\ v8 = FALSE
  BY DEF Settings!Init
<1>2. v3 \in Settings!Page /\ v3.step = "idle"
  BY <1>1 DEF Settings!DeskAtRest, Settings!Page
<1>3. v5 \in Settings!Command /\ v5.step = "out"
  BY <1>1 DEF Settings!LineAtRest, Settings!Command, Settings!Keys
<1>4. /\ Settings!NoKeys \in [Services -> Settings!Keys]
      /\ Settings!AtHome(v2) /\ Settings!AtHome(v4) /\ Settings!AtHome(v6)
  BY <1>1 DEF Settings!NoKeys, Settings!Keys, Settings!AtHome
<1> QED
  BY <1>1, <1>2, <1>3, <1>4
  DEF Settings!Inductive, Settings!TypeOK, Settings!InDialogue, Settings!InSave,
      Settings!KeysStayHome

\* What resolves for a service is its own key, or that of the environment.
LEMMA ResolvesOwn ==
    ASSUME NEW own, Settings!AtHome(own), Settings!AtHome(v2), NEW s \in Services
    PROVE  Settings!Resolve(s, own) \in {s, Env, None}
  BY DEF Settings!AtHome, Settings!Resolve, Settings!Target

\* So a request made with it tells no other service.
LEMMA OwnRequest ==
    ASSUME Settings!Inductive, NEW s \in Services, NEW key \in {s, Env, None},
           Settings!Requests(s, key)
    PROVE  Settings!KeysStayHome' /\ v7' \subseteq Services \X (Services \cup {Env})
<1>1. v7' = v7 \cup {<<s, key>>} /\ key \in {s, Env}
  BY DEF Settings!Requests
<1> QED
  BY <1>1 DEF Settings!Inductive, Settings!KeysStayHome, Settings!TypeOK

\* A step that changes nothing but where the page, or the command, stands.
LEMMA PageMoves ==
    ASSUME Settings!Inductive, v3' \in Settings!Page, Settings!InSave',
           UNCHANGED <<v1, v2, v4, v5, v6, v7>>, v8' \in BOOLEAN
    PROVE  Settings!Inductive'
  BY DEF Settings!Inductive, Settings!TypeOK, Settings!InDialogue, Settings!KeysStayHome,
         Settings!AtHome

LEMMA CommandMoves ==
    ASSUME Settings!Inductive, v5' \in Settings!Command, Settings!InDialogue',
           UNCHANGED <<v1, v2, v3, v4, v6, v7, v8>>
    PROVE  Settings!Inductive'
  BY DEF Settings!Inductive, Settings!TypeOK, Settings!InSave, Settings!KeysStayHome,
         Settings!AtHome

\* The page, step by step.
LEMMA PageSteps ==
    ASSUME Settings!Inductive, Settings!Desktop
    PROVE  Settings!Inductive'
<1> USE DEF Settings!Configs
<1>1. /\ v3 \in Settings!Page /\ v1 \in Settings!Configs /\ v8 \in BOOLEAN
      /\ v2 \in [Services -> Settings!Keys] /\ v4 \in [Services -> Settings!Keys]
      /\ Settings!InSave
  BY DEF Settings!Inductive, Settings!TypeOK
<1>2. CASE Settings!Show
  <2>1. v3' = [v3 EXCEPT !.shown = v1] /\ v3.step = "idle"
    BY <1>2 DEF Settings!Show
  <2>2. v3' \in Settings!Page /\ v3'.step = "idle"
    BY <1>1, <2>1 DEF Settings!Page
  <2> QED
    BY <1>1, <1>2, <2>2, PageMoves DEF Settings!Show, Settings!InSave
<1>3. CASE Settings!BeginSave
  <2>1. PICK draft \in Settings!Configs :
          \E typed, persist \in BOOLEAN :
             v3' = [v3 EXCEPT !.step = IF persist THEN "storing" ELSE "writing",
                              !.draft = draft, !.typed = typed, !.persist = persist]
    BY <1>3 DEF Settings!BeginSave
  <2>2. /\ v3' \in Settings!Page /\ v3'.draft = draft /\ v3'.shown = v3.shown
    BY <1>1, <2>1 DEF Settings!Page
  <2>3. v3.shown = v1
    BY <1>3 DEF Settings!BeginSave, Settings!RevisionMatches
  <2> QED
    BY <1>1, <1>3, <2>1, <2>2, <2>3, PageMoves DEF Settings!BeginSave, Settings!InSave
<1>4. CASE Settings!StoreKey
  <2>1. v3' = [v3 EXCEPT !.step = "writing"] /\ v3.step = "storing"
    BY <1>4 DEF Settings!StoreKey
  <2>2. v3' \in Settings!Page /\ v3'.draft = v3.draft /\ v3'.shown = v3.shown
    BY <1>1, <2>1 DEF Settings!Page
  <2>3. v3.draft.service \in Settings!Keys
    BY <1>1, <2>1 DEF Settings!InSave, Settings!Keys
  <2>4. v2' \in [Services -> Settings!Keys] /\ Settings!AtHome(v2)'
    BY <1>1, <1>4, <2>3 DEF Settings!StoreKey, Settings!Target, Settings!AtHome, Settings!Inductive
  <2> QED
    BY <1>1, <1>4, <2>1, <2>2, <2>4
    DEF Settings!StoreKey, Settings!Inductive, Settings!TypeOK, Settings!InDialogue,
        Settings!InSave, Settings!KeysStayHome, Settings!AtHome
<1>5. /\ Settings!DeskAtRest \in Settings!Page
      /\ \A shown \in Settings!Configs \cup {None} :
            LET d == [Settings!DeskAtRest EXCEPT !.shown = shown]
            IN  d \in Settings!Page /\ d.step = "idle"
  BY DEF Settings!DeskAtRest, Settings!Page
<1>6. CASE Settings!WriteFile
  <2>1. v3.step = "writing" /\ v1' = v3.draft /\ v3.draft \in Settings!Configs
    BY <1>1, <1>6 DEF Settings!WriteFile, Settings!InSave
  <2>2. v3' \in Settings!Page /\ v3'.step = "idle" /\ v8' = FALSE
    BY <1>5, <1>6, <2>1 DEF Settings!WriteFile, Settings!SaveEnds
  <2>3. v4' \in [Services -> Settings!Keys] /\ Settings!AtHome(v4)'
    <3>1. v3.draft.service \in Settings!Keys
      BY <2>1 DEF Settings!Keys
    <3> QED
      BY <1>1, <1>6, <3>1
      DEF Settings!WriteFile, Settings!Target, Settings!AtHome, Settings!Inductive
  <2> QED
    BY <1>1, <1>6, <2>1, <2>2, <2>3
    DEF Settings!WriteFile, Settings!Inductive, Settings!TypeOK, Settings!InDialogue,
        Settings!InSave, Settings!KeysStayHome, Settings!AtHome
<1>7. CASE Settings!SaveFails
  <2>1. v3.shown \in Settings!Configs \cup {None}
    BY <1>1 DEF Settings!Page
  <2>2. v3' \in Settings!Page /\ v3'.step = "idle" /\ v8' = FALSE
    BY <1>5, <1>7, <2>1 DEF Settings!SaveFails, Settings!SaveEnds
  <2> QED
    BY <1>7, <2>2, PageMoves DEF Settings!SaveFails, Settings!InSave
<1>8. CASE Settings!TestConnection \/ Settings!DeskAsks
  <2>1. PICK s \in Services :
          Settings!Requests(s, s) \/ Settings!Requests(s, Settings!Resolve(s, v4))
    BY <1>1, <1>8 DEF Settings!TestConnection, Settings!DeskAsks
  <2>2. Settings!Resolve(s, v4) \in {s, Env, None}
    BY ResolvesOwn DEF Settings!Inductive
  <2>3. Settings!KeysStayHome' /\ v7' \subseteq Services \X (Services \cup {Env})
    BY <2>1, <2>2, OwnRequest
  <2> QED
    BY <1>8, <2>3
    DEF Settings!TestConnection, Settings!DeskAsks, Settings!Inductive, Settings!TypeOK,
        Settings!InDialogue, Settings!InSave, Settings!AtHome
<1>9. CASE Settings!DeskRestarts
  BY <1>5, <1>9
  DEF Settings!DeskRestarts, Settings!DeskAtRest, Settings!NoKeys, Settings!Inductive,
      Settings!TypeOK, Settings!InDialogue, Settings!InSave, Settings!KeysStayHome,
      Settings!AtHome, Settings!Keys
<1> QED
  BY <1>2, <1>3, <1>4, <1>6, <1>7, <1>8, <1>9 DEF Settings!Desktop

\* The command line, step by step.
LEMMA CommandSteps ==
    ASSUME Settings!Inductive, Settings!CommandLine
    PROVE  Settings!Inductive'
<1> USE DEF Settings!Configs
<1>1. /\ v5 \in Settings!Command /\ v1 \in Settings!Configs /\ v8 \in BOOLEAN
      /\ v2 \in [Services -> Settings!Keys] /\ v6 \in [Services -> Settings!Keys]
      /\ Settings!InDialogue
  BY DEF Settings!Inductive, Settings!TypeOK
<1>2. /\ Settings!LineAtRest \in Settings!Command
      /\ Settings!LineAtRest.step = "out" /\ ~Settings!LineAtRest.entered
  BY DEF Settings!LineAtRest, Settings!Command, Settings!Keys
<1>3. CASE Settings!LineStarts
  <2>1. v5' \in Settings!Command /\ v5'.step = "in" /\ ~v5'.entered /\ v5'.copy = v1
    BY <1>1, <1>3 DEF Settings!LineStarts, Settings!LineAtRest, Settings!Command, Settings!Keys
  <2> QED
    BY <1>1, <1>3, <2>1, CommandMoves DEF Settings!LineStarts, Settings!InDialogue
<1>4. CASE Settings!EditCopy
  <2>1. CASE v5.step = "in" /\ \E config \in Settings!Configs :
                                   v5' = [v5 EXCEPT !.step = "write", !.copy = config]
    <3>1. v5' \in Settings!Command /\ v5'.step = "write" /\ v5'.copy \in Settings!Configs
      BY <1>1, <2>1 DEF Settings!Command
    <3> QED
      BY <1>4, <3>1, CommandMoves DEF Settings!EditCopy, Settings!InDialogue
  <2>2. CASE v5.step = "service" /\ \E mark \in Marks :
                                        v5' = [v5 EXCEPT !.step = "save", !.copy.mark = mark]
    <3>1. v5.copy \in Settings!Configs /\ ~v5.entered
      BY <1>1, <2>2 DEF Settings!InDialogue
    <3>2. PICK mark \in Marks : v5' = [v5 EXCEPT !.step = "save", !.copy.mark = mark]
      BY <2>2
    <3> DEFINE c == [v5.copy EXCEPT !.mark = mark]
    <3>3. c \in Settings!Configs
      BY <3>1
    <3>4. v5' = [v5 EXCEPT !.step = "save", !.copy = c]
      BY <3>2
    <3> HIDE DEF c
    <3>5. v5' \in Settings!Command /\ v5'.step = "save" /\ v5'.copy = c /\ ~v5'.entered
      BY <1>1, <3>1, <3>3, <3>4 DEF Settings!Command
    <3> QED
      BY <1>4, <3>3, <3>5, CommandMoves DEF Settings!EditCopy, Settings!InDialogue
  <2> QED
    BY <1>4, <2>1, <2>2 DEF Settings!EditCopy
<1>5. CASE Settings!BeginSetup \/ Settings!AskAgain
  <2>1. PICK next \in {"service", "key", "check"} :
          /\ v5' = [v5 EXCEPT !.step = next]
          /\ next = "service" => v5.step = "in"
          /\ next # "service" => v5.step = "again"
    BY <1>5 DEF Settings!BeginSetup, Settings!AskAgain, Settings!Line
  <2>2. /\ v5' \in Settings!Command /\ v5'.step = next /\ v5'.copy = v5.copy
        /\ v5'.entered = v5.entered /\ v5'.service = v5.service /\ v5'.candidate = v5.candidate
    BY <1>1, <2>1 DEF Settings!Command
  <2> QED
    BY <1>1, <1>5, <2>1, <2>2, CommandMoves
    DEF Settings!BeginSetup, Settings!AskAgain, Settings!InDialogue
<1>6. CASE Settings!ChooseService \/ Settings!AskAddress
  <2>1. PICK s \in Services : \/ v5' = [v5 EXCEPT !.step = "key", !.service = s]
                              \/ v5' = [v5 EXCEPT !.step = "key", !.service = s, !.entered = FALSE]
    BY <1>6 DEF Settings!ChooseService, Settings!AskAddress, Settings!EditAddress
  <2>2. v5' \in Settings!Command /\ v5'.step = "key" /\ v5'.copy = v5.copy /\ v5'.service = s
    BY ZenonT(60), <1>1, <2>1 DEF Settings!Command
  <2>3. v5.step # "out"
    BY <1>6 DEF Settings!ChooseService, Settings!AskAddress
  <2> QED
    BY <1>1, <1>6, <2>2, <2>3, CommandMoves
    DEF Settings!ChooseService, Settings!AskAddress, Settings!InDialogue
<1>7. CASE Settings!ReadKey
  <2>1. PICK typed \in BOOLEAN :
          v5' = [v5 EXCEPT !.step = "check", !.entered = typed,
                    !.candidate = IF typed THEN v5.service ELSE Settings!Resolve(v5.service, v6)]
    BY <1>7 DEF Settings!ReadKey
  <2> DEFINE key == IF typed THEN v5.service ELSE Settings!Resolve(v5.service, v6)
  <2>2. key \in Settings!Keys /\ key \in {v5.service, Env, None}
    <3>1. v5.service \in Services
      BY <1>1, <1>7 DEF Settings!ReadKey, Settings!InDialogue
    <3>2. Settings!Resolve(v5.service, v6) \in {v5.service, Env, None}
      BY <3>1, ResolvesOwn DEF Settings!Inductive
    <3> QED
      BY <3>1, <3>2 DEF Settings!Keys
  <2>3. v5' = [v5 EXCEPT !.step = "check", !.entered = typed, !.candidate = key]
    BY <2>1
  <2> HIDE DEF key
  <2>4. /\ v5' \in Settings!Command /\ v5'.step = "check" /\ v5'.copy = v5.copy
        /\ v5'.service = v5.service /\ v5'.candidate = key
    BY <1>1, <2>2, <2>3 DEF Settings!Command
  <2> QED
    BY <1>1, <1>7, <2>2, <2>4, CommandMoves DEF Settings!ReadKey, Settings!InDialogue
<1>8. CASE Settings!CheckConnection
  <2>1. /\ v5.step = "check" /\ v5.service \in Services
        /\ v5.candidate \in {v5.service, Env, None}
    BY <1>1, <1>8 DEF Settings!CheckConnection, Settings!InDialogue
  <2>2. PICK next \in {"again", "persist"} : v5' = [v5 EXCEPT !.step = next]
    BY <1>8 DEF Settings!CheckConnection, Settings!Line
  <2>3. /\ v5' \in Settings!Command /\ v5'.step = next /\ v5'.copy = v5.copy
        /\ v5'.entered = v5.entered /\ v5'.service = v5.service /\ v5'.candidate = v5.candidate
    BY <1>1, <2>2 DEF Settings!Command
  <2>4. Settings!InDialogue'
    BY <1>1, <2>1, <2>3 DEF Settings!InDialogue
  <2>5. v7' = v7 \/ Settings!Requests(v5.service, v5.candidate)
    BY <1>8 DEF Settings!CheckConnection
  <2>6. Settings!KeysStayHome' /\ v7' \subseteq Services \X (Services \cup {Env})
    BY <2>1, <2>5, OwnRequest
    DEF Settings!Inductive, Settings!KeysStayHome, Settings!TypeOK
  <2> QED
    BY <1>8, <2>3, <2>4, <2>6
    DEF Settings!CheckConnection, Settings!Inductive, Settings!TypeOK, Settings!InSave,
        Settings!AtHome
<1>9. CASE Settings!EndDialogue
  <2>1. /\ v5.step = "persist" /\ v5.service \in Services
        /\ v5.candidate \in {v5.service, Env, None}
    BY <1>1, <1>9 DEF Settings!EndDialogue, Settings!InDialogue
  <2>2. PICK persist \in BOOLEAN : \E mark \in Marks :
          v5' = [v5 EXCEPT !.step = "save", !.persist = persist,
                           !.copy = [service |-> v5.service, mark |-> mark]]
    BY <1>9 DEF Settings!EndDialogue
  <2>3. PICK copy \in Settings!Configs :
          v5' = [v5 EXCEPT !.step = "save", !.persist = persist, !.copy = copy]
    BY <2>1, <2>2
  <2>4. /\ v5' \in Settings!Command /\ v5'.step = "save" /\ v5'.copy = copy
        /\ v5'.service = v5.service /\ v5'.candidate = v5.candidate
    BY <1>1, <2>3 DEF Settings!Command
  <2> QED
    BY <1>9, <2>1, <2>4, CommandMoves DEF Settings!EndDialogue, Settings!InDialogue
<1>10. CASE Settings!LineWrites
  <2>1. v1' = v5.copy /\ v5.copy \in Settings!Configs /\ v8' \in BOOLEAN
    BY <1>1, <1>10 DEF Settings!LineWrites, Settings!InDialogue
  <2>2. v5' \in Settings!Command /\ Settings!InDialogue'
    <3>1. CASE v5.step = "write"
      <4>1. v5' = Settings!LineAtRest
        BY <1>10, <3>1 DEF Settings!LineWrites
      <4> QED
        BY <1>2, <4>1 DEF Settings!InDialogue
    <3>2. CASE v5.step = "save"
      <4>1. v5' = [v5 EXCEPT !.step = IF v5.entered THEN "keep" ELSE "chat"]
        BY <1>10, <3>2 DEF Settings!LineWrites
      <4>2. /\ v5' \in Settings!Command /\ v5'.copy = v5.copy
            /\ v5'.step = (IF v5.entered THEN "keep" ELSE "chat")
            /\ v5'.service = v5.service /\ v5'.candidate = v5.candidate
        BY <1>1, <4>1 DEF Settings!Command
      <4> QED
        BY <1>1, <2>1, <3>2, <4>2 DEF Settings!InDialogue
    <3> QED
      BY <1>10, <3>1, <3>2 DEF Settings!LineWrites
  <2>3. Settings!InSave'
    BY <1>10 DEF Settings!LineWrites, Settings!InSave, Settings!Inductive
  <2> QED
    BY <1>10, <2>1, <2>2, <2>3
    DEF Settings!LineWrites, Settings!Inductive, Settings!TypeOK, Settings!KeysStayHome,
        Settings!AtHome
<1>11. CASE Settings!KeepKey
  <2>1. /\ v5.step = "keep" /\ v5.service \in Services /\ v5.candidate \in Settings!Keys
        /\ v5.candidate \in {v5.service, Env, None} /\ v5.copy \in Settings!Configs
    BY <1>1, <1>11 DEF Settings!KeepKey, Settings!InDialogue, Settings!Keys
  <2>2. v5' = [v5 EXCEPT !.step = "chat"]
    BY <1>11 DEF Settings!KeepKey, Settings!Line
  <2>3. v5' \in Settings!Command /\ v5'.step = "chat" /\ v5'.copy = v5.copy
    BY <1>1, <2>2 DEF Settings!Command
  <2>4. Settings!InDialogue'
    BY <2>1, <2>3 DEF Settings!InDialogue
  <2>5. v6' \in [Services -> Settings!Keys] /\ Settings!AtHome(v6)'
    BY <1>1, <1>11, <2>1
    DEF Settings!KeepKey, Settings!Target, Settings!AtHome, Settings!Inductive
  <2>6. v2' \in [Services -> Settings!Keys] /\ Settings!AtHome(v2)'
    BY <1>1, <1>11, <2>1
    DEF Settings!KeepKey, Settings!Target, Settings!AtHome, Settings!Inductive
  <2> QED
    BY <1>11, <2>3, <2>4, <2>5, <2>6
    DEF Settings!KeepKey, Settings!Inductive, Settings!TypeOK, Settings!InSave,
        Settings!KeysStayHome, Settings!AtHome
<1>12. CASE Settings!LineAsks
  <2>1. /\ v5.step # "out" /\ v5.copy \in Settings!Configs /\ v5.copy.service \in Services
        /\ v5' = [v5 EXCEPT !.step = "chat"]
        /\ Settings!Requests(v5.copy.service, Settings!Resolve(v5.copy.service, v6))
    BY <1>1, <1>12 DEF Settings!LineAsks, Settings!Line, Settings!InDialogue
  <2>2. v5' \in Settings!Command /\ v5'.step = "chat" /\ v5'.copy = v5.copy
    BY <1>1, <2>1 DEF Settings!Command
  <2>3. Settings!InDialogue'
    BY <2>1, <2>2 DEF Settings!InDialogue
  <2>4. Settings!Resolve(v5.copy.service, v6) \in {v5.copy.service, Env, None}
    BY <2>1, ResolvesOwn DEF Settings!Inductive
  <2>5. Settings!KeysStayHome' /\ v7' \subseteq Services \X (Services \cup {Env})
    BY <2>1, <2>4, OwnRequest
  <2> QED
    BY <1>12, <2>2, <2>3, <2>5
    DEF Settings!LineAsks, Settings!Inductive, Settings!TypeOK, Settings!InSave,
        Settings!AtHome
<1>13. CASE Settings!LineEnds
  <2>1. v5' = Settings!LineAtRest /\ v6' = Settings!NoKeys
    BY <1>13 DEF Settings!LineEnds
  <2>2. v5' \in Settings!Command /\ Settings!InDialogue'
    BY <1>2, <2>1 DEF Settings!InDialogue
  <2>3. v6' \in [Services -> Settings!Keys] /\ Settings!AtHome(v6)'
    BY <2>1 DEF Settings!NoKeys, Settings!Keys, Settings!AtHome
  <2> QED
    BY <1>13, <2>2, <2>3
    DEF Settings!LineEnds, Settings!Inductive, Settings!TypeOK, Settings!InSave,
        Settings!KeysStayHome, Settings!AtHome
<1> QED
  BY <1>3, <1>4, <1>5, <1>6, <1>7, <1>8, <1>9, <1>10, <1>11, <1>12, <1>13
  DEF Settings!CommandLine

\* Every step of the two programs keeps the invariant, and a save of the page
\* writes over what the page showed.
LEMMA SettingsStep ==
    ASSUME Settings!Inductive, [Settings!Next]_(Settings!vars)
    PROVE  Settings!Inductive'
<1>1. CASE UNCHANGED Settings!vars
  BY <1>1 DEF Settings!vars, Settings!Inductive, Settings!TypeOK, Settings!InDialogue,
              Settings!InSave, Settings!KeysStayHome, Settings!AtHome
<1> QED
  BY <1>1, PageSteps, CommandSteps DEF Settings!Next

\* A save of the page writes over what the page showed.
LEMMA SettingsWrite ==
    ASSUME Settings!Inductive
    PROVE  Settings!WritesOverShown
  BY DEF Settings!Inductive, Settings!InSave, Settings!WritesOverShown

-----------------------------------------------------------------------------
(* IndexWorker *)

\* A worker that starts asks for the policy that was saved.
LEMMA BeginShape ==
    ASSUME NEW d \in Worker!Disks
    PROVE  /\ Worker!Begin(d) \in Worker!Writers
           /\ Worker!Startup(d) \in Worker!States
           /\ d.saved # "none" => Worker!Startup(d).requested = d.saved
<1>1. /\ Worker!Load(d.saved) \in Worker!Policies
      /\ d.saved # "none" => Worker!Load(d.saved) = d.saved
  BY DEF Worker!Load, Worker!Policies, Worker!Disks
<1> QED
  BY <1>1 DEF Worker!Begin, Worker!Startup, Worker!Disks, Worker!Writers, Worker!States

\* No search is under way, and no client was told anything.
LEMMA WorkerStart ==
    ASSUME Worker!Init
    PROVE  Worker!Inductive
<1>1. v1 \in Worker!Disks
  BY DEF Worker!Init, Worker!Disks
<1>2. /\ v4 = Worker!NoControl /\ v6 = [s \in Searches |-> Worker!NoSearch]
      /\ v7 = "any" /\ v8 = Worker!NoAnswer /\ v2 = Worker!Begin(v1) /\ v3 = Worker!Startup(v1)
  BY DEF Worker!Init
<1>3. Worker!Shapes
  BY <1>1, <1>2, BeginShape
  DEF Worker!Shapes, Worker!NoControl, Worker!NoSearch, Worker!Controls, Worker!Rows
<1>4. Worker!ChoiceKept /\ Worker!AnswersUnderChoice
  BY <1>2 DEF Worker!ChoiceKept, Worker!AnswersUnderChoice, Worker!NoAnswer, Worker!NoSearch
<1> QED
  BY <1>3, <1>4 DEF Worker!Inductive

\* The writer changes nothing of what a search or a client depends on but the
\* generation and its policy.
LEMMA WriterSteps ==
    ASSUME Worker!Inductive, Worker!Writer \/ Worker!LoseStorage
    PROVE  Worker!Inductive'
<1>1. Worker!Shapes /\ Worker!ChoiceKept /\ Worker!AnswersUnderChoice
  BY DEF Worker!Inductive
<1>2. /\ UNCHANGED <<v6, v7, v8>> /\ v1'.saved = v1.saved /\ v3'.requested = v3.requested
      /\ Worker!Shapes'
  <2> USE DEF Worker!Clients
  <2>1. /\ v1 \in Worker!Disks /\ v2 \in Worker!Writers
        /\ v3 \in Worker!States /\ v4 \in Worker!Controls
    BY <1>1 DEF Worker!Shapes
  <2>2. CASE Worker!Take
    <3>1. PICK policy \in Worker!Policies :
            v2' = [v2 EXCEPT !.step = "update", !.rebuild = TRUE, !.blocked = FALSE,
                             !.tier = 0, !.retries = 0, !.boundary = 0, !.policy = policy]
      BY <2>1, <2>2 DEF Worker!Take, Worker!Writers, Worker!Controls
    <3>2. v2' \in Worker!Writers
      BY <2>1, <3>1 DEF Worker!Writers
    <3>3. v4' \in Worker!Controls
      BY <2>1, <2>2 DEF Worker!Take, Worker!Controls
    <3> QED
      BY <1>1, <2>2, <3>2, <3>3 DEF Worker!Take, Worker!Shapes
  <2>3. CASE Worker!Continue \/ Worker!LoseStorage
    <3>1. v2' \in Worker!Writers
      BY <2>1, <2>3 DEF Worker!Continue, Worker!LoseStorage, Worker!Writers
    <3> QED
      BY <1>1, <2>3, <3>1 DEF Worker!Continue, Worker!LoseStorage, Worker!Shapes
  <2>4. CASE Worker!Committed
    <3>1. v2' \in Worker!Writers
      BY <2>1, <2>4 DEF Worker!Committed, Worker!Ended, Worker!Writers, Worker!Errors
    <3>2. v1' = [v1 EXCEPT !.generation = v1.generation + 1, !.policy = v2.policy]
      BY <2>4 DEF Worker!Committed
    <3>3. v1.generation \in Nat /\ v2.policy \in Worker!Policies
      BY <2>1 DEF Worker!Disks, Worker!Writers
    <3> DEFINE next == v1.generation + 1
    <3>4. next \in Nat /\ v1' = [v1 EXCEPT !.generation = next, !.policy = v2.policy]
      BY <3>2, <3>3
    <3> HIDE DEF next
    <3>5. v1' \in Worker!Disks /\ v1'.saved = v1.saved
      BY <2>1, <3>3, <3>4 DEF Worker!Disks
    <3> QED
      BY <1>1, <2>4, <3>1, <3>5 DEF Worker!Committed, Worker!Shapes
  <2>5. CASE Worker!Idle \/ \E error \in Worker!Errors : Worker!Failed(error)
    <3>1. v2' \in Worker!Writers
      BY <2>1, <2>5 DEF Worker!Idle, Worker!Failed, Worker!Ended, Worker!Writers
    <3> QED
      BY <1>1, <2>5, <3>1 DEF Worker!Idle, Worker!Failed, Worker!Shapes
  <2>6. CASE Worker!Report
    <3>1. v2' \in Worker!Writers /\ v4' \in Worker!Controls
      BY <2>1, <2>6 DEF Worker!Report, Worker!Done, Worker!Writers, Worker!Controls
    <3>2. v3' \in Worker!States /\ v3'.requested = v3.requested
      BY <2>1, <2>6 DEF Worker!Report, Worker!Disks, Worker!States
    <3> QED
      BY <1>1, <2>6, <3>1, <3>2 DEF Worker!Report, Worker!Shapes
  <2>7. CASE Worker!Trouble
    <3>1. CASE Worker!Recover
      <4> DEFINE rebuild == v2.rebuild \/ v2.outcome = "boundary"
                 boundary == IF v2.outcome = "boundary" /\ v2.boundary < MaxBoundary
                             THEN v2.boundary + 1 ELSE v2.boundary
                 tier == IF v2.outcome = "budget" THEN v2.tier + 1 ELSE v2.tier
                 retries == IF v2.outcome = "metadata" THEN v2.retries + 1 ELSE v2.retries
      <4>1. v2' = [v2 EXCEPT !.step = "take", !.outcome = "none", !.rebuild = rebuild,
                             !.boundary = boundary, !.tier = tier, !.retries = retries]
        BY <3>1 DEF Worker!Recover
      <4>2. rebuild \in BOOLEAN /\ boundary \in Nat /\ tier \in Nat /\ retries \in Nat
        BY <2>1 DEF Worker!Writers
      <4> HIDE DEF rebuild, boundary, tier, retries
      <4>3. v2' \in Worker!Writers
        BY <2>1, <4>1, <4>2 DEF Worker!Writers
      <4> QED
        BY <1>1, <2>7, <3>1, <4>3 DEF Worker!Trouble, Worker!Recover, Worker!Shapes
    <3>2. CASE Worker!Block
      <4>1. v2' \in Worker!Writers /\ v4' \in Worker!Controls
        BY <2>1, <3>2 DEF Worker!Block, Worker!Writers, Worker!Controls
      <4> QED
        BY <1>1, <2>7, <3>2, <4>1 DEF Worker!Trouble, Worker!Shapes
    <3> QED
      BY <2>7, <3>1, <3>2 DEF Worker!Trouble
  <2>8. CASE Worker!Observe
    <3>1. v4' \in Worker!Controls
      BY <2>1, <2>8 DEF Worker!Observe, Worker!Controls
    <3> QED
      BY <1>1, <2>8, <3>1 DEF Worker!Observe, Worker!Shapes
  <2> QED
    BY <2>2, <2>3, <2>4, <2>5, <2>6, <2>7, <2>8 DEF Worker!Writer
<1>3. Worker!ChoiceKept' /\ Worker!AnswersUnderChoice'
  BY <1>1, <1>2 DEF Worker!ChoiceKept, Worker!AnswersUnderChoice
<1> QED
  BY <1>2, <1>3 DEF Worker!Inductive

\* A search moves on, and the rest stays as it is.
LEMMA SearchMoves ==
    ASSUME Worker!Inductive, NEW s \in Searches,
           NEW r \in Worker!Rows,
           r.from \in {0, r.generation},
           v6' = [v6 EXCEPT ![s] = r],
           UNCHANGED <<v1, v2, v3, v4, v7>>, Worker!AnswersUnderChoice'
    PROVE  Worker!Inductive'
<1>1. Worker!Shapes /\ Worker!ChoiceKept
  BY DEF Worker!Inductive
<1>2. v6' \in [Searches -> Worker!Rows]
  BY <1>1 DEF Worker!Shapes
<1>3. \A t \in Searches : v6'[t] = IF t = s THEN r ELSE v6[t]
  BY <1>1 DEF Worker!Shapes
<1>4. Worker!ChoiceKept'
  BY <1>1, <1>3 DEF Worker!ChoiceKept
<1> QED
  BY <1>1, <1>2, <1>4 DEF Worker!Inductive, Worker!Shapes

\* A search has read nothing yet or a page of its own generation.
LEMMA WorkerSearches ==
    ASSUME Worker!Inductive, NEW s \in Searches, Worker!Searching(s)
    PROVE  Worker!Inductive'
<1>1. /\ Worker!Shapes /\ Worker!ChoiceKept /\ Worker!AnswersUnderChoice
      /\ v6[s] \in Worker!Rows /\ v6[s].from \in {0, v6[s].generation}
  BY DEF Worker!Inductive, Worker!Shapes, Worker!ChoiceKept
<1>2. Worker!NoSearch \in Worker!Rows /\ Worker!NoSearch.from = 0
  BY DEF Worker!NoSearch, Worker!Rows
<1>3. ASSUME NEW g \in 0 .. MaxGenerations, Worker!Start(s, g)
      PROVE  Worker!Inductive'
  <2>1. PICK r \in Worker!Rows : r.from = r.generation /\ v6' = [v6 EXCEPT ![s] = r]
    <3> DEFINE r == [Worker!NoSearch EXCEPT !.step = "read", !.from = g, !.generation = g]
    <3>1. g \in Nat
      OBVIOUS
    <3>2. r \in Worker!Rows /\ r.from = r.generation
      BY <3>1 DEF Worker!NoSearch, Worker!Rows
    <3>3. v6' = [v6 EXCEPT ![s] = r]
      BY <1>3 DEF Worker!Start, Worker!Set
    <3> QED
      BY <3>2, <3>3
  <2>2. Worker!AnswersUnderChoice'
    BY <1>3 DEF Worker!Start, Worker!AnswersUnderChoice, Worker!NoAnswer
  <2> QED
    BY <1>3, <2>1, <2>2, SearchMoves DEF Worker!Start, Worker!Service
<1>4. CASE Worker!Read(s)
  <2>1. PICK r \in Worker!Rows : r.from \in {0, r.generation} /\ v6' = [v6 EXCEPT ![s] = r]
    <3>1. CASE Worker!SameGeneration(s)
      <4>1. PICK next \in {"read", "more", "last"} :
              v6' = [v6 EXCEPT ![s] = [v6[s] EXCEPT !.step = next,
                                         !.generation = v1.generation, !.policy = v1.policy]]
        BY <1>4, <3>1 DEF Worker!Read, Worker!Set
      <4> DEFINE r == [v6[s] EXCEPT !.step = next, !.generation = v1.generation,
                                    !.policy = v1.policy]
      <4>2. r \in Worker!Rows /\ r.from = v6[s].from /\ r.generation = v1.generation
        BY <1>1 DEF Worker!Shapes, Worker!Rows, Worker!Disks
      <4>3. r.from \in {0, r.generation}
        BY <1>1, <3>1, <4>2 DEF Worker!SameGeneration
      <4> QED
        BY <4>1, <4>2, <4>3
    <3> QED
      BY <1>2, <1>4, <3>1 DEF Worker!Read, Worker!Set
  <2> QED
    BY <1>1, <1>4, <2>1, SearchMoves DEF Worker!Read, Worker!Service, Worker!AnswersUnderChoice
<1>5. CASE Worker!Keep(s)
  <2>1. PICK r \in Worker!Rows : r.from \in {0, r.generation} /\ v6' = [v6 EXCEPT ![s] = r]
    <3> DEFINE r == [v6[s] EXCEPT !.step = "last"]
    <3>1. r \in Worker!Rows /\ r.from = v6[s].from /\ r.generation = v6[s].generation
      BY <1>1 DEF Worker!Rows
    <3> QED
      BY <1>1, <1>2, <1>5, <3>1 DEF Worker!Keep, Worker!Set
  <2> QED
    BY <1>1, <1>5, <2>1, SearchMoves DEF Worker!Keep, Worker!Service, Worker!AnswersUnderChoice
<1>6. CASE Worker!Answer(s)
  <2>1. Worker!AnswersUnderChoice'
    BY <1>1, <1>6
    DEF Worker!Answer, Worker!Matches, Worker!NoAnswer, Worker!ChoiceKept,
        Worker!AnswersUnderChoice
  <2> QED
    BY <1>2, <1>6, <2>1, SearchMoves DEF Worker!Answer, Worker!Set, Worker!Service
<1>7. CASE Worker!GiveUp(s)
  BY <1>1, <1>2, <1>7, SearchMoves
  DEF Worker!GiveUp, Worker!Set, Worker!Service, Worker!AnswersUnderChoice
<1> QED
  BY <1>3, <1>4, <1>5, <1>6, <1>7 DEF Worker!Searching

\* A choice is on the disk before the client is told of it.
LEMMA WorkerStep ==
    ASSUME Worker!Inductive, [Worker!Next]_(Worker!vars)
    PROVE  Worker!Inductive'
<1>1. Worker!Shapes /\ Worker!ChoiceKept /\ Worker!AnswersUnderChoice
  BY DEF Worker!Inductive
<1>2. ASSUME NEW p \in Worker!Policies, Worker!SetPolicy(p)
      PROVE  Worker!Inductive'
  <2>1. /\ v1' = [v1 EXCEPT !.saved = p] /\ v3' = [v3 EXCEPT !.requested = p] /\ v7' = p
        /\ v4' = [v4 EXCEPT !.pending = TRUE, !.recent = TRUE, !.policy = p]
        /\ UNCHANGED <<v2, v6, v8>>
    BY <1>2 DEF Worker!SetPolicy, Worker!Saved, Worker!Asked
  <2>2. Worker!Shapes' /\ v1'.saved = p /\ v3'.requested = p
    BY <1>1, <2>1 DEF Worker!Shapes, Worker!Disks, Worker!States, Worker!Controls
  <2> QED
    BY <1>1, <2>1, <2>2
    DEF Worker!Inductive, Worker!ChoiceKept, Worker!AnswersUnderChoice
<1>3. ASSUME NEW p \in Worker!Policies \cup {v1.saved}, Worker!Lost(p)
      PROVE  Worker!Inductive'
  <2>1. /\ v1' = [v1 EXCEPT !.saved = p] /\ v2' = Worker!Begin(v1') /\ v3' = Worker!Startup(v1')
        /\ v4' = Worker!NoControl /\ v6' = [s \in Searches |-> Worker!NoSearch]
        /\ v8' = v8
    BY <1>3 DEF Worker!Lost, Worker!Saved
  <2>2. /\ v1' \in Worker!Disks
        /\ v1'.saved = p
    BY <1>1, <2>1 DEF Worker!Shapes, Worker!Disks
  <2>3. Worker!Shapes' /\ (p # "none" => v3'.requested = p)
    <3>1. /\ v2' \in Worker!Writers
          /\ v3' \in Worker!States
          /\ (p # "none" => v3'.requested = p)
      BY <2>1, <2>2, BeginShape
    <3> QED
      BY <2>1, <2>2, <3>1
      DEF Worker!Shapes, Worker!NoControl, Worker!NoSearch, Worker!Controls, Worker!Rows
  <2>4. v7' = "any" \/ (v7' = v7 /\ p = v1.saved)
    BY <1>3 DEF Worker!Lost
  <2>5. Worker!ChoiceKept'
    <3>1. \A s \in Searches : v6'[s].from \in {0, v6'[s].generation}
      BY <2>1 DEF Worker!NoSearch
    <3>2. v7' = "any" \/ (v7' \in Worker!Policies /\ v1'.saved = v7' /\ v3'.requested = v7')
      BY <1>1, <2>2, <2>3, <2>4 DEF Worker!ChoiceKept, Worker!Policies
    <3> QED
      BY <3>1, <3>2 DEF Worker!ChoiceKept
  <2> QED
    BY <1>1, <2>1, <2>3, <2>5 DEF Worker!Inductive, Worker!AnswersUnderChoice
<1>4. CASE Worker!Rebuild \/ Worker!Later \/ \E g \in 1 .. MaxGenerations : Worker!Expire(g)
  <2>1. /\ UNCHANGED <<v1, v2, v3, v6, v7, v8>>
        /\ v4' \in Worker!Controls
    BY <1>1, <1>4
    DEF Worker!Rebuild, Worker!Later, Worker!Expire, Worker!Asked, Worker!Clients,
        Worker!Service, Worker!Shapes, Worker!Controls
  <2> QED
    BY <1>1, <2>1
    DEF Worker!Inductive, Worker!Shapes, Worker!ChoiceKept, Worker!AnswersUnderChoice
<1>5. CASE UNCHANGED Worker!vars
  BY <1>1, <1>5
  DEF Worker!vars, Worker!Inductive, Worker!Shapes, Worker!ChoiceKept,
      Worker!AnswersUnderChoice
<1> QED
  BY <1>2, <1>3, <1>4, <1>5, WriterSteps, WorkerSearches DEF Worker!Next, Worker!Restart

-----------------------------------------------------------------------------
(* IndexPipe *)

\* An instance has a copy of the definition of its own.
LEMMA PipeCounts == \A S : Pipe!Cardinality(S) = Cardinality(S)
  BY DEF Pipe!Cardinality, Cardinality

\* The list of searches, element by element.
LEMMA ListMeans ==
    ASSUME NEW active, NEW who, NEW serving
    PROVE  active = {who[s] : s \in {t \in Pipes : serving[t] = "search"}}
             <=> \A c : c \in active <=> \E s \in Pipes : serving[s] = "search" /\ who[s] = c
  OBVIOUS

\* What the invariant says of a slot, of the list and of the answers.
LEMMA PipeFacts ==
    ASSUME Pipe!Inductive
    PROVE  /\ Pipe!TypeOK /\ None \notin Pipe!Calls
           /\ \A s \in Pipes : Pipe!ServesOne(s)
           /\ Pipe!SearchesOnce /\ Pipe!ListExact /\ Pipe!OwnAnswers /\ Pipe!AnswersKept
  BY NoneAssumption DEF Pipe!Inductive, Pipe!AnswersReach, Pipe!Calls

\* Every instance listens, and none is anyone's.
LEMMA PipeStart ==
    ASSUME Pipe!Init
    PROVE  Pipe!Inductive
<1>1. Pipe!TypeOK /\ \A s \in Pipes : Pipe!ServesOne(s)
  BY DEF Pipe!Init, Pipe!TypeOK, Pipe!ServesOne
<1>2. Pipe!SearchesOnce /\ Pipe!OwnAnswers /\ Pipe!AnswersKept
  BY DEF Pipe!Init, Pipe!SearchesOnce, Pipe!OwnAnswers, Pipe!AnswersKept
<1>3. Pipe!ListExact
  <2>1. \E s \in Pipes : v6[s] # "search"
    <3>1. Pipes # {}
      BY PipesAssumption, FS_EmptySet
    <3> QED
      BY <3>1 DEF Pipe!Init
  <2>2. v10 = {v2[s] : s \in {t \in Pipes : v6[t] = "search"}}
    BY ListMeans DEF Pipe!Init
  <2> QED
    BY <2>1, <2>2 DEF Pipe!ListExact
<1> QED
  BY <1>1, <1>2, <1>3 DEF Pipe!Inductive, Pipe!AnswersReach

\* A step that neither begins nor ends a search keeps the list of searches.
LEMMA ListStays ==
    ASSUME Pipe!SearchesOnce, Pipe!ListExact, v10' = v10,
           \A s \in Pipes : /\ v6'[s] = "search" <=> v6[s] = "search"
                            /\ v6[s] = "search" => v2'[s] = v2[s]
    PROVE  Pipe!SearchesOnce' /\ Pipe!ListExact'
<1>1. Pipe!SearchesOnce'
  BY DEF Pipe!SearchesOnce
<1>2. \A c : c \in v10 <=> \E s \in Pipes : v6[s] = "search" /\ v2[s] = c
  BY ListMeans DEF Pipe!ListExact
<1>3. \A c : c \in v10' <=> \E s \in Pipes : v6'[s] = "search" /\ v2'[s] = c
  BY <1>2
<1>4. v10' = {v2'[s] : s \in {t \in Pipes : v6'[t] = "search"}}
  BY <1>3, ListMeans
<1> QED
  BY <1>1, <1>4 DEF Pipe!ListExact

\* The thread of one instance takes a step, and that is no search.
LEMMA SlotMoves ==
    ASSUME Pipe!Inductive, NEW s \in Pipes, Pipe!TypeOK', v9' = v9, v10' = v10, v11 \subseteq v11',
           \A t \in Pipes \ {s} :
              /\ v1'[t] = v1[t] /\ v2'[t] = v2[t] /\ v3'[t] = v3[t] /\ v4'[t] = v4[t]
              /\ v6'[t] = v6[t] /\ v7'[t] = v7[t] /\ (t \in v5' <=> t \in v5),
           Pipe!ServesOne(s)', v6[s] # "search", v6'[s] # "search",
           v6'[s] = "drop" /\ v1'[s] = "connected" => v4'[s] = NoText
    PROVE  Pipe!Inductive'
<1>1. Pipe!SearchesOnce' /\ Pipe!ListExact'
  BY PipeFacts, ListStays
<1>2. \A t \in Pipes : Pipe!ServesOne(t)'
  <2>1. ASSUME NEW t \in Pipes \ {s}
        PROVE  Pipe!ServesOne(t)'
    BY <2>1, PipeFacts DEF Pipe!ServesOne
  <2> QED
    BY <2>1
<1>3. Pipe!OwnAnswers' /\ Pipe!AnswersKept'
  BY PipeFacts DEF Pipe!OwnAnswers, Pipe!AnswersKept
<1> QED
  BY <1>1, <1>2, <1>3 DEF Pipe!Inductive, Pipe!AnswersReach

\* An instance that is emptied.
LEMMA SlotEmptied ==
    ASSUME Pipe!Inductive, NEW s \in Pipes, Pipe!Disconnect(s), v7' = v7,
           v6[s] \in {"accept", "drop", "late"}, v8' = v8, v9' = v9, v10' = v10, v11' = v11,
           v12' \in BOOLEAN, NEW next \in {"accept", "ended"}, v6' = [v6 EXCEPT ![s] = next]
    PROVE  Pipe!Inductive'
<1>1. Pipe!TypeOK'
  BY PipeFacts DEF Pipe!TypeOK, Pipe!Disconnect, Pipe!Emptied
<1>2. Pipe!ServesOne(s)'
  BY PipeFacts DEF Pipe!TypeOK, Pipe!Disconnect, Pipe!Emptied, Pipe!ServesOne
<1> QED
  BY <1>1, <1>2, PipeFacts, SlotMoves DEF Pipe!TypeOK, Pipe!Disconnect, Pipe!Emptied

\* A thread goes on with the instance as it is.
LEMMA SlotGoesOn ==
    ASSUME Pipe!Inductive, NEW s \in Pipes, UNCHANGED <<v1, v2, v4, v5, v8, v9, v10, v12>>,
           v11 \subseteq v11', v11' \subseteq Rebuilds,
           NEW in \in {v3[s], "none"}, v3' = [v3 EXCEPT ![s] = in],
           NEW r \in Pipe!Answers \cup {NoText}, v7' = [v7 EXCEPT ![s] = r],
           NEW next \in {"accept", "receive", "act", "send", "ack", "drop", "late", "ended"},
           v6' = [v6 EXCEPT ![s] = next],
           v6[s] # "search", Pipe!ServesOne(s)',
           next = "drop" /\ v1[s] = "connected" => v4[s] = NoText
    PROVE  Pipe!Inductive'
<1>1. Pipe!TypeOK'
  BY PipeFacts DEF Pipe!TypeOK
<1> QED
  BY <1>1, PipeFacts, SlotMoves DEF Pipe!TypeOK

\* The steps of a thread around a search.
LEMMA SlotSteps ==
    ASSUME Pipe!Inductive, NEW s \in Pipes,
           \/ Pipe!Accept(s) \/ Pipe!Missed(s) \/ Pipe!Receive(s)
           \/ Pipe!ReadFails(s) \/ Pipe!Refuse(s) \/ Pipe!Tell(s) \/ Pipe!Rebuild(s)
           \/ Pipe!Send(s) \/ Pipe!WaitAck(s) \/ Pipe!Expire(s) \/ Pipe!Drop(s)
           \/ Pipe!End(s) \/ Pipe!AcceptFails(s) \/ Pipe!Listen(s)
    PROVE  Pipe!Inductive'
<1> USE DEF Pipe!Serve, Pipe!pipe, Pipe!client, Pipe!worker
<1>1. /\ Pipe!TypeOK /\ Pipe!ServesOne(s) /\ None \notin Pipe!Calls
      /\ v3 = [v3 EXCEPT ![s] = v3[s]] /\ v7 = [v7 EXCEPT ![s] = v7[s]]
      /\ v2[s] \in Pipe!Calls \cup {None} /\ v7[s] \in Pipe!Answers \cup {NoText}
  BY PipeFacts DEF Pipe!TypeOK
<1>2. CASE Pipe!Accept(s) \/ Pipe!ReadFails(s) \/ Pipe!Refuse(s) \/ Pipe!WaitAck(s)
  <2>1. PICK next \in {"receive", "drop"} :
          /\ v6' = [v6 EXCEPT ![s] = next]
          /\ next = "drop" => v6[s] # "accept"
          /\ next = "receive" => v6[s] = "accept"
    BY <1>2 DEF Pipe!Accept, Pipe!ReadFails, Pipe!Refuse, Pipe!WaitAck
  <2>2. /\ UNCHANGED <<v1, v2, v3, v4, v5, v7, v8, v9, v10, v11, v12>>
        /\ v6[s] \in {"accept", "receive", "act", "ack"}
    BY <1>2 DEF Pipe!Accept, Pipe!ReadFails, Pipe!Refuse, Pipe!WaitAck
  <2>3. Pipe!ServesOne(s)'
    BY <1>1, <1>2, <2>1, <2>2
    DEF Pipe!ServesOne, Pipe!Accept, Pipe!ReadFails, Pipe!Refuse, Pipe!WaitAck, Pipe!TypeOK
  <2>4. next = "drop" /\ v1[s] = "connected" => v4[s] = NoText
    BY <1>1, <1>2, <2>1
    DEF Pipe!ServesOne, Pipe!Accept, Pipe!ReadFails, Pipe!Refuse, Pipe!WaitAck
  <2> QED
    BY <1>1, <2>1, <2>2, <2>3, <2>4, SlotGoesOn DEF Pipe!TypeOK
<1>3. CASE Pipe!Receive(s)
  <2>1. Pipe!ServesOne(s)'
    BY <1>1, <1>3 DEF Pipe!Receive, Pipe!ServesOne, Pipe!TypeOK
  <2> QED
    BY <1>1, <1>3, <2>1, SlotGoesOn DEF Pipe!Receive, Pipe!TypeOK
<1>4. CASE Pipe!Tell(s) \/ Pipe!Rebuild(s)
  <2>1. PICK what \in {"ok", "cancelled", "accepted", "unavailable"} :
          /\ v7' = [v7 EXCEPT ![s] = [of |-> v2[s], what |-> what]]
          /\ what = "accepted" => v2[s] \in v11'
    BY <1>4 DEF Pipe!Tell, Pipe!Rebuild, Pipe!Reply
  <2>2. /\ UNCHANGED <<v1, v2, v3, v4, v5, v8, v9, v10, v12>>
        /\ v6[s] = "act" /\ v6' = [v6 EXCEPT ![s] = "send"] /\ v2[s] \in Pipe!Calls
        /\ v11 \subseteq v11' /\ v11' \subseteq Rebuilds
    BY <1>1, <1>4 DEF Pipe!Tell, Pipe!Rebuild, Pipe!Calls, Pipe!TypeOK
  <2>3. [of |-> v2[s], what |-> what] \in Pipe!Answers
    BY <2>2 DEF Pipe!Answers
  <2>4. Pipe!ServesOne(s)'
    BY <1>1, <2>1, <2>2 DEF Pipe!ServesOne, Pipe!TypeOK
  <2> QED
    BY <1>1, <2>1, <2>2, <2>3, <2>4, SlotGoesOn
<1>5. CASE Pipe!Expire(s)
  <2>1. Pipe!ServesOne(s)'
    BY <1>1, <1>5 DEF Pipe!Expire, Pipe!ServesOne, Pipe!TypeOK
  <2> QED
    BY <1>1, <1>5, <2>1, SlotGoesOn DEF Pipe!Expire, Pipe!TypeOK
<1>6. CASE Pipe!Send(s)
  <2>1. Pipe!TypeOK'
    BY <1>1, <1>6 DEF Pipe!Send, Pipe!TypeOK
  <2>2. Pipe!ServesOne(s)'
    BY <1>1, <1>6 DEF Pipe!Send, Pipe!ServesOne, Pipe!TypeOK
  <2> QED
    BY <1>1, <1>6, <2>1, <2>2, SlotMoves DEF Pipe!Send, Pipe!TypeOK
<1>7. CASE Pipe!Missed(s) \/ Pipe!Drop(s) \/ Pipe!End(s) \/ Pipe!AcceptFails(s)
  <2>1. PICK next \in {"accept", "ended"} : v6' = [v6 EXCEPT ![s] = next]
    BY <1>1, <1>7 DEF Pipe!Missed, Pipe!Drop, Pipe!End, Pipe!AcceptFails, Pipe!TypeOK
  <2> QED
    BY <1>1, <1>7, <2>1, SlotEmptied
    DEF Pipe!Missed, Pipe!Drop, Pipe!End, Pipe!AcceptFails, Pipe!TypeOK
<1>8. CASE Pipe!Listen(s)
  <2>1. Pipe!TypeOK'
    BY <1>1, <1>8 DEF Pipe!Listen, Pipe!TypeOK
  <2>2. Pipe!ServesOne(s)'
    BY <1>1, <1>8 DEF Pipe!Listen, Pipe!ServesOne, Pipe!TypeOK
  <2> QED
    BY <1>1, <1>8, <2>1, <2>2, SlotMoves DEF Pipe!Listen, Pipe!TypeOK
<1> QED
  BY <1>2, <1>3, <1>4, <1>5, <1>6, <1>7, <1>8

\* If all instances but one search, there are as many searches.
LEMMA SearchesCounted ==
    ASSUME NEW s \in Pipes, NEW who, NEW active, IsFiniteSet(active),
           \A t, u \in Pipes \ {s} : who[t] = who[u] => t = u,
           \A t \in Pipes \ {s} : who[t] \in active
    PROVE  MaxSearches <= Cardinality(active)
<1> DEFINE f == [t \in Pipes \ {s} |-> who[t]]
<1>1. f \in Injection(Pipes \ {s}, active)
  BY DEF Injection, IsInjective
<1> HIDE DEF f
<1>2. Cardinality(Pipes \ {s}) <= Cardinality(active)
  BY <1>1, FS_Injection
<1>3. Cardinality(Pipes \ {s}) = Cardinality(Pipes) - 1
  BY PipesAssumption, FS_RemoveElement
<1>4. Cardinality(Pipes) \in Nat /\ Cardinality(active) \in Nat
  BY PipesAssumption, FS_CardinalityType
<1> QED
  BY <1>2, <1>3, <1>4, PipesAssumption

\* There are no more searches than instances.
LEMMA ActiveIsFinite ==
    ASSUME Pipe!ListExact
    PROVE  IsFiniteSet(v10)
<1> DEFINE S == {t \in Pipes : v6[t] = "search"}
           f == [t \in S |-> v2[t]]
<1>1. IsFiniteSet(S)
  BY PipesAssumption, FS_Subset
<1>2. v10 = {v2[t] : t \in S}
  BY DEF Pipe!ListExact
<1> HIDE DEF S
<1>3. f \in Surjection(S, v10)
  BY <1>2 DEF Surjection
<1> QED
  BY <1>1, <1>3, FS_Surjection

\* A search begins and ends with its entry in the list.
LEMMA SlotSearches ==
    ASSUME Pipe!Inductive, NEW s \in Pipes, Pipe!StartSearch(s) \/ Pipe!EndSearch(s)
    PROVE  Pipe!Inductive'
<1> USE DEF Pipe!Serve, Pipe!pipe, Pipe!client, Pipe!worker
<1>1. /\ Pipe!TypeOK /\ Pipe!ServesOne(s) /\ None \notin Pipe!Calls
      /\ v3 = [v3 EXCEPT ![s] = v3[s]] /\ v7 = [v7 EXCEPT ![s] = v7[s]]
      /\ v2[s] \in Pipe!Calls \cup {None} /\ v7[s] \in Pipe!Answers \cup {NoText}
  BY PipeFacts DEF Pipe!TypeOK
<1>2. \A c : c \in v10 <=> \E t \in Pipes : v6[t] = "search" /\ v2[t] = c
  BY PipeFacts, ListMeans DEF Pipe!ListExact
<1>3. CASE Pipe!StartSearch(s) /\ v6' = [v6 EXCEPT ![s] = "drop"] /\ v10' = v10
  <2>1. Pipe!ServesOne(s)'
    BY <1>1, <1>3 DEF Pipe!StartSearch, Pipe!ServesOne, Pipe!TypeOK
  <2>2. v4[s] = NoText
    BY <1>1, <1>3 DEF Pipe!StartSearch, Pipe!ServesOne
  <2> QED
    BY <1>1, <1>3, <2>1, <2>2, SlotGoesOn DEF Pipe!StartSearch, Pipe!TypeOK
<1>4. CASE /\ Pipe!StartSearch(s) /\ v6' = [v6 EXCEPT ![s] = "search"]
           /\ v10' = v10 \cup {v2[s]} /\ v2[s] \notin v10 /\ Cardinality(v10) < MaxSearches
  <2>1. /\ Pipe!TypeOK' /\ UNCHANGED <<v1, v2, v3, v4, v5, v7, v8, v9, v11, v12>>
        /\ v6[s] = "act" /\ \A t \in Pipes : v6'[t] = IF t = s THEN "search" ELSE v6[t]
    BY <1>1, <1>4 DEF Pipe!StartSearch, Pipe!TypeOK
  <2>2. \A t \in Pipes : Pipe!ServesOne(t)'
    <3>1. ASSUME NEW t \in Pipes
          PROVE  Pipe!ServesOne(t)'
      BY <2>1, PipeFacts DEF Pipe!ServesOne
    <3> QED
      BY <3>1
  <2>3. Pipe!SearchesOnce'
    BY <1>2, <1>4, <2>1, PipeFacts DEF Pipe!SearchesOnce
  <2>4. v10' = {v2'[t] : t \in {u \in Pipes : v6'[u] = "search"}}
    <3>1. \A c : c \in v10' <=> \E t \in Pipes : v6'[t] = "search" /\ v2'[t] = c
      BY <1>2, <1>4, <2>1
    <3> QED
      BY <3>1, ListMeans
  <2>5. \E t \in Pipes : v6'[t] # "search"
    <3> SUFFICES ASSUME \A t \in Pipes : v6'[t] = "search"
                 PROVE  FALSE
      OBVIOUS
    <3>1. \A t \in Pipes \ {s} : v6[t] = "search"
      BY <2>1
    <3>2. \A t \in Pipes \ {s} : v2[t] \in v10
      BY <1>2, <3>1
    <3>3. \A t, u \in Pipes \ {s} : v2[t] = v2[u] => t = u
      BY <3>1, PipeFacts DEF Pipe!SearchesOnce
    <3>4. IsFiniteSet(v10)
      BY PipeFacts, ActiveIsFinite
    <3>5. MaxSearches <= Cardinality(v10)
      BY <3>2, <3>3, <3>4, SearchesCounted
    <3> QED
      BY <1>4, <3>4, <3>5, PipesAssumption, FS_CardinalityType
  <2>6. Pipe!OwnAnswers' /\ Pipe!AnswersKept'
    BY <2>1, PipeFacts DEF Pipe!OwnAnswers, Pipe!AnswersKept
  <2> QED
    BY <2>1, <2>2, <2>3, <2>4, <2>5, <2>6 DEF Pipe!Inductive, Pipe!AnswersReach, Pipe!ListExact
<1>5. CASE Pipe!EndSearch(s)
  <2>1. PICK what \in {"ok", "cancelled"} : v7' = [v7 EXCEPT ![s] = [of |-> v2[s], what |-> what]]
    BY <1>5 DEF Pipe!EndSearch, Pipe!Reply
  <2>2. v2[s] \in Pipe!Calls /\ [of |-> v2[s], what |-> what] \in Pipe!Answers
    <3>1. v2[s] \in v10
      BY <1>2, <1>5 DEF Pipe!EndSearch
    <3>2. v2[s] \in Pipe!Calls
      BY <1>1, <3>1 DEF Pipe!TypeOK, Pipe!Calls
    <3> QED
      BY <3>2 DEF Pipe!Answers
  <2>3. /\ UNCHANGED <<v1, v2, v3, v4, v5, v8, v9, v11, v12>>
        /\ v6[s] = "search" /\ v6' = [v6 EXCEPT ![s] = "send"] /\ v10' = v10 \ {v2[s]}
    BY <1>5 DEF Pipe!EndSearch
  <2>4. /\ \A t \in Pipes : v6'[t] = IF t = s THEN "send" ELSE v6[t]
        /\ \A t \in Pipes \ {s} : v7'[t] = v7[t]
        /\ v7'[s] = [of |-> v2[s], what |-> what]
    BY <1>1, <2>1, <2>3 DEF Pipe!TypeOK
  <2>5. Pipe!TypeOK'
    BY <1>1, <2>1, <2>2, <2>3 DEF Pipe!TypeOK
  <2>6. \A t \in Pipes : Pipe!ServesOne(t)'
    <3>1. ASSUME NEW t \in Pipes
          PROVE  Pipe!ServesOne(t)'
      BY <2>3, <2>4, PipeFacts DEF Pipe!ServesOne
    <3> QED
      BY <3>1
  <2>7. Pipe!SearchesOnce'
    BY <2>3, <2>4, PipeFacts DEF Pipe!SearchesOnce
  <2>8. v10' = {v2'[t] : t \in {u \in Pipes : v6'[u] = "search"}}
    <3>1. \A c : c \in v10' <=> \E t \in Pipes : v6'[t] = "search" /\ v2'[t] = c
      BY <1>2, <2>3, <2>4, PipeFacts DEF Pipe!SearchesOnce
    <3> QED
      BY <3>1, ListMeans
  <2>9. Pipe!OwnAnswers' /\ Pipe!AnswersKept'
    BY <2>3, <2>4, PipeFacts DEF Pipe!OwnAnswers, Pipe!AnswersKept
  <2> QED
    BY <2>4, <2>5, <2>6, <2>7, <2>8, <2>9 DEF Pipe!Inductive, Pipe!AnswersReach, Pipe!ListExact
<1>6. CASE Pipe!StartSearch(s)
  <2>1. CASE v2[s] \notin v10 /\ Cardinality(v10) < MaxSearches
    <3>1. v6' = [v6 EXCEPT ![s] = "search"] /\ v10' = v10 \cup {v2[s]}
      BY <1>6, <2>1, PipeCounts DEF Pipe!StartSearch
    <3> QED
      BY <1>4, <1>6, <2>1, <3>1
  <2>2. CASE ~(v2[s] \notin v10 /\ Cardinality(v10) < MaxSearches)
    <3>1. v6' = [v6 EXCEPT ![s] = "drop"] /\ v10' = v10
      BY <1>6, <2>2, PipeCounts DEF Pipe!StartSearch
    <3> QED
      BY <1>3, <1>6, <3>1
  <2> QED
    BY <2>1, <2>2
<1> QED
  BY <1>5, <1>6

\* The steps of a client change no thread.
LEMMA ClientMoves ==
    ASSUME Pipe!Inductive, UNCHANGED <<v6, v7, v10, v11>>, v12' \in BOOLEAN, Pipe!TypeOK',
           \A s \in Pipes : Pipe!ServesOne(s)', Pipe!OwnAnswers',
           \A s \in Pipes : v6[s] = "search" => v2'[s] = v2[s],
           \A s \in Pipes :
              /\ v6[s] = "drop" /\ v1'[s] = "connected" => v1[s] \in {"connected", "listening"}
              /\ v4'[s] \in {v4[s], NoText}
    PROVE  Pipe!Inductive'
<1>1. Pipe!SearchesOnce' /\ Pipe!ListExact'
  BY PipeFacts, ListStays
<1>2. Pipe!AnswersKept'
  BY PipeFacts DEF Pipe!AnswersKept, Pipe!ServesOne
<1> QED
  BY <1>1, <1>2 DEF Pipe!Inductive, Pipe!AnswersReach

\* What a client does with its end of an instance.
LEMMA ClientSteps ==
    ASSUME Pipe!Inductive, NEW c \in Pipe!Calls, Pipe!Begin(c) \/ Pipe!Client(c)
    PROVE  Pipe!Inductive'
<1> USE DEF Pipe!pipe, Pipe!worker, Pipe!Goto
<1>1. Pipe!TypeOK /\ None \notin Pipe!Calls /\ Pipe!OwnAnswers
  BY PipeFacts
<1>2. CASE Pipe!Begin(c)
  <2>1. Pipe!TypeOK' /\ Pipe!OwnAnswers'
    BY <1>1, <1>2 DEF Pipe!Begin, Pipe!TypeOK, Pipe!OwnAnswers
  <2>2. \A s \in Pipes : Pipe!ServesOne(s)'
    BY <1>2, PipeFacts DEF Pipe!Begin, Pipe!ServesOne
  <2> QED
    BY <1>1, <1>2, <2>1, <2>2, ClientMoves DEF Pipe!Begin, Pipe!TypeOK
<1>3. CASE Pipe!Abandon(c)
  <2>1. Pipe!TypeOK' /\ Pipe!OwnAnswers'
    BY <1>1, <1>3 DEF Pipe!Abandon, Pipe!Close, Pipe!TypeOK, Pipe!OwnAnswers
  <2>2. \A s \in Pipes : Pipe!ServesOne(s)'
    BY <1>3, PipeFacts DEF Pipe!Abandon, Pipe!Close, Pipe!ServesOne
  <2> QED
    BY <1>1, <1>3, <2>1, <2>2, ClientMoves DEF Pipe!Abandon, Pipe!Close, Pipe!TypeOK
<1>4. ASSUME NEW s \in Pipes, Pipe!Connect(c, s)
      PROVE  Pipe!Inductive'
  <2>1. Pipe!TypeOK' /\ Pipe!OwnAnswers'
    BY <1>1, <1>4 DEF Pipe!Connect, Pipe!TypeOK, Pipe!OwnAnswers
  <2>2. \A t \in Pipes : Pipe!ServesOne(t)'
    BY <1>1, <1>4, PipeFacts DEF Pipe!Connect, Pipe!ServesOne, Pipe!TypeOK
  <2>3. \A t \in Pipes : v6[t] = "search" => v2'[t] = v2[t]
    BY <1>1, <1>4, PipeFacts DEF Pipe!Connect, Pipe!ServesOne, Pipe!TypeOK
  <2> QED
    BY <1>1, <1>4, <2>1, <2>2, <2>3, ClientMoves DEF Pipe!Connect, Pipe!TypeOK
<1>5. ASSUME NEW s \in Pipes, Pipe!Write(c, s)
      PROVE  Pipe!Inductive'
  <2>1. Pipe!TypeOK' /\ Pipe!OwnAnswers'
    BY <1>1, <1>5 DEF Pipe!Write, Pipe!TypeOK, Pipe!OwnAnswers
  <2>2. \A t \in Pipes : Pipe!ServesOne(t)'
    BY <1>1, <1>5, PipeFacts DEF Pipe!Write, Pipe!ServesOne, Pipe!TypeOK
  <2> QED
    BY <1>1, <1>5, <2>1, <2>2, ClientMoves DEF Pipe!Write, Pipe!TypeOK
<1>6. ASSUME NEW s \in Pipes, Pipe!Read(c, s)
      PROVE  Pipe!Inductive'
  <2>1. Pipe!TypeOK'
    BY <1>1, <1>6 DEF Pipe!Read, Pipe!Close, Pipe!TypeOK
  <2>2. Pipe!OwnAnswers'
    BY <1>1, <1>6, PipeFacts DEF Pipe!Read, Pipe!OwnAnswers, Pipe!ServesOne, Pipe!TypeOK
  <2>3. \A t \in Pipes : Pipe!ServesOne(t)'
    BY <1>1, <1>6, PipeFacts DEF Pipe!Read, Pipe!Close, Pipe!ServesOne, Pipe!TypeOK
  <2> QED
    BY <1>1, <1>6, <2>1, <2>2, <2>3, ClientMoves DEF Pipe!Read, Pipe!Close, Pipe!TypeOK
<1>7. ASSUME NEW s \in Pipes, Pipe!Acknowledge(c, s)
      PROVE  Pipe!Inductive'
  <2>1. Pipe!TypeOK' /\ Pipe!OwnAnswers'
    BY <1>1, <1>7 DEF Pipe!Acknowledge, Pipe!Close, Pipe!TypeOK, Pipe!OwnAnswers
  <2>2. \A t \in Pipes : Pipe!ServesOne(t)'
    BY <1>1, <1>7, PipeFacts DEF Pipe!Acknowledge, Pipe!Close, Pipe!ServesOne, Pipe!TypeOK
  <2> QED
    BY <1>1, <1>7, <2>1, <2>2, ClientMoves DEF Pipe!Acknowledge, Pipe!Close, Pipe!TypeOK
<1> QED
  BY <1>2, <1>3, <1>4, <1>5, <1>6, <1>7 DEF Pipe!Client

\* Every step keeps what the instances, the list and the answers say.
LEMMA PipeStep ==
    ASSUME Pipe!Inductive, [Pipe!Next]_(Pipe!vars)
    PROVE  Pipe!Inductive'
<1>1. CASE Pipe!Stop
  <2>1. Pipe!TypeOK'
    BY <1>1, PipeFacts DEF Pipe!Stop, Pipe!TypeOK, Pipe!pipe, Pipe!client
  <2>2. (\A s \in Pipes : Pipe!ServesOne(s)') /\ Pipe!OwnAnswers'
    BY <1>1, PipeFacts DEF Pipe!Stop, Pipe!ServesOne, Pipe!OwnAnswers, Pipe!pipe, Pipe!client
  <2> QED
    BY <1>1, <2>1, <2>2, ClientMoves DEF Pipe!Stop, Pipe!pipe, Pipe!client, Pipe!TypeOK
<1>2. CASE UNCHANGED Pipe!vars
  <2>1. Pipe!TypeOK'
    BY <1>2, PipeFacts DEF Pipe!vars, Pipe!TypeOK
  <2>2. (\A s \in Pipes : Pipe!ServesOne(s)') /\ Pipe!OwnAnswers'
    BY <1>2, PipeFacts DEF Pipe!vars, Pipe!ServesOne, Pipe!OwnAnswers
  <2> QED
    BY <1>2, <2>1, <2>2, ClientMoves DEF Pipe!vars, Pipe!TypeOK
<1> QED
  BY <1>1, <1>2, ClientSteps, SlotSteps, SlotSearches DEF Pipe!Next, Pipe!Listener

-----------------------------------------------------------------------------
(* VolumeCatalog *)

\* An instance has a copy of the definition of its own.
LEMMA CatalogCounts == \A S : Catalog!Cardinality(S) = Cardinality(S)
  BY DEF Catalog!Cardinality, Cardinality

\* There are finitely many identities of volumes.
LEMMA KeysAreFinite == IsFiniteSet(Catalog!Keys)
<1>1. IsFiniteSet(Serials \cup {"unreadable"})
  BY VolumesAssumption, FS_AddElement
<1> QED
  BY <1>1, VolumesAssumption, FS_Product DEF Catalog!Keys

\* The catalog knows no volume, and no thread runs.
LEMMA CatalogStart ==
    ASSUME Catalog!Init
    PROVE  Catalog!Inductive
<1>1. v2 = [k \in {} |-> 0] /\ v3 = [k \in {} |-> 0]
  BY DEF Catalog!Init
<1>2. /\ DOMAIN v2 = {} /\ v2 \in [{} -> Catalog!Entry]
      /\ DOMAIN v3 = {} /\ v3 \in [{} -> Catalog!Thread]
  BY <1>1
<1>3. Catalog!Cardinality({}) <= MaxWorkers
  BY CatalogCounts, FS_EmptySet, VolumesAssumption
<1> QED
  BY <1>2, <1>3
  DEF Catalog!Inductive, Catalog!Known, Catalog!ThreadsKnown, Catalog!Running,
      Catalog!OneWorkerPerVolume

\* What the invariant says, without names.
LEMMA CatalogFacts ==
    ASSUME Catalog!Inductive
    PROVE  /\ DOMAIN v2 \subseteq Catalog!Keys /\ DOMAIN v3 \subseteq DOMAIN v2
           /\ v2 \in [DOMAIN v2 -> Catalog!Entry] /\ v3 \in [DOMAIN v3 -> Catalog!Thread]
           /\ \A k \in DOMAIN v3 : v2[k].running
           /\ v4 # "stopped" => \A k \in DOMAIN v2 : v2[k].running => k \in DOMAIN v3
           /\ \A a, b \in DOMAIN v3 : a[1] = b[1] => a = b
           /\ Cardinality(DOMAIN v3) <= MaxWorkers
  BY CatalogCounts
  DEF Catalog!Inductive, Catalog!Known, Catalog!ThreadsKnown, Catalog!Running,
      Catalog!OneWorkerPerVolume

\* And the other way round.
LEMMA CatalogKept ==
    ASSUME DOMAIN v2' \subseteq Catalog!Keys, DOMAIN v3' \subseteq DOMAIN v2',
           v2' \in [DOMAIN v2' -> Catalog!Entry], v3' \in [DOMAIN v3' -> Catalog!Thread],
           \A k \in DOMAIN v3' : v2'[k].running,
           v4' # "stopped" => \A k \in DOMAIN v2' : v2'[k].running => k \in DOMAIN v3',
           \A a, b \in DOMAIN v3' : a[1] = b[1] => a = b,
           Cardinality(DOMAIN v3') <= MaxWorkers
    PROVE  Catalog!Inductive'
  BY CatalogCounts
  DEF Catalog!Inductive, Catalog!Known, Catalog!ThreadsKnown, Catalog!Running,
      Catalog!OneWorkerPerVolume

\* No entry starts or ends to run, and no thread comes or goes.
LEMMA CatalogStays ==
    ASSUME Catalog!Inductive, DOMAIN v2' = DOMAIN v2, DOMAIN v3' = DOMAIN v3,
           v2' \in [DOMAIN v2 -> Catalog!Entry], v3' \in [DOMAIN v3 -> Catalog!Thread],
           \A k \in DOMAIN v2 : v2'[k].running = v2[k].running,
           v4 = "stopped" => v4' = "stopped"
    PROVE  Catalog!Inductive'
  BY CatalogFacts, CatalogKept

\* What is discovered, and what is evicted for it, runs no thread.
LEMMA DiscoverKeeps ==
    ASSUME Catalog!Inductive, Catalog!Discover
    PROVE  Catalog!Inductive'
<1>1. PICK victims \in Catalog!Evictions :
        \E added \in Catalog!Additions(Catalog!Known \ victims) :
           v2' = [k \in (Catalog!Known \ victims) \cup added |->
                    IF k \in added THEN Catalog!New(Catalog!Supported(k))
                    ELSE IF k \in Catalog!Found
                         THEN Catalog!Sighted(v2[k], Catalog!Supported(k))
                         ELSE Catalog!Absent(v2[k])]
  BY DEF Catalog!Discover
<1>2. PICK added \in Catalog!Additions(Catalog!Known \ victims) :
           v2' = [k \in (Catalog!Known \ victims) \cup added |->
                    IF k \in added THEN Catalog!New(Catalog!Supported(k))
                    ELSE IF k \in Catalog!Found
                         THEN Catalog!Sighted(v2[k], Catalog!Supported(k))
                         ELSE Catalog!Absent(v2[k])]
  BY <1>1
<1>3. victims \subseteq DOMAIN v2 /\ \A k \in victims : ~v2[k].running
  BY DEF Catalog!Evictions, Catalog!MayEvict, Catalog!Known
<1>4. added \subseteq Catalog!Keys /\ added \cap (DOMAIN v2 \ victims) = {}
  BY DEF Catalog!Additions, Catalog!Found, Catalog!Known
<1>5. DOMAIN v2' = (DOMAIN v2 \ victims) \cup added
  BY <1>2 DEF Catalog!Known
<1>6. ASSUME NEW k \in added
      PROVE  v2'[k] \in Catalog!Entry /\ ~v2'[k].running
  BY <1>2, <1>6 DEF Catalog!New, Catalog!Supported, Catalog!Entry
<1>7. ASSUME NEW k \in DOMAIN v2 \ victims
      PROVE  v2'[k] \in Catalog!Entry /\ v2'[k].running = v2[k].running
  <2>1. v2[k] \in Catalog!Entry /\ k \notin added
    BY <1>4, CatalogFacts
  <2>2. \/ v2'[k] = Catalog!Sighted(v2[k], Catalog!Supported(k))
        \/ v2'[k] = Catalog!Absent(v2[k])
    BY <1>2, <2>1 DEF Catalog!Known
  <2>3. CASE v2'[k] = Catalog!Sighted(v2[k], Catalog!Supported(k))
    BY <2>1, <2>3 DEF Catalog!Sighted, Catalog!Supported, Catalog!Entry
  <2>4. CASE v2'[k] = Catalog!Absent(v2[k])
    BY <2>1, <2>4 DEF Catalog!Absent, Catalog!Entry
  <2> QED
    BY <2>2, <2>3, <2>4
<1>8. v2' \in [DOMAIN v2' -> Catalog!Entry]
  <2>1. \A k \in DOMAIN v2' : v2'[k] \in Catalog!Entry
    BY <1>5, <1>6, <1>7
  <2>2. v2' = [k \in DOMAIN v2' |-> v2'[k]]
    BY <1>2, <1>5
  <2> QED
    BY <2>1, <2>2
<1>9. v3' = v3 /\ v4 = "discover"
  BY DEF Catalog!Discover
<1> QED
  BY <1>3, <1>4, <1>5, <1>6, <1>7, <1>8, <1>9, CatalogFacts, CatalogKept

\* An entry ends to run when its thread is joined.
LEMMA WorkersKeep ==
    ASSUME Catalog!Inductive, Catalog!Workers
    PROVE  Catalog!Inductive'
<1>1. /\ v2' = [k \in DOMAIN v2 |->
                  IF k \notin DOMAIN v3 THEN v2[k]
                  ELSE IF v3[k].step = "ended" THEN Catalog!Ended(v2[k], v3[k].reason)
                  ELSE IF v3[k].step = "ready" THEN Catalog!Ready(v2[k])
                  ELSE v2[k]]
      /\ v3' = [k \in {x \in DOMAIN v3 : v3[x].step # "ended"} |->
                  [v3[k] EXCEPT !.stop = v3[k].stop \/ v2[k].stopping,
                                !.step = IF v3[k].step = "ready" THEN "working" ELSE v3[k].step]]
      /\ v4 = "workers" /\ v4' = "start"
  BY DEF Catalog!Workers, Catalog!Known, Catalog!HasEnded
<1>2. /\ DOMAIN v2' = DOMAIN v2
      /\ DOMAIN v3' = {x \in DOMAIN v3 : v3[x].step # "ended"}
  BY <1>1
<1>3. ASSUME NEW k \in DOMAIN v2
      PROVE  /\ v2'[k] \in Catalog!Entry
             /\ v2'[k].running <=> v2[k].running /\ ~(k \in DOMAIN v3 /\ v3[k].step = "ended")
  <2>1. v2[k] \in Catalog!Entry
    BY CatalogFacts
  <2>2. CASE v2'[k] = v2[k] /\ ~(k \in DOMAIN v3 /\ v3[k].step = "ended")
    BY <2>1, <2>2
  <2>3. CASE v2'[k] = Catalog!Ended(v2[k], v3[k].reason) /\ k \in DOMAIN v3 /\ v3[k].step = "ended"
    BY <2>1, <2>3 DEF Catalog!Ended, Catalog!Entry
  <2>4. CASE v2'[k] = Catalog!Ready(v2[k]) /\ ~(k \in DOMAIN v3 /\ v3[k].step = "ended")
    BY <2>1, <2>4 DEF Catalog!Ready, Catalog!Entry
  <2> QED
    BY <1>1, <2>2, <2>3, <2>4
<1>4. v3' \in [DOMAIN v3' -> Catalog!Thread]
  <2>1. ASSUME NEW k \in DOMAIN v3'
        PROVE  v3'[k] \in Catalog!Thread
    <3>1. v3[k] \in Catalog!Thread /\ v2[k] \in Catalog!Entry
      BY <1>2, CatalogFacts
    <3> DEFINE stop == v3[k].stop \/ v2[k].stopping
               pc == IF v3[k].step = "ready" THEN "working" ELSE v3[k].step
    <3>2. stop \in BOOLEAN /\ pc \in {"opening", "ready", "working", "ended"}
      BY <3>1 DEF Catalog!Thread, Catalog!Entry
    <3>3. v3'[k] = [v3[k] EXCEPT !.stop = stop, !.step = pc]
      BY <1>1, <1>2
    <3> HIDE DEF stop, pc
    <3> QED
      BY <3>1, <3>2, <3>3 DEF Catalog!Thread
  <2>2. v3' = [k \in DOMAIN v3' |-> v3'[k]]
    BY <1>1, <1>2
  <2> QED
    BY <2>1, <2>2
<1>5. v2' \in [DOMAIN v2' -> Catalog!Entry]
  BY <1>1, <1>2, <1>3
<1>6. Cardinality(DOMAIN v3') <= MaxWorkers
  <2>1. IsFiniteSet(DOMAIN v3) /\ DOMAIN v3' \subseteq DOMAIN v3
    BY <1>2, KeysAreFinite, CatalogFacts, FS_Subset
  <2>2. /\ Cardinality(DOMAIN v3') <= Cardinality(DOMAIN v3)
        /\ Cardinality(DOMAIN v3') \in Nat /\ Cardinality(DOMAIN v3) \in Nat
    BY <2>1, FS_Subset, FS_CardinalityType
  <2> QED
    BY <2>2, CatalogFacts, VolumesAssumption
<1> QED
  BY <1>1, <1>2, <1>3, <1>4, <1>5, <1>6, CatalogFacts, CatalogKept

\* A thread is started where none has the volume, as long as there is room.
LEMMA StartKeeps ==
    ASSUME Catalog!Inductive, Catalog!Start
    PROVE  Catalog!Inductive'
<1>1. PICK s \in Catalog!Starts :
        /\ v2' = [k \in DOMAIN v2 |-> IF k \in s
                    THEN [v2[k] EXCEPT !.running = TRUE, !.retry = "never"] ELSE v2[k]]
        /\ v3' = [k \in DOMAIN v3 \cup s |-> IF k \in s THEN Catalog!Opened ELSE v3[k]]
  BY DEF Catalog!Start, Catalog!Known
<1>2. v4 = "start" /\ Catalog!Running = DOMAIN v3
  BY CatalogFacts DEF Catalog!Start, Catalog!Running, Catalog!Known
<1>3. /\ s \subseteq DOMAIN v2
      /\ \A k \in s, r \in DOMAIN v3 : r[1] # k[1]
      /\ \A a, b \in s : a[1] = b[1] => a = b
      /\ Cardinality(s) <= (IF MaxWorkers > Cardinality(DOMAIN v3)
                            THEN MaxWorkers - Cardinality(DOMAIN v3) ELSE 0)
  BY <1>2, CatalogCounts DEF Catalog!Starts, Catalog!Free, Catalog!Wanting, Catalog!Known
<1>4. /\ DOMAIN v2' = DOMAIN v2 /\ DOMAIN v3' = DOMAIN v3 \cup s
      /\ \A k \in s : v2'[k].running /\ v2'[k] \in Catalog!Entry
      /\ \A k \in DOMAIN v2 \ s : v2'[k] = v2[k] /\ v2'[k] \in Catalog!Entry
  <2>1. DOMAIN v2' = DOMAIN v2 /\ DOMAIN v3' = DOMAIN v3 \cup s
    BY <1>1
  <2>2. ASSUME NEW k \in s
        PROVE  v2'[k].running /\ v2'[k] \in Catalog!Entry
    <3>1. v2[k] \in Catalog!Entry /\ v2'[k] = [v2[k] EXCEPT !.running = TRUE, !.retry = "never"]
      BY <1>1, <1>3, CatalogFacts
    <3> QED
      BY <3>1 DEF Catalog!Entry
  <2>3. \A k \in DOMAIN v2 \ s : v2'[k] = v2[k] /\ v2'[k] \in Catalog!Entry
    BY <1>1, CatalogFacts
  <2> QED
    BY <2>1, <2>2, <2>3
<1>5. v2' \in [DOMAIN v2' -> Catalog!Entry]
  <2>1. \A k \in DOMAIN v2' : v2'[k] \in Catalog!Entry
    BY <1>4
  <2>2. v2' = [k \in DOMAIN v2' |-> v2'[k]]
    BY <1>1, <1>4
  <2> QED
    BY <2>1, <2>2
<1>6. v3' \in [DOMAIN v3' -> Catalog!Thread]
  <2>1. Catalog!Opened \in Catalog!Thread
    BY DEF Catalog!Opened, Catalog!Thread
  <2> QED
    BY <1>1, <1>4, <2>1, CatalogFacts
<1>7. \A a, b \in DOMAIN v3' : a[1] = b[1] => a = b
  BY <1>3, <1>4, CatalogFacts
<1>8. Cardinality(DOMAIN v3') <= MaxWorkers
  <2>1. IsFiniteSet(DOMAIN v3) /\ IsFiniteSet(s)
    BY <1>3, KeysAreFinite, CatalogFacts, FS_Subset
  <2>2. /\ Cardinality(DOMAIN v3 \cup s) =
             Cardinality(DOMAIN v3) + Cardinality(s) - Cardinality(DOMAIN v3 \cap s)
        /\ IsFiniteSet(DOMAIN v3 \cap s)
    BY <2>1, FS_Union, FS_Intersection
  <2>3. /\ Cardinality(DOMAIN v3) \in Nat /\ Cardinality(s) \in Nat
        /\ Cardinality(DOMAIN v3 \cap s) \in Nat /\ MaxWorkers \in Nat
    BY <2>1, <2>2, FS_CardinalityType, VolumesAssumption
  <2>4. Cardinality(DOMAIN v3) <= MaxWorkers
    BY CatalogFacts
  <2> QED
    BY <1>3, <1>4, <2>2, <2>3, <2>4
<1> QED
  BY <1>2, <1>3, <1>4, <1>5, <1>6, <1>7, <1>8, CatalogFacts, CatalogKept

\* Every step keeps the entries and the threads together.
LEMMA CatalogStep ==
    ASSUME Catalog!Inductive, [Catalog!Next]_(Catalog!vars)
    PROVE  Catalog!Inductive'
<1>1. /\ v2 \in [DOMAIN v2 -> Catalog!Entry] /\ v3 \in [DOMAIN v3 -> Catalog!Thread]
      /\ DOMAIN v3 \subseteq DOMAIN v2
  BY CatalogFacts
<1>2. CASE Catalog!NoDiscovery \/ UNCHANGED Catalog!vars
            \/ \E g \in Guids, to \in Serials \cup {"unreadable", "none"} : Catalog!Change(g, to)
  <2>1. v2' = v2 /\ v3' = v3 /\ (v4 = "stopped" => v4' = "stopped")
    BY <1>2 DEF Catalog!NoDiscovery, Catalog!vars, Catalog!Change
  <2> QED
    BY <1>1, <2>1, CatalogStays
<1>3. ASSUME NEW k \in Catalog!Keys, Catalog!Wait(k)
      PROVE  Catalog!Inductive'
  <2>1. k \in DOMAIN v2 /\ v2' = [v2 EXCEPT ![k] = [v2[k] EXCEPT !.retry = "now"]]
        /\ v3' = v3 /\ v4' = v4
    BY <1>3 DEF Catalog!Wait, Catalog!Known
  <2>2. /\ [v2[k] EXCEPT !.retry = "now"] \in Catalog!Entry
        /\ [v2[k] EXCEPT !.retry = "now"].running = v2[k].running
    BY <1>1, <2>1 DEF Catalog!Entry
  <2> QED
    BY <1>1, <2>1, <2>2, CatalogStays
<1>4. ASSUME NEW k \in Catalog!Keys,
             \/ Catalog!Open(k) \/ Catalog!End(k)
             \/ \E reason \in {"transient", "other"} : Catalog!Fail(k, reason)
      PROVE  Catalog!Inductive'
  <2>1. PICK st \in {"ready", "ended"} : \E reason \in {"stopped", "transient", "other"} :
           k \in DOMAIN v3 /\ v3' = [v3 EXCEPT ![k].step = st, ![k].reason = reason]
    BY <1>4 DEF Catalog!Open, Catalog!End, Catalog!Fail
  <2>2. v2' = v2 /\ v4' = v4
    BY <1>4 DEF Catalog!Open, Catalog!End, Catalog!Fail
  <2>3. v3' \in [DOMAIN v3 -> Catalog!Thread] /\ DOMAIN v3' = DOMAIN v3
    BY <1>1, <2>1 DEF Catalog!Thread
  <2> QED
    BY <1>1, <2>2, <2>3, CatalogStays
<1>5. CASE Catalog!Shutdown
  <2>1. /\ v2' = [k \in DOMAIN v2 |-> [v2[k] EXCEPT !.stopping = v2[k].stopping \/ v2[k].running]]
        /\ v3' = [k \in DOMAIN v3 |-> [v3[k] EXCEPT !.stop = TRUE]] /\ v4 # "stopped"
    BY <1>5 DEF Catalog!Shutdown, Catalog!Known
  <2>2. \A k \in DOMAIN v2 : v2'[k] \in Catalog!Entry /\ v2'[k].running = v2[k].running
    BY <1>1, <2>1 DEF Catalog!Entry
  <2>3. v2' \in [DOMAIN v2 -> Catalog!Entry] /\ DOMAIN v2' = DOMAIN v2
    BY <2>1, <2>2
  <2>4. v3' \in [DOMAIN v3 -> Catalog!Thread] /\ DOMAIN v3' = DOMAIN v3
    BY <1>1, <2>1 DEF Catalog!Thread
  <2> QED
    BY <2>1, <2>2, <2>3, <2>4, CatalogStays
<1>6. CASE Catalog!Join
  <2>1. v2' = v2 /\ v4' = "stopped" /\ v3' = [k \in {} |-> 0]
    BY <1>6 DEF Catalog!Join
  <2>2. DOMAIN v3' = {} /\ v3' \in [{} -> Catalog!Thread]
    BY <2>1
  <2>3. Cardinality(DOMAIN v3') <= MaxWorkers
    BY <2>2, FS_EmptySet, VolumesAssumption
  <2> QED
    BY <2>1, <2>2, <2>3, CatalogFacts, CatalogKept
<1> QED
  BY <1>2, <1>3, <1>4, <1>5, <1>6, DiscoverKeeps, WorkersKeep, StartKeeps
  DEF Catalog!Next, Catalog!Loop

-----------------------------------------------------------------------------
(* EndpointProbes: v1 is entries, v4 and v5 are batch and checks, v6 and v7    *)
(* target and layers, v8 is step, v10 checked, v13 contacts.                  *)

LEMMA EndpointsStart ==
    ASSUME Endpoints!Init
    PROVE  Endpoints!Inductive
<1> USE ProbesAssumption
    DEF Endpoints!Init, Endpoints!TypeOK, Endpoints!NoEntry, Endpoints!Entry, Endpoints!Scopes
<1>1. \A r \in Refs, l \in Endpoints!Layers : v13[<<r, l>>] = <<>> /\ ~v1[r].live
  OBVIOUS
<1>2. Endpoints!TypeOK
  <2>1. v13 \in [Refs \X Endpoints!Layers -> Seq(Endpoints!Contact)]
    OBVIOUS
  <2>2. v4 \in Seq(Refs) /\ v7 \in Seq(Endpoints!Layers)
    OBVIOUS
  <2>3. v1 \in [Refs -> Endpoints!Entry]
    OBVIOUS
  <2>4. v2 \in SUBSET Endpoints!Addresses /\ v5 \subseteq Endpoints!Layers
    OBVIOUS
  <2>5. v3 \in 0 .. MaxResolutions /\ v6 \in Refs
    OBVIOUS
  <2>6. v9 \subseteq Endpoints!Addresses /\ v10 \subseteq Endpoints!Addresses
    OBVIOUS
  <2>7. v11 \in BOOLEAN /\ v12 \in BOOLEAN /\ v8 = "idle"
    OBVIOUS
  <2> HIDE DEF Endpoints!Init, Endpoints!Entry
  <2> QED
    BY <2>1, <2>2, <2>3, <2>4, <2>5, <2>6, <2>7
<1>3. Endpoints!ProbesAsConfirmed
  <2>1. Len(<<>>) = 0 /\ DOMAIN <<>> = {}
    OBVIOUS
  <2> SUFFICES ASSUME NEW r \in Refs, NEW l \in Endpoints!Layers
               PROVE  Len(v13[<<r, l>>]) <= 1 /\ DOMAIN v13[<<r, l>>] = {}
    BY DEF Endpoints!ProbesAsConfirmed
  <2> QED
    BY <1>1, <2>1
<1> QED
  BY <1>1, <1>2, <1>3 DEF Endpoints!Inductive, Endpoints!Untouched

\* The layers a batch asks for, each once.
LEMMA OrderIs ==
    ASSUME v5 \subseteq Endpoints!Layers
    PROVE  /\ Endpoints!Order \in Seq(Endpoints!Layers)
           /\ \A i \in DOMAIN Endpoints!Order :
                 /\ Endpoints!Order[i] \in v5
                 /\ \A j \in DOMAIN Endpoints!Order :
                       Endpoints!Order[i] = Endpoints!Order[j] => i = j
<1> DEFINE all4 == {<<>>, <<"tcp">>, <<"https">>, <<"tcp", "https">>}
           rng(o) == {o[i] : i \in DOMAIN o}
<1>1. /\ rng(<<>>) = {} /\ rng(<<"tcp">>) = {"tcp"} /\ rng(<<"https">>) = {"https"}
      /\ rng(<<"tcp", "https">>) = {"tcp", "https"}
  OBVIOUS
<1>2. \/ v5 = {} \/ v5 = {"tcp"} \/ v5 = {"https"} \/ v5 = {"tcp", "https"}
  BY DEF Endpoints!Layers
<1>3. \E o \in all4 : rng(o) = v5
  BY <1>1, <1>2
<1>4. Endpoints!Order \in all4 /\ rng(Endpoints!Order) = v5
  BY <1>3 DEF Endpoints!Order
<1>5. \A i \in DOMAIN Endpoints!Order : Endpoints!Order[i] \in v5
  BY <1>4
<1>6. Endpoints!Order \in Seq(Endpoints!Layers)
  <2>1. /\ <<>> \in Seq(Endpoints!Layers) /\ <<"tcp">> \in Seq(Endpoints!Layers)
        /\ <<"https">> \in Seq(Endpoints!Layers)
        /\ <<"tcp", "https">> \in Seq(Endpoints!Layers)
    BY DEF Endpoints!Layers
  <2> QED
    BY <1>4, <2>1
<1>7. \A i, j \in DOMAIN Endpoints!Order : Endpoints!Order[i] = Endpoints!Order[j] => i = j
  BY <1>4
<1> QED
  BY <1>5, <1>6, <1>7

\* What a step leaves alone when it neither registers nor connects: nothing
\* comes to be live, and what was registered stays as it was.
EndpointsKept ==
    /\ v1' \in [Refs -> Endpoints!Entry] /\ v13' = v13
    /\ \A r \in Refs :
          /\ v1'[r].live => v1[r].live
          /\ v1'[r].scope = v1[r].scope /\ v1'[r].checks = v1[r].checks

LEMMA ContactsStay ==
    ASSUME Endpoints!Inductive, EndpointsKept
    PROVE  /\ Endpoints!ProbesAsConfirmed'
           /\ \A r \in Refs, l \in Endpoints!Layers : v1'[r].live => v13'[<<r, l>>] = <<>>
  BY DEF Endpoints!Inductive, EndpointsKept, Endpoints!ProbesAsConfirmed, Endpoints!Allowed,
         Endpoints!Untouched

LEMMA EndpointsFacts ==
    ASSUME Endpoints!Inductive
    PROVE  /\ v1 \in [Refs -> Endpoints!Entry] /\ v4 \in Seq(Refs) /\ v6 \in Refs
           /\ v5 \subseteq Endpoints!Layers /\ v7 \in Seq(Endpoints!Layers)
           /\ v10 \subseteq Endpoints!Addresses
           /\ v13 \in [Refs \X Endpoints!Layers -> Seq(Endpoints!Contact)]
           /\ \A i \in DOMAIN v4 : v4[i] \in Refs
           /\ \A i \in DOMAIN v7 : v7[i] \in Endpoints!Layers
  BY DEF Endpoints!Inductive, Endpoints!TypeOK

\* A registration takes a reference that nothing was contacted for.
LEMMA RegisterKeeps ==
    ASSUME Endpoints!Inductive, NEW r \in Refs, NEW scope \in Endpoints!Scopes,
           NEW wanted \in SUBSET Endpoints!Layers, Endpoints!Register(r, scope, wanted)
    PROVE  Endpoints!Inductive'
<1> DEFINE new == [live |-> TRUE, fresh |-> TRUE, scope |-> scope, checks |-> wanted]
<1>1. /\ v1' = [v1 EXCEPT ![r] = new] /\ v1[r] = Endpoints!NoEntry /\ v8 = "idle"
      /\ UNCHANGED <<v2, v3, v4, v5, v6, v7, v8, v9, v10, v11, v12, v13>>
  BY DEF Endpoints!Register, Endpoints!Unused, Endpoints!probe
<1>2. new \in Endpoints!Entry
  BY DEF Endpoints!Entry
<1> HIDE DEF new
<1>3. v1' \in [Refs -> Endpoints!Entry] /\ \A o \in Refs \ {r} : v1'[o] = v1[o]
  BY <1>1, <1>2, EndpointsFacts
<1>4. ~v1[r].live /\ v1[r].checks = {}
  BY <1>1 DEF Endpoints!NoEntry
<1>5. \A l \in Endpoints!Layers : v13[<<r, l>>] = <<>>
  <2> SUFFICES ASSUME NEW l \in Endpoints!Layers, v13[<<r, l>>] # <<>>
               PROVE  FALSE
    OBVIOUS
  <2>1. v13[<<r, l>>] \in Seq(Endpoints!Contact)
    BY EndpointsFacts
  <2>2. 1 \in DOMAIN v13[<<r, l>>]
    BY <2>1
  <2> QED
    BY <2>2, <1>4 DEF Endpoints!Inductive, Endpoints!ProbesAsConfirmed
<1>6. Endpoints!TypeOK'
  BY <1>1, <1>3 DEF Endpoints!Inductive, Endpoints!TypeOK
<1>7. \A i \in DOMAIN v4 : v4[i] \in Refs \ {r}
  BY <1>4, EndpointsFacts DEF Endpoints!Inductive
<1>8. Endpoints!ProbesAsConfirmed'
  <2>1. \A o \in Refs \ {r} : v1'[o] = v1[o] /\ v13' = v13
    BY <1>1, <1>3
  <2>2. \A l \in Endpoints!Layers : Len(v13'[<<r, l>>]) <= 1 /\ DOMAIN v13'[<<r, l>>] = {}
    BY <1>1, <1>5
  <2>3. ASSUME NEW o \in Refs, NEW l \in Endpoints!Layers
        PROVE  /\ Len(v13'[<<o, l>>]) <= 1
               /\ \A i \in DOMAIN v13'[<<o, l>>] :
                     /\ l \in v1'[o].checks
                     /\ v13'[<<o, l>>][i].to \in v13'[<<o, l>>][i].known
                     /\ Endpoints!Allowed(v13'[<<o, l>>][i].to, v1'[o].scope)
    <3>1. CASE o = r
      BY <3>1, <2>2
    <3>2. CASE o # r
      BY <3>2, <2>1 DEF Endpoints!Inductive, Endpoints!ProbesAsConfirmed
    <3> QED
      BY <3>1, <3>2
  <2> QED
    BY <2>3 DEF Endpoints!ProbesAsConfirmed, Endpoints!Allowed
<1> QED
  BY <1>1, <1>3, <1>5, <1>6, <1>7, <1>8 DEF Endpoints!Inductive, Endpoints!Untouched

\* The head of the batch is used up, before anything is asked of it.
LEMMA BeginKeeps ==
    ASSUME Endpoints!Inductive, Endpoints!Begin
    PROVE  Endpoints!Inductive'
<1> DEFINE r == Head(v4)
<1>1. /\ v8 = "between" /\ v4 # <<>> /\ v6' = r /\ v8' \in {"between", "resolving"}
      /\ v1' = [v1 EXCEPT ![r].live = FALSE, ![r].fresh = FALSE]
      /\ v4' = <<>> \/ v4' = Tail(v4)
      /\ UNCHANGED <<v2, v3, v5, v7, v9, v10, v11, v12, v13>>
  BY DEF Endpoints!Begin, Endpoints!UsedUp
<1>2. /\ r \in Refs /\ 1 \in DOMAIN v4 /\ r = v4[1] /\ v4' \in Seq(Refs)
      /\ \A i \in DOMAIN v4' : i + 1 \in DOMAIN v4 /\ v4'[i] = v4[i + 1] /\ i + 1 # 1
      /\ \A i, j \in DOMAIN v4' : i + 1 = j + 1 => i = j
  <2>1. v4 \in Seq(Refs) /\ v4 # <<>>
    BY <1>1, EndpointsFacts
  <2>2. /\ r \in Refs /\ 1 \in DOMAIN v4 /\ r = v4[1]
    BY <2>1
  <2>4. /\ Tail(v4) \in Seq(Refs) /\ <<>> \in Seq(Refs)
        /\ \A i \in DOMAIN Tail(v4) :
              i + 1 \in DOMAIN v4 /\ Tail(v4)[i] = v4[i + 1] /\ i \in Nat \ {0}
    BY <2>1
  <2>3. /\ v4' \in Seq(Refs)
        /\ \A i \in DOMAIN v4' :
              i + 1 \in DOMAIN v4 /\ v4'[i] = v4[i + 1] /\ i \in Nat \ {0}
    <3>1. CASE v4' = <<>>
      BY <3>1, <2>4
    <3>2. CASE v4' = Tail(v4)
      BY <3>2, <2>4
    <3> QED
      BY <3>1, <3>2, <1>1
  <2> QED
    BY <2>2, <2>3
<1>3. /\ v1' \in [Refs -> Endpoints!Entry] /\ ~v1'[r].live
      /\ v1'[r].scope = v1[r].scope /\ v1'[r].checks = v1[r].checks
      /\ \A o \in Refs \ {r} : v1'[o] = v1[o]
  BY ZenonT(60), <1>1, <1>2, EndpointsFacts DEF Endpoints!Entry
<1> HIDE DEF r
<1>4. EndpointsKept
  BY <1>1, <1>3 DEF EndpointsKept
<1>5. /\ v1[r].live /\ v5 \subseteq v1[r].checks
      /\ \A i \in DOMAIN v4' :
            /\ v1[v4'[i]].live /\ v5 \subseteq v1[v4'[i]].checks /\ v4'[i] # r
            /\ v4'[i] \in Refs
            /\ \A j \in DOMAIN v4' : v4'[i] = v4'[j] => i = j
  BY <1>2, EndpointsFacts DEF Endpoints!Inductive
<1>6. \A l \in Endpoints!Layers : v13[<<r, l>>] = <<>>
  BY <1>2, <1>5 DEF Endpoints!Inductive, Endpoints!Untouched
<1>7. Endpoints!TypeOK'
  BY <1>1, <1>2, <1>3 DEF Endpoints!Inductive, Endpoints!TypeOK
<1>8. \A i \in DOMAIN v4' : v1'[v4'[i]] = v1[v4'[i]]
  BY <1>3, <1>5
<1> QED
  BY <1>1, <1>3, <1>4, <1>5, <1>6, <1>7, <1>8, ContactsStay
  DEF Endpoints!Inductive, Endpoints!Untouched

\* What a person, a timer or the resolver does while the probe stands still.
LEMMA EndpointsAround ==
    ASSUME Endpoints!Inductive, EndpointsKept, Endpoints!TypeOK',
           \A r \in Refs : v1'[r].live = v1[r].live,
           UNCHANGED <<v4, v5, v6, v7, v8, v10>>
    PROVE  Endpoints!Inductive'
<1>1. \A i \in DOMAIN v4 : v4[i] \in Refs
  BY EndpointsFacts
<1>2. v6 \in Refs /\ v10 \subseteq Endpoints!Addresses
  BY EndpointsFacts
<1>3. Endpoints!InScope(v10) => Endpoints!InScope(v10)'
  BY <1>2 DEF Endpoints!InScope, Endpoints!Allowed, EndpointsKept
<1> QED
  BY <1>1, <1>2, <1>3, ContactsStay DEF Endpoints!Inductive, Endpoints!Untouched, EndpointsKept

\* What the steps of a probe share: the registrations stay as they are.
LEMMA ProbeSteps ==
    ASSUME Endpoints!Inductive, UNCHANGED v1, UNCHANGED v13
    PROVE  EndpointsKept
  BY EndpointsFacts DEF EndpointsKept

LEMMA QueryKeeps ==
    ASSUME Endpoints!Inductive, NEW refs \in Endpoints!Batches,
           NEW wanted \in SUBSET Endpoints!Layers, Endpoints!Query(refs, wanted)
    PROVE  Endpoints!Inductive'
<1>1. /\ v4' = refs /\ v5' = wanted /\ v8' = "between"
      /\ \A i \in DOMAIN refs : refs[i] \in Endpoints!Registered /\ wanted \subseteq v1[refs[i]].checks
      /\ UNCHANGED <<v1, v2, v3, v6, v7, v9, v10, v11, v12, v13>>
  BY DEF Endpoints!Query
<1>2. \A i, j \in DOMAIN refs : refs[i] = refs[j] => i = j
  BY DEF Endpoints!Batches
<1>3. refs \in Seq(Refs)
  <2>1. PICK n \in 1 .. MaxEndpoints : refs \in [1 .. n -> Endpoints!Registered]
    BY DEF Endpoints!Batches
  <2>2. n \in Nat
    BY ProbesAssumption
  <2>3. Endpoints!Registered \subseteq Refs
    BY DEF Endpoints!Registered
  <2> QED
    BY <2>1, <2>2, <2>3
<1>4. \A i \in DOMAIN refs : v1[refs[i]].live
  BY <1>1 DEF Endpoints!Registered
<1>5. Endpoints!TypeOK'
  BY <1>1, <1>3 DEF Endpoints!Inductive, Endpoints!TypeOK
<1> QED
  BY <1>1, <1>2, <1>4, <1>5, ProbeSteps, ContactsStay
  DEF Endpoints!Inductive, Endpoints!Untouched

LEMMA FirstKeeps ==
    ASSUME Endpoints!Inductive, Endpoints!First
    PROVE  Endpoints!Inductive'
<1>1. /\ v8 = "resolving" /\ v3' \in {v3, v3 + 1} /\ v3' <= MaxResolutions
      /\ \/ v8' = "between" /\ UNCHANGED <<v7, v9>>
         \/ v8' = "layers" /\ v7' = Endpoints!Order /\ v9' \subseteq Endpoints!Addresses
      /\ UNCHANGED <<v1, v2, v4, v5, v6, v10, v11, v12, v13>>
  BY ProbesAssumption
  DEF Endpoints!First, Endpoints!Resolve, Endpoints!Inductive, Endpoints!TypeOK
<1>2. v3' \in 0 .. MaxResolutions
  BY <1>1, ProbesAssumption DEF Endpoints!Inductive, Endpoints!TypeOK
<1>3. v7' \in Seq(Endpoints!Layers) /\ v9' \subseteq Endpoints!Addresses
  BY <1>1, OrderIs, EndpointsFacts DEF Endpoints!Inductive, Endpoints!TypeOK
<1>4. Endpoints!TypeOK'
  BY <1>1, <1>2, <1>3 DEF Endpoints!Inductive, Endpoints!TypeOK
<1>5. \A l \in Endpoints!Layers : v13[<<v6, l>>] = <<>>
  BY <1>1 DEF Endpoints!Inductive, Endpoints!Untouched
<1>6. v8' = "layers" =>
         \A i \in DOMAIN v7' :
            /\ v7'[i] \in v5 /\ v13[<<v6, v7'[i]>>] = <<>>
            /\ \A j \in DOMAIN v7' : v7'[i] = v7'[j] => i = j
  BY <1>1, <1>5, OrderIs, EndpointsFacts
<1> QED
  BY <1>1, <1>4, <1>6, ProbeSteps, ContactsStay DEF Endpoints!Inductive, Endpoints!Untouched

LEMMA LayerKeeps ==
    ASSUME Endpoints!Inductive, Endpoints!Layer
    PROVE  Endpoints!Inductive'
<1>1. /\ v8 = "layers"
      /\ \/ v8' = "between" /\ v7' = <<>> /\ v9' = {} /\ v10' = {}
         \/ v8' = "checking" /\ v7 # <<>> /\ UNCHANGED <<v7, v9, v10>>
      /\ UNCHANGED <<v1, v2, v3, v4, v5, v6, v11, v12, v13>>
  BY DEF Endpoints!Layer
<1>2. v7' \in Seq(Endpoints!Layers)
  <2>1. v7 \in Seq(Endpoints!Layers) /\ <<>> \in Seq(Endpoints!Layers)
    BY EndpointsFacts
  <2>2. v7' \in {v7, <<>>}
    BY <1>1
  <2> QED
    BY <2>1, <2>2
<1>3. Endpoints!TypeOK'
  BY <1>1, <1>2 DEF Endpoints!Inductive, Endpoints!TypeOK
<1> QED
  BY <1>1, <1>3, ProbeSteps, ContactsStay DEF Endpoints!Inductive, Endpoints!Untouched

\* What is left of the layers when one is done.
LEMMA RestOfLayers ==
    ASSUME Endpoints!Inductive, v7 # <<>>, v8 \in {"layers", "checking", "connecting"}
    PROVE  /\ Head(v7) \in v5 /\ Head(v7) \in Endpoints!Layers
           /\ v13[<<v6, Head(v7)>>] = <<>>
           /\ Tail(v7) \in Seq(Endpoints!Layers)
           /\ \A i \in DOMAIN Tail(v7) :
                 /\ Tail(v7)[i] \in v5 /\ v13[<<v6, Tail(v7)[i]>>] = <<>>
                 /\ Tail(v7)[i] # Head(v7)
                 /\ \A j \in DOMAIN Tail(v7) : Tail(v7)[i] = Tail(v7)[j] => i = j
<1>1. v7 \in Seq(Endpoints!Layers) /\ v7 # <<>>
  BY EndpointsFacts
<1>2. 1 \in DOMAIN v7 /\ Head(v7) = v7[1] /\ Tail(v7) \in Seq(Endpoints!Layers)
  BY <1>1
<1>3. \A i \in DOMAIN Tail(v7) :
        i + 1 \in DOMAIN v7 /\ Tail(v7)[i] = v7[i + 1] /\ i \in Nat \ {0}
  BY <1>1
<1>4. \A i \in DOMAIN v7 :
        /\ v7[i] \in v5 /\ v13[<<v6, v7[i]>>] = <<>> /\ v7[i] \in Endpoints!Layers
        /\ \A j \in DOMAIN v7 : v7[i] = v7[j] => i = j
  BY EndpointsFacts DEF Endpoints!Inductive, Endpoints!Untouched
<1>5. \A i \in DOMAIN Tail(v7) :
        /\ Tail(v7)[i] \in v5 /\ v13[<<v6, Tail(v7)[i]>>] = <<>>
        /\ Tail(v7)[i] # Head(v7)
  BY <1>2, <1>3, <1>4
<1>6. ASSUME NEW i \in DOMAIN Tail(v7), NEW j \in DOMAIN Tail(v7), Tail(v7)[i] = Tail(v7)[j]
      PROVE  i = j
  <2>2. v7[i + 1] = v7[j + 1] /\ i + 1 \in DOMAIN v7 /\ j + 1 \in DOMAIN v7
    BY <1>3, <1>6
  <2>1. i + 1 = j + 1
    BY <1>4, <2>2
  <2> QED
    BY <2>1, <1>3
<1> QED
  BY <1>2, <1>4, <1>5, <1>6

LEMMA AgainKeeps ==
    ASSUME Endpoints!Inductive, Endpoints!Again
    PROVE  Endpoints!Inductive'
<1>1. /\ v8 = "checking" /\ v3' \in {v3, v3 + 1} /\ v3' <= MaxResolutions
      /\ v10' \subseteq Endpoints!Addresses
      /\ \/ v8' = "connecting" /\ Endpoints!InScope(v10') /\ v7' = v7
         \/ v8' = "layers" /\ v7' = Tail(v7)
      /\ UNCHANGED <<v1, v2, v4, v5, v6, v9, v11, v12, v13>>
  BY ProbesAssumption
  DEF Endpoints!Again, Endpoints!Resolve, Endpoints!Inductive, Endpoints!TypeOK
<1>2. v3' \in 0 .. MaxResolutions /\ v7 # <<>>
  BY <1>1, ProbesAssumption DEF Endpoints!Inductive, Endpoints!TypeOK
<1>3. v7' \in Seq(Endpoints!Layers)
  BY <1>1, <1>2, RestOfLayers, EndpointsFacts
<1>4. Endpoints!TypeOK'
  BY <1>1, <1>2, <1>3 DEF Endpoints!Inductive, Endpoints!TypeOK
<1>5. Endpoints!InScope(v10') => Endpoints!InScope(v10)'
  BY <1>1 DEF Endpoints!InScope, Endpoints!Allowed
<1>6. EndpointsKept
  BY <1>1, ProbeSteps
<1>7. CASE v8' = "connecting"
  BY <1>1, <1>2, <1>4, <1>5, <1>6, <1>7, ContactsStay
  DEF Endpoints!Inductive, Endpoints!Untouched
<1>8. CASE v8' = "layers"
  BY <1>1, <1>2, <1>4, <1>6, <1>8, RestOfLayers, ContactsStay
  DEF Endpoints!Inductive, Endpoints!Untouched
<1> QED
  BY <1>1, <1>7, <1>8

\* A connection goes to one of the addresses just found to be in scope.
LEMMA ConnectKeeps ==
    ASSUME Endpoints!Inductive, NEW address \in Endpoints!Addresses,
           Endpoints!Connect(address)
    PROVE  Endpoints!Inductive'
<1> DEFINE l == Head(v7)
           contact == [to |-> address, known |-> v10]
<1>1. /\ v8 = "connecting" /\ address \in v10 /\ v8' = "layers"
      /\ \/ UNCHANGED <<v7, v13>>
         \/ v13' = [v13 EXCEPT ![<<v6, l>>] = Append(@, contact)] /\ v7' = Tail(v7)
      /\ UNCHANGED <<v1, v2, v3, v4, v5, v6, v9, v10, v11, v12>>
  BY DEF Endpoints!Connect, Endpoints!Reachable
<1>2. v7 # <<>> /\ Endpoints!InScope(v10)
  BY <1>1 DEF Endpoints!Inductive
<1>3. /\ l \in v5 /\ l \in Endpoints!Layers /\ v13[<<v6, l>>] = <<>>
      /\ v6 \in Refs /\ v5 \subseteq v1[v6].checks /\ ~v1[v6].live
  BY <1>1, <1>2, RestOfLayers, EndpointsFacts DEF Endpoints!Inductive
<1>4. contact \in Endpoints!Contact /\ contact.to = address /\ contact.known = v10
  BY EndpointsFacts DEF Endpoints!Contact
<1>5. CASE UNCHANGED <<v7, v13>>
  <2>1. Endpoints!TypeOK'
    BY <1>1, <1>5 DEF Endpoints!Inductive, Endpoints!TypeOK
  <2> QED
    BY <1>1, <1>5, <2>1, ProbeSteps, ContactsStay DEF Endpoints!Inductive, Endpoints!Untouched
<1>6. CASE v13' = [v13 EXCEPT ![<<v6, l>>] = Append(@, contact)] /\ v7' = Tail(v7)
  <2> HIDE DEF l, contact
  <2>1. /\ v13'[<<v6, l>>] = Append(<<>>, contact)
        /\ \A p \in Refs \X Endpoints!Layers : p # <<v6, l>> => v13'[p] = v13[p]
    BY <1>3, <1>6, EndpointsFacts
  <2>2. /\ Append(<<>>, contact) \in Seq(Endpoints!Contact)
        /\ Len(Append(<<>>, contact)) = 1 /\ DOMAIN Append(<<>>, contact) = {1}
        /\ Append(<<>>, contact)[1] = contact
    BY <1>4
  <2>3. v13' \in [Refs \X Endpoints!Layers -> Seq(Endpoints!Contact)]
    BY <1>3, <1>6, <2>2, EndpointsFacts
  <2>4. Tail(v7) \in Seq(Endpoints!Layers)
    BY <1>1, <1>2, RestOfLayers
  <2>5. Endpoints!TypeOK'
    BY <1>1, <1>6, <2>3, <2>4 DEF Endpoints!Inductive, Endpoints!TypeOK
  <2>6. ASSUME NEW o \in Refs, NEW k \in Endpoints!Layers
        PROVE  /\ Len(v13'[<<o, k>>]) <= 1
               /\ \A i \in DOMAIN v13'[<<o, k>>] :
                     /\ k \in v1'[o].checks
                     /\ v13'[<<o, k>>][i].to \in v13'[<<o, k>>][i].known
                     /\ Endpoints!Allowed(v13'[<<o, k>>][i].to, v1'[o].scope)
    <3>1. CASE <<o, k>> = <<v6, l>>
      <4>1. Endpoints!Allowed(address, v1[v6].scope)
        BY <1>1, <1>2 DEF Endpoints!InScope
      <4>2. /\ k \in v1'[o].checks /\ v1'[o].scope = v1[v6].scope
        BY <1>1, <1>3, <3>1
      <4>3. v13'[<<o, k>>] = Append(<<>>, contact)
        BY <2>1, <3>1
      <4>4. contact.to \in contact.known
        BY <1>1, <1>4
      <4> QED
        BY <1>4, <2>2, <4>1, <4>2, <4>3, <4>4
    <3>2. CASE <<o, k>> # <<v6, l>>
      BY <1>1, <2>1, <3>2 DEF Endpoints!Inductive, Endpoints!ProbesAsConfirmed
    <3> QED
      BY <3>1, <3>2
  <2>7. Endpoints!ProbesAsConfirmed'
    BY <2>6 DEF Endpoints!ProbesAsConfirmed, Endpoints!Allowed
  <2>8. \A r \in Refs, k \in Endpoints!Layers : v1'[r].live => v13'[<<r, k>>] = <<>>
    BY <1>1, <1>3, <2>1 DEF Endpoints!Inductive, Endpoints!Untouched
  <2>9. \A i \in DOMAIN v7' :
           /\ v7'[i] \in v5 /\ v13'[<<v6, v7'[i]>>] = <<>>
           /\ \A j \in DOMAIN v7' : v7'[i] = v7'[j] => i = j
    <3> SUFFICES ASSUME NEW i \in DOMAIN v7'
                 PROVE  /\ v7'[i] \in v5 /\ v13'[<<v6, v7'[i]>>] = <<>>
                        /\ \A j \in DOMAIN v7' : v7'[i] = v7'[j] => i = j
      OBVIOUS
    <3>1. /\ v7'[i] \in v5 /\ v13[<<v6, v7'[i]>>] = <<>> /\ v7'[i] # l
          /\ \A j \in DOMAIN v7' : v7'[i] = v7'[j] => i = j
      BY <1>1, <1>2, <1>6, RestOfLayers DEF l
    <3>2. v7'[i] \in Endpoints!Layers
      BY <3>1, EndpointsFacts
    <3> QED
      BY <1>3, <2>1, <3>1, <3>2
  <2> QED
    BY <1>1, <2>5, <2>7, <2>8, <2>9 DEF Endpoints!Inductive, Endpoints!Untouched
<1> QED
  BY <1>1, <1>5, <1>6

\* Everything a step of the probe does keeps what makes it reach no address
\* that was not agreed to.
LEMMA EndpointsStep ==
    ASSUME Endpoints!Inductive, [Endpoints!Next]_(Endpoints!vars)
    PROVE  Endpoints!Inductive'
<1>1. ASSUME NEW r \in Refs, Endpoints!Expire(r)
      PROVE  Endpoints!Inductive'
  <2>1. v1' = [v1 EXCEPT ![r].fresh = FALSE] /\ UNCHANGED <<v2, v3, v4, v5, v6, v7, v8, v9,
          v10, v11, v12, v13>>
    BY <1>1 DEF Endpoints!Expire, Endpoints!probe
  <2>2. /\ v1' \in [Refs -> Endpoints!Entry]
        /\ \A o \in Refs : /\ v1'[o].live = v1[o].live /\ v1'[o].scope = v1[o].scope
                           /\ v1'[o].checks = v1[o].checks
    BY ZenonT(60), <2>1, EndpointsFacts DEF Endpoints!Entry
  <2>3. Endpoints!TypeOK'
    BY <2>1, <2>2 DEF Endpoints!Inductive, Endpoints!TypeOK
  <2> QED
    BY <2>1, <2>2, <2>3, EndpointsAround DEF EndpointsKept
<1>2. CASE Endpoints!Done
  <2>1. /\ v8' = "idle" /\ v4 = <<>> /\ v5' = {} /\ ~v11' /\ ~v12' /\ v11' \in BOOLEAN
        /\ v12' \in BOOLEAN /\ UNCHANGED <<v1, v2, v3, v4, v6, v7, v9, v10, v13>>
    BY <1>2 DEF Endpoints!Done
  <2>2. Endpoints!TypeOK'
    BY <2>1 DEF Endpoints!Inductive, Endpoints!TypeOK
  <2>3. DOMAIN v4' = {}
    BY <2>1
  <2> QED
    BY <2>1, <2>2, <2>3, ProbeSteps, ContactsStay DEF Endpoints!Inductive, Endpoints!Untouched
<1>3. CASE \/ Endpoints!Cancel \/ Endpoints!Overrun \/ Endpoints!WorkerReturns
           \/ \E now \in SUBSET Endpoints!Addresses : Endpoints!AnswerChanges(now)
           \/ UNCHANGED Endpoints!vars
  <2> USE DEF Endpoints!Cancel, Endpoints!Overrun, Endpoints!WorkerReturns,
            Endpoints!AnswerChanges, Endpoints!vars, Endpoints!probe
  <2>4. UNCHANGED <<v1, v4, v5, v6, v7, v8, v9, v10, v13>>
    BY <1>3
  <2>5. v2' \in SUBSET Endpoints!Addresses
    BY <1>3 DEF Endpoints!Inductive, Endpoints!TypeOK
  <2>6. v3' = v3 \/ (v3 > 0 /\ v3' = v3 - 1)
    BY <1>3
  <2>7. v3' \in 0 .. MaxResolutions
    BY <2>6, ProbesAssumption DEF Endpoints!Inductive, Endpoints!TypeOK
  <2>8. (v11' = v11 \/ v11' = TRUE) /\ (v12' = v12 \/ v12' = TRUE)
    BY <1>3
  <2>1. /\ UNCHANGED <<v1, v4, v5, v6, v7, v8, v9, v10, v13>>
        /\ v2' \in SUBSET Endpoints!Addresses /\ v3' \in 0 .. MaxResolutions
        /\ v11' \in BOOLEAN /\ v12' \in BOOLEAN
    BY <2>4, <2>5, <2>7, <2>8 DEF Endpoints!Inductive, Endpoints!TypeOK
  <2>2. Endpoints!TypeOK'
    BY <2>1 DEF Endpoints!Inductive, Endpoints!TypeOK
  <2> QED
    BY <2>1, <2>2, ProbeSteps, EndpointsAround
<1>4. Endpoints!Registered \subseteq Refs /\ Endpoints!Unused \subseteq Refs
  BY DEF Endpoints!Registered, Endpoints!Unused
<1> QED
  BY <1>1, <1>2, <1>3, <1>4, RegisterKeeps, BeginKeeps, QueryKeeps, FirstKeeps, LayerKeeps,
     AgainKeeps, ConnectKeeps
  DEF Endpoints!Next

-----------------------------------------------------------------------------
(* VolumeSearch: v6 is step, v9 todo, v10 to v13 are mapping, candidates,    *)
(* looked and items, v14 and v15 complete and more, v16 is asked.            *)

LEMMA SearchCounts ==
    \A S : /\ Search!Cardinality(S) = Cardinality(S)
           /\ Search!IsFiniteSet(S) <=> IsFiniteSet(S)
  BY DEF Search!Cardinality, Cardinality, Search!IsFiniteSet, IsFiniteSet

LEMMA SearchFacts ==
    ASSUME Search!Inductive
    PROVE  /\ v3 \in [Volumes -> Search!Answers] /\ v16 \in [Volumes -> Search!Answers]
           /\ v8 \in [Volumes -> Search!Entries] /\ v2 \in [Volumes -> SUBSET Files]
           /\ v9 \subseteq Volumes /\ v10 \subseteq Search!Hits
           /\ v11 \subseteq Search!Candidates /\ v13 \subseteq Search!Candidates
           /\ v7 \in BOOLEAN /\ v14 \in BOOLEAN /\ v15 \in BOOLEAN
           /\ IsFiniteSet(v11) /\ IsFiniteSet(v13) /\ Cardinality(v13) <= Limit
           /\ Limit \in Nat /\ v17 \in 0 .. MaxMoves /\ MaxMoves \in Nat
           /\ \A v \in Volumes : v3[v].complete \in BOOLEAN /\ v16[v].complete \in BOOLEAN
  BY SearchCounts, SearchAssumption DEF Search!Inductive, Search!TypeOK, Search!Answers

LEMMA SearchStart ==
    ASSUME Search!Init
    PROVE  Search!Inductive
<1> USE DEF Search!Init
<1>1. v1 \in [Letters -> Volumes \cup {None}] /\ v2 \in [Volumes -> SUBSET Files]
  OBVIOUS
<1>2. v3 \in [Volumes -> Search!Answers]
  <2>1. ASSUME NEW r \in SUBSET Files
        PROVE  [records |-> r, complete |-> r = Files] \in Search!Answers
    <3>1. CASE r = Files
      BY <3>1 DEF Search!Answers
    <3>2. CASE r # Files
      <4>1. (r = Files) = FALSE
        BY <3>2
      <4> QED
        BY <4>1 DEF Search!Answers
    <3> QED
      BY <3>1, <3>2
  <2> QED
    BY <2>1
<1>3. v16 \in [Volumes -> Search!Answers]
  BY DEF Search!Answers, Search!NoAnswer
<1>4. Search!Listed \in [Volumes -> Search!Entries]
  BY DEF Search!Listed, Search!Entries, Search!LettersOf
<1>5. IsFiniteSet({}) /\ Cardinality({}) = 0
  BY FS_EmptySet
<1>6. Search!TypeOK
  <2>1. v4 \in {"fitting", "other", "down"} /\ v6 = "idle" /\ v17 \in 0 .. MaxMoves
    BY SearchAssumption
  <2>2. v7 \in BOOLEAN /\ v14 \in BOOLEAN /\ v15 \in BOOLEAN
    OBVIOUS
  <2>3. Search!Cardinality(v13) <= Limit
    BY <1>5, SearchCounts, SearchAssumption
  <2>4. v5 \in [Volumes -> Search!Entries] /\ v8 \in [Volumes -> Search!Entries]
    BY <1>4
  <2>5. v9 = {} /\ v10 = {} /\ v11 = {} /\ v13 = {} /\ v12 = Search!NoCandidate
    OBVIOUS
  <2> HIDE DEF Search!Init
  <2> QED
    BY <1>1, <1>2, <1>3, <2>1, <2>2, <2>3, <2>4, <2>5 DEF Search!TypeOK
<1> QED
  BY <1>5, <1>6, SearchCounts DEF Search!Inductive, Search!CompleteMeansAll

\* The world moves, and the search stands where it is.
LEMMA WorldKeeps ==
    ASSUME Search!Inductive, Search!World
    PROVE  Search!Inductive'
<1>1. UNCHANGED Search!query /\ v6' = v6
  BY DEF Search!World, Search!Remount, Search!FileMoves, Search!Publish, Search!Discover,
         Search!ServiceChanges
<1>2. UNCHANGED <<v6, v7, v8, v9, v10, v11, v12, v13, v14, v15, v16>>
  BY <1>1 DEF Search!query
<1>3. v17' \in 0 .. MaxMoves
  BY SearchFacts
  DEF Search!World, Search!Remount, Search!FileMoves, Search!Publish, Search!Discover,
      Search!ServiceChanges, Search!Trouble
<1>4. v1 \in [Letters -> Volumes \cup {None}] /\ v4 \in {"fitting", "other", "down"}
      /\ v5 \in [Volumes -> Search!Entries]
  BY DEF Search!Inductive, Search!TypeOK
<1>5. /\ v1' \in [Letters -> Volumes \cup {None}] /\ v2' \in [Volumes -> SUBSET Files]
      /\ v3' \in [Volumes -> Search!Answers] /\ v4' \in {"fitting", "other", "down"}
      /\ v5' \in [Volumes -> Search!Entries]
  <2>1. CASE Search!Remount
    BY <2>1, <1>4, SearchFacts DEF Search!Remount
  <2>2. CASE Search!FileMoves
    BY <2>2, <1>4, SearchFacts DEF Search!FileMoves
  <2>3. CASE Search!Publish
    <3>1. PICK v \in Volumes, known \in BOOLEAN :
            v3' = [v3 EXCEPT ![v] = [records |-> v2[v], complete |-> known]]
      BY <2>3 DEF Search!Publish
    <3>2. [records |-> v2[v], complete |-> known] \in Search!Answers
      BY SearchFacts DEF Search!Answers
    <3> QED
      BY <2>3, <3>1, <3>2, <1>4, SearchFacts DEF Search!Publish
  <2>4. CASE Search!Discover
    BY <2>4, <1>4, SearchFacts DEF Search!Discover, Search!LettersOf, Search!Entries
  <2>5. CASE Search!ServiceChanges
    BY <2>5, <1>4, SearchFacts DEF Search!ServiceChanges
  <2> QED
    BY <2>1, <2>2, <2>3, <2>4, <2>5 DEF Search!World
<1>6. Search!TypeOK'
  BY <1>2, <1>3, <1>5 DEF Search!Inductive, Search!TypeOK
<1> QED
  BY <1>2, <1>6 DEF Search!Inductive, Search!CompleteMeansAll, Search!Covered

\* What the query leaves alone, and the type of what it does not.
SearchTyped ==
    /\ UNCHANGED <<v1, v2, v3, v4, v5, v17>>
    /\ v8' \in [Volumes -> Search!Entries] /\ v16' \in [Volumes -> Search!Answers]
    /\ v6' \in {"idle", "health", "volumes", "checking"}
    /\ v7' \in BOOLEAN /\ v14' \in BOOLEAN /\ v15' \in BOOLEAN
    /\ v9' \subseteq Volumes /\ v10' \subseteq Search!Hits
    /\ v11' \subseteq Search!Candidates /\ v13' \subseteq Search!Candidates
    /\ v12' \in Search!Candidates \cup {Search!NoCandidate}
    /\ IsFiniteSet(v11') /\ IsFiniteSet(v13') /\ Cardinality(v13') <= Limit

LEMMA SearchTypes ==
    ASSUME Search!Inductive, SearchTyped
    PROVE  /\ Search!TypeOK'
           /\ Search!IsFiniteSet(v11') /\ Search!IsFiniteSet(v13')
  BY SearchCounts DEF Search!Inductive, Search!TypeOK, SearchTyped

LEMMA LookedFacts ==
    ASSUME Search!Inductive
    PROVE  v12 \in Search!Candidates \cup {Search!NoCandidate}
  BY DEF Search!Inductive, Search!TypeOK

\* Beginning, giving up, the service's catalogue and the end of the time.
LEMMA OutlineKeeps ==
    ASSUME Search!Inductive, Search!Begin \/ Search!GiveUp \/ Search!Health \/ Search!Expire
    PROVE  Search!Inductive'
<1>1. IsFiniteSet({}) /\ Cardinality({}) = 0
  BY FS_EmptySet
<1>2. v5 \in [Volumes -> Search!Entries]
  BY DEF Search!Inductive, Search!TypeOK
<1>3. CASE Search!Begin
  <2>1. [v \in Volumes |-> Search!NoAnswer] \in [Volumes -> Search!Answers]
    BY DEF Search!Answers, Search!NoAnswer
  <2>2. SearchTyped
    <3>1. v7' \in BOOLEAN /\ v14' \in BOOLEAN /\ v15' \in BOOLEAN
      BY <1>3, SearchFacts DEF Search!Begin
    <3>2. /\ UNCHANGED <<v1, v2, v3, v4, v5, v8, v17>> /\ v6' \in {"idle", "health"}
          /\ v9' \in {v9, {}} /\ v10' = {} /\ v11' = {} /\ v13' = {}
          /\ v12' \in {v12, Search!NoCandidate}
          /\ v16' = [v \in Volumes |-> Search!NoAnswer]
      BY <1>3 DEF Search!Begin, Search!world
    <3> QED
      BY <3>1, <3>2, <1>1, <2>1, SearchFacts, LookedFacts DEF SearchTyped
  <2> QED
    BY <1>3, <2>2, SearchTypes
    DEF Search!Begin, Search!Inductive, Search!CompleteMeansAll
<1>4. CASE Search!GiveUp
  <2>1. SearchTyped
    <3>1. v7' \in BOOLEAN /\ v14' \in BOOLEAN /\ v15' \in BOOLEAN
      BY <1>4, SearchFacts DEF Search!GiveUp
    <3>2. /\ UNCHANGED <<v1, v2, v3, v4, v5, v8, v17>> /\ v6' \in {"idle", "health"}
          /\ v9' \in {v9, {}} /\ v10' = {} /\ v11' = {} /\ v13' = {}
          /\ v12' \in {v12, Search!NoCandidate}
          /\ v16' = v16
      BY <1>4 DEF Search!GiveUp, Search!world
    <3> QED
      BY <3>1, <3>2, <1>1, SearchFacts, LookedFacts DEF SearchTyped
  <2> QED
    BY <1>4, <2>1, SearchTypes DEF Search!GiveUp, Search!Inductive, Search!CompleteMeansAll
<1>5. CASE Search!Health
  <2>1. SearchTyped
    BY <1>5, <1>1, <1>2, SearchFacts, LookedFacts DEF Search!Health, Search!world, SearchTyped
  <2> QED
    BY <1>5, <2>1, SearchTypes DEF Search!Health, Search!Inductive, Search!CompleteMeansAll
<1>6. CASE Search!Expire
  <2>1. SearchTyped
    BY <1>6, <1>1, SearchFacts, LookedFacts DEF Search!Expire, Search!world, SearchTyped
  <2> QED
    BY <1>6, <2>1, SearchTypes
    DEF Search!Expire, Search!Inductive, Search!CompleteMeansAll, Search!Covered
<1> QED
  BY <1>3, <1>4, <1>5, <1>6

\* A volume that could not be asked makes the result partial.
LEMMA UnansweredKeeps ==
    ASSUME Search!Inductive, NEW v \in Volumes, Search!Unanswered(v)
    PROVE  Search!Inductive'
<1>1. /\ v6 = "volumes" /\ v10 = {} /\ v9' = v9 \ {v} /\ v14' = FALSE
      /\ UNCHANGED <<v1, v2, v3, v4, v5, v6, v7, v8, v10, v11, v12, v13, v15, v16, v17>>
  BY DEF Search!Unanswered, Search!Done, Search!Partial, Search!world
<1>2. SearchTyped
  BY <1>1, SearchFacts, LookedFacts, SearchCounts
  DEF SearchTyped, Search!Inductive, Search!TypeOK
<1> QED
  BY <1>1, <1>2, SearchTypes DEF Search!Inductive, Search!CompleteMeansAll

\* What is answered on the first page, and is all, is all to be mapped.
LEMMA AnsweredKeeps ==
    ASSUME Search!Inductive, NEW v \in Volumes, Search!Answered(v)
    PROVE  Search!Inductive'
<1>1. PICK page \in SUBSET v3[v].records :
        /\ v10' = {<<v, f>> : f \in page}
        /\ v15' = (v15 \/ page # v3[v].records)
  BY DEF Search!Answered
<1>2. /\ v6 = "volumes" /\ v10 = {} /\ v9' = v9 \ {v} /\ v \in v9
      /\ v16' = [v16 EXCEPT ![v] = v3[v]]
      /\ v14' \in {FALSE, v14 /\ v3[v].complete}
      /\ UNCHANGED <<v1, v2, v3, v4, v5, v6, v7, v8, v11, v12, v13, v17>>
  BY DEF Search!Answered, Search!Done, Search!Partial, Search!world
<1>3. v14' \in BOOLEAN /\ (v14' => v14 /\ v3[v].complete)
  BY <1>2, SearchFacts
<1>4. v15' \in BOOLEAN /\ (~v15' => ~v15 /\ page = v3[v].records)
  BY <1>1, SearchFacts
<1>5. /\ v16' \in [Volumes -> Search!Answers] /\ v16'[v] = v3[v]
      /\ \A w \in Volumes \ {v} : v16'[w] = v16[w]
  BY <1>2, SearchFacts
<1>6. v10' \subseteq Search!Hits
  <2>1. v3[v].records \subseteq Files
    BY SearchFacts DEF Search!Answers
  <2> QED
    BY <1>1, <2>1 DEF Search!Hits
<1>7. SearchTyped
  BY <1>2, <1>3, <1>4, <1>5, <1>6, SearchFacts, LookedFacts DEF SearchTyped
<1>8. v14' => \A w \in Volumes \ v9' :
        /\ v16'[w].complete
        /\ ~v15' => \A f \in v16'[w].records : Search!Covered(w, f)'
  <2> SUFFICES ASSUME v14', NEW w \in Volumes \ v9'
               PROVE  /\ v16'[w].complete
                      /\ ~v15' => \A f \in v16'[w].records : Search!Covered(w, f)'
    OBVIOUS
  <2>1. CASE w = v
    BY <1>1, <1>3, <1>4, <1>5, <2>1 DEF Search!Covered
  <2>2. CASE w # v
    <3>1. w \in Volumes \ v9 /\ v16'[w] = v16[w]
      BY <1>2, <1>5, <2>2
    <3>2. /\ v16[w].complete
          /\ ~v15 => \A f \in v16[w].records : Search!Covered(w, f)
      BY <1>2, <1>3, <3>1 DEF Search!Inductive
    <3>3. \A f : Search!Covered(w, f) => Search!Covered(w, f)'
      BY <1>2 DEF Search!Covered
    <3> QED
      BY <1>4, <3>1, <3>2, <3>3
  <2> QED
    BY <2>1, <2>2
<1> QED
  BY <1>2, <1>7, <1>8, SearchTypes DEF Search!Inductive, Search!CompleteMeansAll

\* A hit that is mapped is a candidate; one that is not makes it partial.
LEMMA MapKeeps ==
    ASSUME Search!Inductive, NEW hit \in v10, Search!MapHit(hit)
    PROVE  Search!Inductive'
<1>1. /\ v10' = v10 \ {hit}
      /\ UNCHANGED <<v1, v2, v3, v4, v5, v6, v7, v8, v9, v12, v13, v15, v16, v17>>
  BY DEF Search!MapHit, Search!world
<1>2. v6 = "volumes" /\ v12 = Search!NoCandidate
  BY DEF Search!Inductive
<1>3. hit = <<hit[1], hit[2]>> /\ hit[1] \in Volumes /\ hit[2] \in Files
  BY SearchFacts DEF Search!Hits
<1>4. CASE v14' = FALSE /\ v11' = v11
  <2>1. SearchTyped
    BY <1>1, <1>2, <1>4, SearchFacts, LookedFacts DEF SearchTyped
  <2> QED
    BY <1>1, <1>2, <1>4, <2>1, SearchTypes DEF Search!Inductive, Search!CompleteMeansAll
<1>5. CASE /\ v14' = v14
           /\ \E l \in Search!LettersOf(hit[1]) \cap v8[hit[1]].letters :
                 v11' = v11 \cup {[letter |-> l, volume |-> hit[1], file |-> hit[2]]}
  <2>1. PICK l \in Search!LettersOf(hit[1]) :
          v11' = v11 \cup {[letter |-> l, volume |-> hit[1], file |-> hit[2]]}
    BY <1>5
  <2> DEFINE c == [letter |-> l, volume |-> hit[1], file |-> hit[2]]
  <2>2. c \in Search!Candidates /\ c.volume = hit[1] /\ c.file = hit[2]
    BY <1>3 DEF Search!Candidates, Search!LettersOf
  <2>3. IsFiniteSet(v11')
    BY <2>1, SearchFacts, FS_AddElement
  <2>4. SearchTyped
    BY <1>1, <1>2, <1>5, <2>1, <2>2, <2>3, SearchFacts, LookedFacts DEF SearchTyped
  <2> HIDE DEF c
  <2>5. \A v, f : Search!Covered(v, f) => Search!Covered(v, f)'
    <3> SUFFICES ASSUME NEW v, NEW f, Search!Covered(v, f)
                 PROVE  Search!Covered(v, f)'
      OBVIOUS
    <3>1. CASE <<v, f>> = hit
      <4>1. c \in v11' /\ c.volume = v /\ c.file = f
        BY <2>1, <2>2, <3>1, <1>3 DEF c
      <4> QED
        BY <4>1 DEF Search!Covered
    <3>2. CASE <<v, f>> # hit
      BY <1>1, <2>1, <3>2 DEF Search!Covered
    <3> QED
      BY <3>1, <3>2
  <2> QED
    BY <1>1, <1>2, <1>5, <2>4, <2>5, SearchTypes DEF Search!Inductive, Search!CompleteMeansAll
<1> QED
  BY <1>4, <1>5 DEF Search!MapHit

\* More candidates than the result may have are more to show.
LEMMA QueryEndsKeeps ==
    ASSUME Search!Inductive, Search!QueryEnds
    PROVE  Search!Inductive'
<1>1. /\ v6 = "volumes" /\ v9 = {} /\ v10 = {} /\ v6' = "checking" /\ v13 = {}
      /\ v12 = Search!NoCandidate
      /\ v15' = (v15 \/ Cardinality(v11) > Limit)
      /\ UNCHANGED <<v1, v2, v3, v4, v5, v7, v8, v9, v10, v11, v12, v13, v14, v16, v17>>
  BY SearchCounts DEF Search!QueryEnds, Search!world, Search!Inductive
<1>2. Cardinality(v11) \in Nat
  BY SearchFacts, FS_CardinalityType
<1>3. v15' \in BOOLEAN /\ (~v15' => ~v15 /\ Cardinality(v11) <= Limit)
  <2> DEFINE over == Cardinality(v11) > Limit
  <2>1. over \in BOOLEAN /\ (~over => Cardinality(v11) <= Limit)
    BY <1>2, SearchFacts
  <2>2. v15' = (v15 \/ over)
    BY <1>1
  <2> HIDE DEF over
  <2> QED
    BY <2>1, <2>2, SearchFacts, Zenon
<1>4. SearchTyped
  BY <1>1, <1>3, SearchFacts, LookedFacts DEF SearchTyped
<1>5. \A v, f : Search!Covered(v, f)' <=> Search!Covered(v, f)
  BY <1>1 DEF Search!Covered
<1>6. v11 \cup v13 = v11 /\ v11' \cup v13' = v11
  BY <1>1
<1> QED
  BY <1>1, <1>3, <1>4, <1>5, <1>6, SearchTypes, SearchCounts
  DEF Search!Inductive, Search!CompleteMeansAll

\* What is skipped makes the result partial.
LEMMA SkipKeeps ==
    ASSUME Search!Inductive, v6 = "checking", NEW c \in v11, Search!Skip(c)
    PROVE  Search!Inductive'
<1>1. /\ v11' = v11 \ {c} /\ v12' = Search!NoCandidate /\ v14' = FALSE
      /\ UNCHANGED <<v1, v2, v3, v4, v5, v6, v7, v8, v9, v10, v13, v15, v16, v17>>
  BY DEF Search!Skip, Search!world
<1>2. IsFiniteSet(v11 \cup v13) /\ v11' \cup v13' \subseteq v11 \cup v13
  BY <1>1, SearchFacts, FS_Union
<1>3. /\ IsFiniteSet(v11' \cup v13') /\ Cardinality(v11' \cup v13') \in Nat
      /\ Cardinality(v11 \cup v13) \in Nat
      /\ Cardinality(v11' \cup v13') <= Cardinality(v11 \cup v13)
  BY <1>2, FS_Subset, FS_CardinalityType
<1>4. IsFiniteSet(v11')
  BY <1>1, SearchFacts, FS_Subset
<1>5. SearchTyped
  BY <1>1, <1>4, SearchFacts DEF SearchTyped
<1>6. v9 = {} /\ (~v15 => Cardinality(v11 \cup v13) <= Limit)
  BY SearchCounts DEF Search!Inductive
<1>7. v9' = {} /\ (~v15' => Cardinality(v11' \cup v13') <= Limit)
  BY <1>1, <1>3, <1>6, SearchFacts
<1> QED
  BY <1>1, <1>5, <1>7, SearchTypes, SearchCounts DEF Search!Inductive, Search!CompleteMeansAll

LEMMA LookKeeps ==
    ASSUME Search!Inductive, NEW c \in v11, Search!Look(c)
    PROVE  Search!Inductive'
<1>1. /\ v6 = "checking" /\ v12 = Search!NoCandidate /\ Cardinality(v13) < Limit
      /\ \/ /\ v12' = c
            /\ UNCHANGED <<v1, v2, v3, v4, v5, v6, v7, v8, v9, v10, v11, v13, v14, v15, v16, v17>>
         \/ Search!Skip(c)
  BY SearchCounts DEF Search!Look, Search!world
<1>2. CASE Search!Skip(c)
  BY <1>1, <1>2, SkipKeeps
<1>3. CASE /\ v12' = c
           /\ UNCHANGED <<v1, v2, v3, v4, v5, v6, v7, v8, v9, v10, v11, v13, v14, v15, v16, v17>>
  <2>1. SearchTyped
    BY <1>3, <1>1, SearchFacts DEF SearchTyped
  <2> QED
    BY <1>1, <1>3, <2>1, SearchTypes, SearchCounts
    DEF Search!Inductive, Search!CompleteMeansAll, Search!Covered
<1> QED
  BY <1>1, <1>2, <1>3

\* A candidate becomes an object of the result.
LEMMA InsertKeeps ==
    ASSUME Search!Inductive, Search!Insert
    PROVE  Search!Inductive'
<1>1. /\ v12 # Search!NoCandidate /\ v6 = "checking" /\ v12 \in v11 /\ Cardinality(v13) < Limit
  BY SearchCounts DEF Search!Insert, Search!Inductive
<1>2. CASE Search!Skip(v12)
  BY <1>1, <1>2, SkipKeeps
<1>3. CASE /\ v13' = v13 \cup {v12} /\ v11' = v11 \ {v12} /\ v12' = Search!NoCandidate
           /\ UNCHANGED <<v1, v2, v3, v4, v5, v6, v7, v8, v9, v10, v14, v15, v16, v17>>
  <2>1. v11' \cup v13' = v11 \cup v13
    BY <1>1, <1>3
  <2>2. IsFiniteSet(v11')
    BY <1>3, SearchFacts, FS_Subset
  <2>3. IsFiniteSet(v13') /\ Cardinality(v13') <= Cardinality(v13) + 1 /\ Cardinality(v13) \in Nat
        /\ Cardinality(v13') \in Nat
    <3>1. /\ IsFiniteSet(v13 \cup {v12})
          /\ Cardinality(v13 \cup {v12}) =
                IF v12 \in v13 THEN Cardinality(v13) ELSE Cardinality(v13) + 1
      BY SearchFacts, FS_AddElement
    <3>2. Cardinality(v13) \in Nat
      BY SearchFacts, FS_CardinalityType
    <3> QED
      BY <1>3, <3>1, <3>2
  <2>4. Cardinality(v13') <= Limit
    BY <1>1, <2>3, SearchFacts
  <2>5. SearchTyped
    BY <1>1, <1>3, <2>2, <2>3, <2>4, SearchFacts DEF SearchTyped
  <2>6. \A v, f : Search!Covered(v, f) => Search!Covered(v, f)'
    BY <1>3, <2>1 DEF Search!Covered
  <2> QED
    BY <1>1, <1>3, <2>1, <2>5, <2>6, SearchTypes, SearchCounts
    DEF Search!Inductive, Search!CompleteMeansAll
<1> QED
  BY <1>2, <1>3 DEF Search!Insert, Search!world

\* Where nothing more is to show, the objects are all the candidates.
LEMMA ShowKeeps ==
    ASSUME Search!Inductive, Search!Show
    PROVE  Search!Inductive'
<1>1. /\ v6 = "checking" /\ v12 = Search!NoCandidate /\ v6' = "idle" /\ v11' = {}
      /\ v11 = {} \/ Cardinality(v13) = Limit
      /\ UNCHANGED <<v1, v2, v3, v4, v5, v7, v8, v9, v10, v12, v13, v14, v15, v16, v17>>
  BY SearchCounts DEF Search!Show, Search!world
<1>2. v9 = {} /\ v10 = {} /\ (~v15 => Cardinality(v11 \cup v13) <= Limit)
  BY <1>1, SearchCounts DEF Search!Inductive
<1>3. ~v15 => v11 \subseteq v13
  <2> SUFFICES ASSUME ~v15, Cardinality(v13) = Limit
               PROVE  v11 \subseteq v13
    BY <1>1
  <2>1. IsFiniteSet(v11 \cup v13) /\ v13 \subseteq v11 \cup v13
    BY SearchFacts, FS_Union
  <2>2. /\ Cardinality(v13) <= Cardinality(v11 \cup v13)
        /\ Cardinality(v13) = Cardinality(v11 \cup v13) => v13 = v11 \cup v13
    BY <2>1, FS_Subset
  <2>3. Cardinality(v11 \cup v13) \in Nat
    BY <2>1, FS_CardinalityType
  <2>4. Cardinality(v13) = Cardinality(v11 \cup v13)
    BY <1>2, <2>2, <2>3, SearchFacts
  <2> QED
    BY <2>2, <2>4
<1>4. Search!CompleteMeansAll'
  <2> SUFFICES ASSUME v14, ~v15, NEW v \in Volumes
               PROVE  /\ v16[v].complete
                      /\ \A f \in v16[v].records :
                            \E item \in v13 : item.volume = v /\ item.file = f
    BY <1>1 DEF Search!CompleteMeansAll
  <2>1. /\ v16[v].complete
        /\ \A f \in v16[v].records : Search!Covered(v, f)
    BY <1>1, <1>2 DEF Search!Inductive
  <2> QED
    BY <1>2, <1>3, <2>1 DEF Search!Covered
<1>5. IsFiniteSet({})
  BY FS_EmptySet
<1>6. SearchTyped
  BY <1>1, <1>5, SearchFacts, LookedFacts DEF SearchTyped
<1> QED
  BY <1>1, <1>2, <1>4, <1>6, SearchTypes DEF Search!Inductive

LEMMA SearchStep ==
    ASSUME Search!Inductive, [Search!Next]_(Search!vars)
    PROVE  Search!Inductive'
<1>1. CASE UNCHANGED Search!vars
  <2>1. UNCHANGED <<v1, v2, v3, v4, v5, v6, v7, v8, v9, v10, v11, v12, v13, v14, v15, v16, v17>>
    BY <1>1 DEF Search!vars, Search!world, Search!query
  <2> QED
    BY <2>1 DEF Search!Inductive, Search!TypeOK, Search!CompleteMeansAll, Search!Covered
<1> QED
  BY <1>1, WorldKeeps, OutlineKeeps, UnansweredKeeps, AnsweredKeeps, MapKeeps,
     QueryEndsKeeps, LookKeeps, InsertKeeps, ShowKeeps
  DEF Search!Next, Search!Search

-----------------------------------------------------------------------------
(* FileCandidates: v1 is at, v2 objects, v4 search, v7 programs, v8 request, *)
(* v9 to v11 are child, code and reply, v14 is effect.                       *)

LEMMA CandidatesStart ==
    ASSUME Candidates!Init
    PROVE  Candidates!Inductive
<1> USE PathsAssumption DEF Candidates!Init, Candidates!Idle, Candidates!NoSearch
<1>1. /\ v1 \in [Candidates!Paths -> Candidates!FileIds]
      /\ \A p \in Candidates!Paths : v1[p].object # 0
  BY DEF Candidates!Paths, Candidates!FileIds, Candidates!File
<1>2. v2 \in Seq(Candidates!Known) /\ v7 = {}
  OBVIOUS
<1> QED
  BY <1>1, <1>2 DEF Candidates!Inductive, Candidates!HandoffTruthful

LEMMA CandidatesFacts ==
    ASSUME Candidates!Inductive
    PROVE  /\ v1 \in [Candidates!Paths -> Candidates!FileIds] /\ v13 \in Nat
           /\ v2 \in Seq(Candidates!Known) /\ v7 \subseteq Candidates!Known
           /\ \A i \in DOMAIN v2 : v2[i] \in Candidates!Known
           /\ \A e \in Candidates!Known :
                 /\ e.path \in Candidates!Paths /\ e.file \in Candidates!FileIds
                 /\ e.file.object # 0
           /\ \A p \in Candidates!Paths :
                 v1[p] # Candidates!Absent => v1[p].object # 0 /\ Candidates!Entry(p) \in Candidates!Known
           /\ v4.source \in {"none", "index", "inventory", "scan"}
           /\ v4.entry \in Candidates!Known \cup {Candidates!NoEntry}
<1>1. /\ v1 \in [Candidates!Paths -> Candidates!FileIds] /\ v13 \in Nat
      /\ v2 \in Seq(Candidates!Known) /\ v7 \subseteq Candidates!Known
      /\ v4.source \in {"none", "index", "inventory", "scan"}
      /\ v4.entry \in Candidates!Known \cup {Candidates!NoEntry}
      /\ \A p \in Candidates!Paths : v1[p].object = 0 => v1[p] = Candidates!Absent
  BY DEF Candidates!Inductive
<1>2. \A e \in Candidates!Known :
         /\ e.path \in Candidates!Paths /\ e.file \in Candidates!FileIds
         /\ e.file.object # 0
  BY DEF Candidates!Known
<1>3. ASSUME NEW p \in Candidates!Paths, v1[p] # Candidates!Absent
      PROVE  v1[p].object # 0 /\ Candidates!Entry(p) \in Candidates!Known
  <2>1. v1[p] \in {f \in Candidates!FileIds : f.object # 0}
    BY <1>1, <1>3
  <2> QED
    BY <2>1 DEF Candidates!Entry, Candidates!Known
<1>4. \A i \in DOMAIN v2 : v2[i] \in Candidates!Known
  BY <1>1
<1> QED
  BY <1>1, <1>2, <1>3, <1>4

\* A step of the search, of the overview or of the caller, who gives up.
LEMMA TableKeeps ==
    ASSUME Candidates!Inductive, UNCHANGED <<v1, v8, v9, v10, v11, v13, v14>>,
           v2' \in Seq(Candidates!Known), v7' \subseteq Candidates!Known,
           v4' \in [source : {"none", "index", "inventory", "scan"},
                    entry : Candidates!Known \cup {Candidates!NoEntry}]
    PROVE  Candidates!Inductive'
  BY DEF Candidates!Inductive, Candidates!HandoffTruthful

LEMMA TableSteps ==
    ASSUME Candidates!Inductive,
           \/ \E source \in {"index", "inventory", "scan"} : Candidates!BeginSearch(source)
           \/ \E p \in Candidates!Paths : Candidates!Look(p)
           \/ Candidates!Discover \/ Candidates!EndSearch \/ Candidates!Reset
           \/ Candidates!Refresh \/ Candidates!Cancel \/ UNCHANGED Candidates!vars
    PROVE  Candidates!Inductive' /\ v14' = v14
<1> DEFINE Searches_ == [source : {"none", "index", "inventory", "scan"},
                         entry : Candidates!Known \cup {Candidates!NoEntry}]
<1>1. UNCHANGED <<v1, v8, v9, v10, v11, v13, v14>>
  BY DEF Candidates!BeginSearch, Candidates!Look, Candidates!Discover, Candidates!EndSearch,
         Candidates!Reset, Candidates!Refresh, Candidates!Cancel, Candidates!vars,
         Candidates!table, Candidates!opening
<1>2. v4 \in Searches_
  BY DEF Candidates!Inductive
<1>3. v2' \in Seq(Candidates!Known)
  <2>1. CASE Candidates!Discover
    <3> DEFINE p == v4.entry.path
    <3>1. v4.entry \in Candidates!Known
      BY <2>1, CandidatesFacts DEF Candidates!Discover
    <3>2. p \in Candidates!Paths
      BY <3>1, CandidatesFacts
    <3>3. v2' = v2 \/ (v1[p] # Candidates!Absent /\ v2' = Append(v2, Candidates!Entry(p)))
      BY <2>1 DEF Candidates!Discover, Candidates!Inserted
    <3> QED
      BY <3>2, <3>3, CandidatesFacts
  <2>2. CASE ~Candidates!Discover
    <3>1. v2' = v2 \/ v2' = <<>>
      BY <2>2
      DEF Candidates!BeginSearch, Candidates!Look, Candidates!EndSearch,
          Candidates!Reset, Candidates!Refresh, Candidates!Cancel, Candidates!vars,
          Candidates!table, Candidates!opening
    <3>2. <<>> \in Seq(Candidates!Known)
      OBVIOUS
    <3> QED
      BY <3>1, <3>2, CandidatesFacts
  <2> QED
    BY <2>1, <2>2
<1>4. v7' \subseteq Candidates!Known
  <2>1. CASE Candidates!Refresh
    BY <2>1, CandidatesFacts DEF Candidates!Refresh
  <2>2. CASE ~Candidates!Refresh
    <3>1. v7' = v7
      BY <2>2
      DEF Candidates!BeginSearch, Candidates!Look, Candidates!Discover, Candidates!EndSearch,
          Candidates!Reset, Candidates!Cancel, Candidates!vars,
          Candidates!table, Candidates!opening
    <3> QED
      BY <3>1, CandidatesFacts
  <2> QED
    BY <2>1, <2>2
<1>5. v4' \in Searches_
  <2>1. ASSUME NEW p \in Candidates!Paths, Candidates!Look(p)
        PROVE  v4' \in Searches_
    BY <1>2, <2>1, CandidatesFacts DEF Candidates!Look
  <2>2. ASSUME NEW source \in {"index", "inventory", "scan"}, Candidates!BeginSearch(source)
        PROVE  v4' \in Searches_
    BY <2>2 DEF Candidates!BeginSearch
  <2>3. CASE Candidates!Discover
    BY <1>2, <2>3 DEF Candidates!Discover
  <2>4. CASE Candidates!EndSearch
    BY <2>4 DEF Candidates!EndSearch, Candidates!NoSearch
  <2>5. CASE Candidates!Reset \/ Candidates!Refresh \/ Candidates!Cancel
             \/ UNCHANGED Candidates!vars
    BY <1>2, <2>5
    DEF Candidates!Reset, Candidates!Refresh, Candidates!Cancel, Candidates!vars,
        Candidates!table, Candidates!opening
  <2> QED
    BY <2>1, <2>2, <2>3, <2>4, <2>5
<1> QED
  BY <1>1, <1>3, <1>4, <1>5, TableKeeps

\* Other programs: what the request holds stays the object it is.
LEMMA ProgramsKeep ==
    ASSUME Candidates!Inductive, UNCHANGED <<v2, v4, v7, v8, v9, v10, v11, v14>>,
           v1' \in [Candidates!Paths -> Candidates!FileIds], v13' \in Nat,
           \A p \in Candidates!Paths :
              /\ v1'[p].object = 0 => v1'[p] = Candidates!Absent
              /\ Candidates!Held(p) => v1'[p].object = v1[p].object
    PROVE  Candidates!Inductive'
<1>1. v8.step = "waiting" =>
         v8.entry.path \in Candidates!Paths /\ Candidates!Held(v8.entry.path)
  BY CandidatesFacts DEF Candidates!Inductive, Candidates!Held
<1> QED
  BY <1>1 DEF Candidates!Inductive, Candidates!HandoffTruthful

LEMMA ProgramSteps ==
    ASSUME Candidates!Inductive, NEW p \in Candidates!Paths,
           \/ Candidates!Write(p) \/ Candidates!Replace(p)
           \/ \E q \in Candidates!Paths : Candidates!Swap(p, q)
    PROVE  Candidates!Inductive' /\ v14' = v14
<1> USE DEF Candidates!Trouble
<1>1. UNCHANGED <<v2, v4, v7, v8, v9, v10, v11, v14>> /\ v13' = v13 + 1 /\ v13 \in Nat
  BY CandidatesFacts
  DEF Candidates!Write, Candidates!Replace, Candidates!Swap, Candidates!table, Candidates!opening
<1>2. \A q \in Candidates!Paths : v1[q].object = 0 => v1[q] = Candidates!Absent
  BY DEF Candidates!Inductive
<1>3. CASE Candidates!Write(p)
  <2> DEFINE next == [v1[p] EXCEPT !.version = v1[p].version + 1]
  <2>1. v1' = [v1 EXCEPT ![p] = next] /\ v1[p] # Candidates!Absent
    BY <1>3 DEF Candidates!Write
  <2>2. /\ next \in Candidates!FileIds /\ next.object = v1[p].object
        /\ v1[p] \in Candidates!FileIds
    BY CandidatesFacts DEF Candidates!FileIds
  <2> HIDE DEF next
  <2>3. v1[p].object # 0
    BY <1>2, <2>1
  <2> QED
    BY <1>1, <1>2, <2>1, <2>2, <2>3, CandidatesFacts, ProgramsKeep
<1>4. CASE Candidates!Replace(p)
  <2> DEFINE new == Candidates!File(NumPaths + v13')
  <2>1. /\ new \in Candidates!FileIds /\ new.object # 0
        /\ Candidates!Absent \in Candidates!FileIds
    BY <1>1, PathsAssumption DEF Candidates!File, Candidates!FileIds, Candidates!Absent
  <2>2. /\ ~Candidates!Held(p)
        /\ v1' = [v1 EXCEPT ![p] = new] \/ v1' = [v1 EXCEPT ![p] = Candidates!Absent]
    BY <1>4 DEF Candidates!Replace
  <2> HIDE DEF new
  <2>3. /\ v1' \in [Candidates!Paths -> Candidates!FileIds]
        /\ v1'[p] = Candidates!Absent \/ v1'[p].object # 0
        /\ \A q \in Candidates!Paths \ {p} : v1'[q] = v1[q]
    BY <2>1, <2>2, CandidatesFacts
  <2> QED
    BY <1>1, <1>2, <2>2, <2>3, ProgramsKeep
<1>5. ASSUME NEW q \in Candidates!Paths, Candidates!Swap(p, q)
      PROVE  Candidates!Inductive'
  <2>1. v1' = [v1 EXCEPT ![p] = v1[q], ![q] = v1[p]] /\ p # q
        /\ ~Candidates!Held(p) /\ ~Candidates!Held(q)
    BY <1>5 DEF Candidates!Swap
  <2>2. /\ v1' \in [Candidates!Paths -> Candidates!FileIds]
        /\ v1'[p] = v1[q] /\ v1'[q] = v1[p]
        /\ \A r \in Candidates!Paths \ {p, q} : v1'[r] = v1[r]
    BY <2>1, CandidatesFacts
  <2> QED
    BY <1>1, <1>2, <2>1, <2>2, ProgramsKeep
<1> QED
  BY <1>1, <1>3, <1>4, <1>5

\* The conjuncts that an opening can disturb.
OpeningKept(request, child, code, reply, effect) ==
    /\ reply = "accepted" => effect # Candidates!Absent
    /\ reply \in {"refused", "cancelled"} => effect = Candidates!Absent
    /\ request.step = "idle" => child = "none"
    /\ request \in [step : {"idle", "asking", "holding", "waiting"}, kind : {"file", "program"},
                    entry : Candidates!Known \cup {Candidates!NoEntry}]
    /\ request.step # "idle" =>
          /\ request.entry \in Candidates!Known /\ reply = "none"
          /\ request.kind = "file" => request.entry.path \in Readable
    /\ request.step = "waiting" <=> child # "none"
    /\ request.step = "waiting" => v1[request.entry.path].object = request.entry.file.object
    /\ request.step \in {"asking", "holding"} \/ child \in {"started", "checked"} =>
          effect = Candidates!Absent
    /\ child \in {"none", "started", "checked", "exited"}
    /\ child = "exited" =>
          /\ code \in Candidates!Codes /\ (code = "ACCEPTED" => effect # Candidates!Absent)
          /\ code \in Candidates!Refusals => effect = Candidates!Absent

LEMMA OpeningFacts ==
    ASSUME Candidates!Inductive
    PROVE  OpeningKept(v8, v9, v10, v11, v14)
  BY DEF Candidates!Inductive, Candidates!HandoffTruthful, OpeningKept

LEMMA OpeningKeeps ==
    ASSUME Candidates!Inductive, UNCHANGED <<v1, v2, v4, v7>>, v13' \in Nat,
           OpeningKept(v8', v9', v10', v11', v14')
    PROVE  Candidates!Inductive'
  BY DEF Candidates!Inductive, Candidates!HandoffTruthful, OpeningKept

\* An entry that is still the file at its path: what a step may open.
LEMMA SameFacts ==
    ASSUME Candidates!Inductive, v8.step # "idle"
    PROVE  /\ v8.entry \in Candidates!Known /\ v8.entry.path \in Candidates!Paths
           /\ v8.entry.file.object # 0
           /\ v8.step = "waiting" => v1[v8.entry.path] # Candidates!Absent
<1>1. v8.entry \in Candidates!Known
  BY OpeningFacts DEF OpeningKept
<1>2. v8.step = "waiting" => v1[v8.entry.path].object # 0
  BY <1>1, CandidatesFacts, OpeningFacts DEF OpeningKept
<1> QED
  BY <1>1, <1>2, CandidatesFacts DEF Candidates!Absent

LEMMA BeginningKeeps ==
    ASSUME Candidates!Inductive, NEW entry \in Candidates!Known,
           NEW s \in {"asking", "holding"}, NEW kind \in {"file", "program"},
           Candidates!Quiet, Candidates!Start(s, kind, entry),
           kind = "file" => entry.path \in Readable
    PROVE  Candidates!Inductive' /\ v14' = Candidates!Absent
<1>1. /\ v8' = [step |-> s, kind |-> kind, entry |-> entry]
      /\ v11' = "none" /\ v14' = Candidates!Absent
      /\ UNCHANGED <<v1, v2, v4, v7, v9, v10, v13>> /\ v8.step = "idle"
  BY DEF Candidates!Start, Candidates!Quiet, Candidates!table
<1>2. v9 = "none"
  BY <1>1, OpeningFacts DEF OpeningKept
<1>3. v8' \in [step : {"idle", "asking", "holding", "waiting"}, kind : {"file", "program"},
               entry : Candidates!Known \cup {Candidates!NoEntry}]
  BY <1>1
<1>4. v8'.step = s /\ v8'.kind = kind /\ v8'.entry = entry
  BY <1>1
<1>5. OpeningKept(v8', v9', v10', v11', v14')
  BY <1>1, <1>2, <1>3, <1>4 DEF OpeningKept
<1> QED
  BY <1>1, <1>5, OpeningKeeps, CandidatesFacts

LEMMA StartSteps ==
    ASSUME Candidates!Inductive,
           \/ \E id \in DOMAIN v2 : Candidates!Open(id)
           \/ \E entry \in v7 : Candidates!Run(entry)
    PROVE  Candidates!Inductive' /\ v14' = Candidates!Absent
<1>1. ASSUME NEW id \in DOMAIN v2, Candidates!Open(id)
      PROVE  Candidates!Inductive' /\ v14' = Candidates!Absent
  <2>1. v2[id] \in Candidates!Known
    BY CandidatesFacts
  <2>2. /\ v2[id].path \in Readable /\ Candidates!Quiet
        /\ \/ Candidates!Start("asking", "file", v2[id])
           \/ Candidates!Start("holding", "file", v2[id])
    BY <1>1 DEF Candidates!Open, Candidates!Checked
  <2> QED
    BY <2>1, <2>2, BeginningKeeps
<1>2. ASSUME NEW entry \in v7, Candidates!Run(entry)
      PROVE  Candidates!Inductive' /\ v14' = Candidates!Absent
  <2>1. entry \in Candidates!Known
    BY CandidatesFacts
  <2>2. Candidates!Quiet /\ Candidates!Start("holding", "program", entry)
    BY <1>2 DEF Candidates!Run
  <2> QED
    BY <2>1, <2>2, BeginningKeeps
<1> QED
  BY <1>1, <1>2

\* What the caller hears agrees with what was done.
LEMMA ReturnKeeps ==
    ASSUME Candidates!Inductive, NEW answer, Candidates!Return(answer),
           UNCHANGED <<v1, v2, v4, v7>>, v13' \in Nat,
           answer = "accepted" => v14' # Candidates!Absent,
           answer \in {"refused", "cancelled"} => v14' = Candidates!Absent
    PROVE  Candidates!Inductive'
<1>1. /\ v8' = Candidates!Idle /\ v11' = answer /\ v9' = "none"
  BY DEF Candidates!Return
<1>2. /\ v8' \in [step : {"idle", "asking", "holding", "waiting"}, kind : {"file", "program"},
                  entry : Candidates!Known \cup {Candidates!NoEntry}]
      /\ v8'.step = "idle"
  BY <1>1 DEF Candidates!Idle
<1>3. OpeningKept(v8', v9', v10', v11', v14')
  BY <1>1, <1>2 DEF OpeningKept
<1> QED
  BY <1>3, OpeningKeeps

LEMMA AnswerKeeps ==
    ASSUME Candidates!Inductive, Candidates!Answer
    PROVE  Candidates!Inductive' /\ v14' = v14
<1>1. v8.step = "asking" /\ UNCHANGED <<v1, v2, v4, v7, v13, v14>> /\ v13 \in Nat
  BY CandidatesFacts DEF Candidates!Answer, Candidates!table
<1>2. v14 = Candidates!Absent
  BY <1>1, OpeningFacts DEF OpeningKept
<1>3. CASE Candidates!Return("cancelled")
  BY <1>1, <1>2, <1>3, ReturnKeeps
<1>4. CASE v8' = [v8 EXCEPT !.step = "holding"] /\ UNCHANGED <<v9, v10, v11>>
  <2>1. /\ v8' \in [step : {"idle", "asking", "holding", "waiting"}, kind : {"file", "program"},
                    entry : Candidates!Known \cup {Candidates!NoEntry}]
        /\ v8'.step = "holding" /\ v8'.kind = v8.kind /\ v8'.entry = v8.entry
    BY <1>4, OpeningFacts DEF OpeningKept
  <2>2. OpeningKept(v8', v9', v10', v11', v14')
    BY <1>1, <1>2, <1>4, <2>1, OpeningFacts DEF OpeningKept
  <2> QED
    BY <1>1, <2>2, OpeningKeeps
<1> QED
  BY <1>1, <1>3, <1>4 DEF Candidates!Answer

LEMMA HoldKeeps ==
    ASSUME Candidates!Inductive, Candidates!Hold
    PROVE  Candidates!Inductive' /\ v14' = v14
<1>1. v8.step = "holding" /\ UNCHANGED <<v1, v2, v4, v7, v14>>
  BY DEF Candidates!Hold, Candidates!table
<1>2. v13' \in Nat
  BY CandidatesFacts DEF Candidates!Hold, Candidates!Trouble, Candidates!Calm
<1>3. v14 = Candidates!Absent
  BY <1>1, OpeningFacts DEF OpeningKept
<1>4. CASE Candidates!Return("refused")
  BY <1>1, <1>2, <1>3, <1>4, ReturnKeeps
<1>5. CASE ~Candidates!Return("refused")
  <2>1. /\ v8' = [v8 EXCEPT !.step = "waiting"] /\ v9' = "started"
        /\ UNCHANGED <<v10, v11>> /\ Candidates!Same(v8.entry)
    BY <1>5 DEF Candidates!Hold
  <2>2. /\ v8' \in [step : {"idle", "asking", "holding", "waiting"}, kind : {"file", "program"},
                    entry : Candidates!Known \cup {Candidates!NoEntry}]
        /\ v8'.step = "waiting" /\ v8'.kind = v8.kind /\ v8'.entry = v8.entry
    BY <2>1, OpeningFacts DEF OpeningKept
  <2>3. v1[v8.entry.path].object = v8.entry.file.object
    BY <2>1 DEF Candidates!Same
  <2>4. OpeningKept(v8', v9', v10', v11', v14')
    BY <1>1, <1>3, <2>1, <2>2, <2>3, OpeningFacts DEF OpeningKept
  <2> QED
    BY <1>1, <1>2, <2>4, OpeningKeeps
<1> QED
  BY <1>1, <1>4, <1>5

\* A step of the helper or its end.
LEMMA ChildKeeps ==
    ASSUME Candidates!Inductive, UNCHANGED <<v1, v2, v4, v7, v8, v11>>, v13' \in Nat,
           v9 \in {"started", "checked"},
           \/ v9' = "checked" /\ v14' = v14
           \/ /\ v9' = "exited" /\ v10' \in Candidates!Codes
              /\ v10' = "ACCEPTED" => v14' # Candidates!Absent
              /\ v10' \in Candidates!Refusals => v14' = Candidates!Absent
    PROVE  Candidates!Inductive'
<1>1. v8.step = "waiting"
  BY OpeningFacts DEF OpeningKept
<1>2. v11 = "none"
  BY <1>1, OpeningFacts DEF OpeningKept
<1>3. OpeningKept(v8', v9', v10', v11', v14')
  BY <1>1, <1>2, OpeningFacts DEF OpeningKept
<1> QED
  BY <1>3, OpeningKeeps

LEMMA HelperFacts ==
    ASSUME Candidates!Inductive, v9 \in {"started", "checked"}
    PROVE  /\ v8.step = "waiting" /\ v14 = Candidates!Absent
           /\ v1[v8.entry.path] # Candidates!Absent
           /\ v1[v8.entry.path].object = v8.entry.file.object
           /\ v8.kind = "file" => v8.entry.path \in Readable
  BY OpeningFacts, SameFacts DEF OpeningKept

LEMMA HelperKeeps ==
    ASSUME Candidates!Inductive,
           Candidates!Compare \/ Candidates!Execute \/ Candidates!Die
    PROVE  Candidates!Inductive'
<1>1. v9 \in {"started", "checked"} /\ UNCHANGED <<v1, v2, v4, v7, v8, v11>>
  BY DEF Candidates!Compare, Candidates!Execute, Candidates!Die, Candidates!Helper,
         Candidates!table
<1>2. v13' \in Nat
  BY CandidatesFacts
  DEF Candidates!Compare, Candidates!Execute, Candidates!Die, Candidates!Trouble,
      Candidates!Calm
<1>3. CASE Candidates!Compare
  <2>1. /\ v14' = v14
        /\ \/ v9' = "checked"
           \/ v9' = "exited" /\ v10' = "INVALID"
    BY <1>3 DEF Candidates!Compare, Candidates!Exit
  <2>2. v14 = Candidates!Absent /\ "INVALID" \in Candidates!Codes
    BY <1>1, HelperFacts DEF Candidates!Codes
  <2> QED
    BY <1>1, <1>2, <2>1, <2>2, ChildKeeps
<1>4. CASE Candidates!Execute
  <2>1. /\ v9' = "exited"
        /\ \/ v14' = v1[v8.entry.path] /\ v10' = "ACCEPTED"
           \/ v14' = v14 /\ v10' \in {"INVALID", "NO_ASSOCIATION", "CANCELLED", "REJECTED"}
    BY <1>4 DEF Candidates!Execute, Candidates!Exit
  <2> QED
    BY <1>1, <1>2, <2>1, ChildKeeps, HelperFacts DEF Candidates!Codes, Candidates!Refusals
<1>5. CASE Candidates!Die
  <2>1. v9' = "exited" /\ v10' = "died"
    BY <1>5 DEF Candidates!Die, Candidates!Exit
  <2> QED
    BY <1>1, <1>2, <2>1, ChildKeeps DEF Candidates!Codes, Candidates!Refusals
<1> QED
  BY <1>3, <1>4, <1>5

LEMMA CollectKeeps ==
    ASSUME Candidates!Inductive, Candidates!Collect
    PROVE  Candidates!Inductive' /\ v14' = v14
<1>1. v9 = "exited" /\ UNCHANGED <<v1, v2, v4, v7, v13, v14>> /\ v13 \in Nat
  BY CandidatesFacts DEF Candidates!Collect, Candidates!table
<1>2. /\ v10 \in Candidates!Codes /\ (v10 = "ACCEPTED" => v14 # Candidates!Absent)
      /\ v10 \in Candidates!Refusals => v14 = Candidates!Absent
  BY <1>1, OpeningFacts DEF OpeningKept
<1> DEFINE meaning == Candidates!Meaning(v10)
<1>3. /\ meaning = "accepted" => v14 # Candidates!Absent
      /\ meaning \in {"refused", "cancelled"} => v14 = Candidates!Absent
  BY <1>2 DEF Candidates!Meaning, Candidates!Codes, Candidates!Refusals
<1>4. Candidates!Return(meaning) \/ Candidates!Return("unknown")
  BY DEF Candidates!Collect
<1> HIDE DEF meaning
<1> QED
  BY <1>1, <1>3, <1>4, ReturnKeeps

LEMMA GiveUpKeeps ==
    ASSUME Candidates!Inductive, Candidates!GiveUp
    PROVE  Candidates!Inductive'
<1>1. Candidates!Return("unknown") /\ UNCHANGED <<v1, v2, v4, v7, v13>> /\ v13 \in Nat
  BY CandidatesFacts DEF Candidates!GiveUp, Candidates!table
<1> QED
  BY <1>1, ReturnKeeps

\* Only a helper that has compared its object changes the effect.
LEMMA HelperOpens ==
    ASSUME Candidates!Inductive,
           \/ Candidates!Compare \/ Candidates!Execute \/ Candidates!Die
           \/ Candidates!GiveUp
    PROVE  Candidates!OpenedAsShown
<1>1. v9 \in {"started", "checked"} /\ (v14' = v14 \/ v14' = v1[v8.entry.path])
  BY DEF Candidates!Compare, Candidates!Execute, Candidates!Die, Candidates!GiveUp,
         Candidates!Unfinished
<1> QED
  BY <1>1, HelperFacts DEF Candidates!OpenedAsShown

LEMMA CandidatesStep ==
    ASSUME Candidates!Inductive, [Candidates!Next]_(Candidates!vars)
    PROVE  Candidates!Inductive' /\ Candidates!OpenedAsShown
<1>1. CASE \/ \E source \in {"index", "inventory", "scan"} : Candidates!BeginSearch(source)
           \/ \E p \in Candidates!Paths : Candidates!Look(p)
           \/ Candidates!Discover \/ Candidates!EndSearch \/ Candidates!Reset
           \/ Candidates!Refresh \/ Candidates!Cancel \/ UNCHANGED Candidates!vars
  BY <1>1, TableSteps DEF Candidates!OpenedAsShown
<1>2. CASE \E p \in Candidates!Paths :
              \/ Candidates!Write(p) \/ Candidates!Replace(p)
              \/ \E q \in Candidates!Paths : Candidates!Swap(p, q)
  BY <1>2, ProgramSteps DEF Candidates!OpenedAsShown
<1>3. CASE \/ \E id \in DOMAIN v2 : Candidates!Open(id)
           \/ \E entry \in v7 : Candidates!Run(entry)
  BY <1>3, StartSteps DEF Candidates!OpenedAsShown
<1>4. CASE Candidates!Answer \/ Candidates!Hold \/ Candidates!Collect
  BY <1>4, AnswerKeeps, HoldKeeps, CollectKeeps DEF Candidates!OpenedAsShown
<1>5. CASE Candidates!Compare \/ Candidates!Execute \/ Candidates!Die \/ Candidates!GiveUp
  BY <1>5, HelperKeeps, GiveUpKeeps, HelperOpens
<1> QED
  BY <1>1, <1>2, <1>3, <1>4, <1>5 DEF Candidates!Next

-----------------------------------------------------------------------------
(* ResourceSampling: v1 is elapsed, v2 slot, v7 points, v8 and v9 are base   *)
(* and last.                                                                 *)

LEMMA SamplingStart ==
    ASSUME Sampling!Init
    PROVE  Sampling!Inductive
<1>1. <<>> \in Seq(Sampling!Points)
  OBVIOUS
<1>2. Len(<<>>) = 0
  OBVIOUS
<1>3. Slots \in Nat
  BY TicksAssumption
<1>4. Sampling!TypeOK
  <2>1. v2 = 0 /\ v2 \in 0 .. Slots + 1 /\ v8 \in Nat \cup {-1}
    BY <1>3 DEF Sampling!Init
  <2>2. v4 \in BOOLEAN /\ v5 \in BOOLEAN /\ v6 \in BOOLEAN
    BY DEF Sampling!Init
  <2> QED
    BY <1>1, <1>2, <2>1, <2>2 DEF Sampling!Init, Sampling!TypeOK
<1> QED
  BY <1>2, <1>4 DEF Sampling!Init, Sampling!Inductive, Sampling!MeansAreMeasured

\* What a sequence is with one more element.
LEMMA AppendFacts ==
    ASSUME NEW S, NEW s \in Seq(S), NEW e \in S
    PROVE  /\ Append(s, e) \in Seq(S) /\ Len(Append(s, e)) = Len(s) + 1
           /\ Append(s, e)[Len(s) + 1] = e
           /\ \A i \in 1 .. Len(s) : Append(s, e)[i] = s[i] /\ s[i] \in S
           /\ Len(s) \in Nat
  OBVIOUS

LEMMA IndexFacts ==
    ASSUME NEW n \in Nat, NEW i \in 2 .. n + 1
    PROVE  /\ i = n + 1 => n > 0 /\ i - 1 = n /\ n \in 1 .. n
           /\ i # n + 1 => i \in 2 .. n /\ i \in 1 .. n /\ i - 1 \in 1 .. n
  OBVIOUS

LEMMA SamplingFacts ==
    ASSUME Sampling!Inductive
    PROVE  /\ v1 \in Nat /\ v2 \in Nat /\ v3 \in Nat /\ v9 \in Nat
           /\ v8 \in Nat \cup {-1} /\ v4 \in BOOLEAN /\ v5 \in BOOLEAN /\ v6 \in BOOLEAN
           /\ v7 \in Seq(Sampling!Points)
           /\ Len(v7) = v2 /\ v2 <= Slots + 1
           /\ Interval \in Nat /\ Slots \in Nat /\ Budget \in Nat
           /\ v9 <= v1
<1>1. Interval \in Nat /\ Slots \in Nat /\ Budget \in Nat
  BY TicksAssumption
<1> QED
  BY <1>1 DEF Sampling!Inductive, Sampling!TypeOK

\* The next slot is due an interval later.
LEMMA DueFacts ==
    ASSUME Sampling!Inductive
    PROVE  /\ Sampling!Due \in Nat
           /\ v2' = v2 + 1 => Sampling!Due' = Sampling!Due + Interval
<1>1. v2 \in Nat /\ Interval \in Nat
  BY SamplingFacts
<1>2. v2 * Interval \in Nat /\ (v2 + 1) * Interval = v2 * Interval + Interval
  BY <1>1
<1> QED
  BY <1>2 DEF Sampling!Due

\* Nothing is recorded and the clock goes on.
LEMMA ClockKeeps ==
    ASSUME Sampling!Inductive, UNCHANGED <<v2, v3, v4, v5, v7, v8, v9>>,
           v1' \in Nat, v1' >= v1, v6' \in BOOLEAN,
           v10' \in {"observing", "stopped", "complete"}
    PROVE  Sampling!Inductive'
<1>1. Sampling!TypeOK'
  BY DEF Sampling!Inductive, Sampling!TypeOK
<1>2. \A i \in 2 .. v2 : Sampling!RateWeighs(i)' <=> Sampling!RateWeighs(i)
  BY DEF Sampling!RateWeighs, Sampling!Weighs, Sampling!TooLong
<1>3. Sampling!MeansAreMeasured'
  BY <1>2, SamplingFacts DEF Sampling!Inductive, Sampling!MeansAreMeasured
<1>4. /\ v9' <= v1' /\ Sampling!Due' = Sampling!Due
      /\ v2' > 0 =>
            /\ v7'[v2'].at <= v1' /\ v7'[v2'].at <= Sampling!Due
            /\ v7'[v2'].reason = "none" => v7'[v2'].at = v9'
  <2>1. Sampling!Due' = Sampling!Due
    BY DEF Sampling!Due
  <2>2. v2 > 0 => v7[v2] \in Sampling!Points
    BY SamplingFacts
  <2>3. v2 > 0 => v7[v2].at \in Nat
    BY <2>2 DEF Sampling!Points
  <2> QED
    BY <2>1, <2>3, SamplingFacts, DueFacts DEF Sampling!Inductive
<1> QED
  BY <1>1, <1>3, <1>4 DEF Sampling!Inductive

\* A point is added that is not before the last one; one with a rate comes from
\* the call after the sampler's last.
LEMMA PointKeeps ==
    ASSUME Sampling!Inductive, NEW point, v7' = Append(v7, point), v2' = v2 + 1,
           v2 <= Slots,
           point \in Sampling!Points,
           v1' \in Nat, v3' \in Nat, v4' \in BOOLEAN, v5' \in BOOLEAN, v6' \in BOOLEAN,
           v8' \in Nat \cup {-1}, v9' \in Nat,
           v10' \in {"observing", "stopped", "complete"},
           v9' <= v1', point.at <= v1', point.at <= Sampling!Due + Interval,
           v2 > 0 => v7[v2].at <= point.at,
           point.reason = "none" => point.at = v9',
           point.rate # Sampling!NoRate /\ v2 > 0 /\ v7[v2].reason = "none" =>
              point.rate.over = point.at - v7[v2].at
    PROVE  Sampling!Inductive'
<1>1. /\ v7' \in Seq(Sampling!Points)
      /\ Len(v7') = v2 + 1 /\ v7'[v2 + 1] = point
      /\ \A i \in 1 .. v2 : v7'[i] = v7[i]
  BY SMTT(30), SamplingFacts, AppendFacts
<1>2. Sampling!TypeOK'
  BY <1>1, SamplingFacts DEF Sampling!TypeOK
<1> v2 \in Nat /\ Len(v7) = v2
  BY SamplingFacts
<1>3. ASSUME NEW i \in 2 .. v2 + 1
      PROVE  /\ v7'[i - 1].at <= v7'[i].at
             /\ Sampling!RateWeighs(i)' => v7'[i].rate.over = v7'[i].at - v7'[i - 1].at
  <2>1. CASE i = v2 + 1
    <3>1. v2 > 0 /\ i - 1 = v2 /\ v2 \in 1 .. v2
      BY <2>1, IndexFacts
    <3>2. v7'[i - 1] = v7[v2] /\ v7'[i] = point
      BY <1>1, <2>1, <3>1
    <3>3. Sampling!RateWeighs(i)' =>
             point.rate # Sampling!NoRate /\ v7[v2].reason = "none"
      BY <3>2 DEF Sampling!RateWeighs, Sampling!Weighs, Sampling!NoRate
    <3> QED
      BY <3>1, <3>2, <3>3
  <2>2. CASE i # v2 + 1
    <3>1. i \in 2 .. Len(v7) /\ i \in 1 .. v2 /\ i - 1 \in 1 .. v2
      BY <2>2, IndexFacts
    <3>2. v7'[i - 1] = v7[i - 1] /\ v7'[i] = v7[i]
      BY <1>1, <3>1
    <3>3. Sampling!RateWeighs(i)' => Sampling!RateWeighs(i)
      BY <3>2 DEF Sampling!RateWeighs, Sampling!Weighs, Sampling!TooLong, Sampling!NoRate
    <3> QED
      BY <3>1, <3>2, <3>3 DEF Sampling!Inductive, Sampling!MeansAreMeasured
  <2> QED
    BY <2>1, <2>2
<1>4. Sampling!MeansAreMeasured'
  BY <1>1, <1>3 DEF Sampling!MeansAreMeasured
<1>5. Sampling!Due' = Sampling!Due + Interval
  BY DueFacts
<1> QED
  BY <1>1, <1>2, <1>4, <1>5, SamplingFacts, DueFacts DEF Sampling!Inductive

LEMMA ClockSteps ==
    ASSUME Sampling!Inductive,
           \/ Sampling!Wait \/ Sampling!WallClock \/ Sampling!Cancel \/ Sampling!Complete
           \/ \E ticks \in 1 .. MaxStall : Sampling!Stall(ticks)
    PROVE  Sampling!Inductive'
<1>1. UNCHANGED <<v2, v3, v4, v5, v7, v8, v9>>
  BY DEF Sampling!Wait, Sampling!WallClock, Sampling!Cancel, Sampling!Complete,
         Sampling!Stall, Sampling!sampler
<1>2. v10' \in {"observing", "stopped", "complete"}
  BY DEF Sampling!Wait, Sampling!WallClock, Sampling!Cancel, Sampling!Complete,
         Sampling!Stall, Sampling!Inductive, Sampling!TypeOK
<1>3. v6' \in BOOLEAN
  <2>1. CASE Sampling!WallClock
    BY <2>1 DEF Sampling!WallClock
  <2>2. CASE ~Sampling!WallClock
    <3>1. v6' = v6
      BY <2>2 DEF Sampling!Wait, Sampling!Cancel, Sampling!Complete, Sampling!Stall
    <3> QED
      BY <3>1, SamplingFacts
  <2> QED
    BY <2>1, <2>2
<1>4. v1' \in Nat /\ v1' >= v1
  <2>1. CASE Sampling!Wait
    BY <2>1, SamplingFacts, DueFacts DEF Sampling!Wait
  <2>2. ASSUME NEW ticks \in 1 .. MaxStall, Sampling!Stall(ticks)
        PROVE  v1' \in Nat /\ v1' >= v1
    <3>1. ticks \in Nat
      BY TicksAssumption
    <3> QED
      BY <2>2, <3>1, SamplingFacts DEF Sampling!Stall
  <2>3. CASE Sampling!WallClock \/ Sampling!Cancel \/ Sampling!Complete
    BY <2>3, SamplingFacts DEF Sampling!WallClock, Sampling!Cancel, Sampling!Complete
  <2> QED
    BY <2>1, <2>2, <2>3
<1> QED
  BY <1>1, <1>2, <1>3, <1>4, ClockKeeps

\* What the sampler can say when the next slot comes.
LEMMA LastPoint ==
    ASSUME Sampling!Inductive, v2 > 0
    PROVE  /\ v7[v2].at \in Nat /\ v7[v2].at <= v1 /\ v7[v2].at <= Sampling!Due
           /\ v7[v2].reason = "none" => v7[v2].at = v9
<1>1. v7[v2] \in Sampling!Points
  BY SamplingFacts
<1> QED
  BY <1>1 DEF Sampling!Inductive, Sampling!Points

LEMMA MissKeeps ==
    ASSUME Sampling!Inductive, Sampling!MissSlot
    PROVE  Sampling!Inductive'
<1> DEFINE point == [at |-> Sampling!Due, rate |-> Sampling!NoRate,
                     reason |-> "missed_sampling_slot"]
<1>1. /\ v7' = Append(v7, point) /\ v2' = v2 + 1 /\ v2 <= Slots /\ v1 >= Sampling!Due
      /\ UNCHANGED <<v1, v3, v4, v5, v6, v8, v9, v10>> /\ v10 = "observing"
  BY DEF Sampling!MissSlot, Sampling!Observing, Sampling!sampler
<1>2. /\ point \in Sampling!Points /\ point.at = Sampling!Due
      /\ point.rate = Sampling!NoRate /\ point.reason # "none"
  BY DueFacts DEF Sampling!Points, Sampling!Rates, Sampling!Reasons
<1> HIDE DEF point
<1> QED
  BY SMTT(30), <1>1, <1>2, SamplingFacts, DueFacts, LastPoint, PointKeeps

\* A reading, or the slot after a slow one: the point is taken now.
LEMMA RecordKeeps ==
    ASSUME Sampling!Inductive, NEW rate \in Sampling!Rates, NEW took \in Nat,
           Sampling!Record(rate, took), Sampling!Observing, ~Sampling!Missed,
           v8' \in Nat \cup {-1}, v9' \in Nat, v9' <= v1,
           v4 \/ v9' = v1,
           rate # Sampling!NoRate => ~v4 /\ rate.over = v1 - v9
    PROVE  Sampling!Inductive'
<1> DEFINE point == [at |-> v1, rate |-> rate, reason |-> Sampling!Reason]
<1>1. /\ v7' = Append(v7, point) /\ v2' = v2 + 1 /\ v2 <= Slots
      /\ v3' = v1 /\ v1' = v1 + took /\ UNCHANGED <<v6, v10>> /\ v10 = "observing"
  BY DEF Sampling!Record, Sampling!Observing
<1>2. v4' \in BOOLEAN /\ v5' \in BOOLEAN
  BY DEF Sampling!Record
<1>3. /\ Sampling!Reason \in Sampling!Reasons
      /\ Sampling!Reason = "none" => ~v4
  BY DEF Sampling!Reason, Sampling!Reasons
<1>4. /\ point \in Sampling!Points /\ point.at = v1 /\ point.rate = rate
      /\ point.reason = "none" => ~v4
  BY <1>3, SamplingFacts DEF Sampling!Points
<1>5. point.at <= Sampling!Due + Interval
  BY <1>4, SamplingFacts, DueFacts DEF Sampling!Missed
<1> HIDE DEF point
<1>6. v2 > 0 => v7[v2].at <= point.at
  BY <1>4, LastPoint
<1>7. point.rate # Sampling!NoRate /\ v2 > 0 /\ v7[v2].reason = "none" =>
         point.rate.over = point.at - v7[v2].at
  BY <1>4, LastPoint
<1>8. point.reason = "none" => point.at = v9'
  BY <1>4
<1>9. /\ v1' \in Nat /\ v9' <= v1' /\ point.at <= v1' /\ v3' \in Nat
      /\ v6' \in BOOLEAN
  BY SMTT(30), <1>1, <1>4, SamplingFacts
<1> QED
  BY <1>1, <1>2, <1>4, <1>5, <1>6, <1>7, <1>8, <1>9, PointKeeps

LEMMA TakeKeeps ==
    ASSUME Sampling!Inductive, NEW seen \in BOOLEAN, NEW took \in {0, Budget + 1},
           Sampling!TakeSlot(seen, took)
    PROVE  Sampling!Inductive'
<1> DEFINE rate == Sampling!Rate(seen)
<1>1. /\ Sampling!Observing /\ ~Sampling!Missed /\ ~v4 /\ v9' = v1
      /\ v8' = v1 \/ v8' = v8
      /\ Sampling!Record(rate, took)
  BY DEF Sampling!TakeSlot
<1>2. rate \in Sampling!Rates /\ (rate # Sampling!NoRate => rate.over = v1 - v9)
  <2>1. CASE rate = Sampling!NoRate
    BY <2>1 DEF Sampling!Rates
  <2>2. CASE rate # Sampling!NoRate
    <3>1. v8 # -1 /\ rate = [from |-> v8, over |-> v1 - v9]
      BY <2>2 DEF Sampling!Rate
    <3>2. v8 \in Nat /\ v1 - v9 \in Nat
      BY <3>1, SamplingFacts
    <3> QED
      BY <3>1, <3>2 DEF Sampling!Rates
  <2> QED
    BY <2>1, <2>2
<1>3. took \in Nat
  BY SamplingFacts
<1> HIDE DEF rate
<1> QED
  BY <1>1, <1>2, <1>3, SamplingFacts, RecordKeeps

LEMMA SkippedKeeps ==
    ASSUME Sampling!Inductive, Sampling!SkipSlot
    PROVE  Sampling!Inductive'
<1>1. /\ Sampling!Observing /\ ~Sampling!Missed /\ v4 /\ UNCHANGED <<v8, v9>>
      /\ Sampling!Record(Sampling!NoRate, 0)
  BY DEF Sampling!SkipSlot, Sampling!sampler
<1>2. Sampling!NoRate \in Sampling!Rates /\ 0 \in Nat
  BY DEF Sampling!Rates
<1> QED
  BY <1>1, <1>2, SamplingFacts, RecordKeeps

LEMMA SamplingStep ==
    ASSUME Sampling!Inductive, [Sampling!Next]_(Sampling!vars)
    PROVE  Sampling!Inductive'
<1>1. CASE UNCHANGED Sampling!vars
  <2>1. UNCHANGED <<v1, v2, v3, v4, v5, v6, v7, v8, v9, v10>>
    BY <1>1 DEF Sampling!vars, Sampling!sampler
  <2> QED
    BY <2>1, SamplingFacts, ClockKeeps DEF Sampling!Inductive, Sampling!TypeOK
<1> QED
  BY <1>1, ClockSteps, MissKeeps, TakeKeeps, SkippedKeeps DEF Sampling!Next

-----------------------------------------------------------------------------
(* Observations: v1 is time, v2 entries, v3 cursors, v4 answers, v5 answer  *)
(* and v6 whole.                                                            *)

LEMMA ObservingStart ==
    ASSUME Observing!Init
    PROVE  Observing!Inductive
<1> USE QueriesAssumption DEF Observing!Init
<1>1. DOMAIN v3 = {}
  BY DEF Observing!NoCursors
<1>2. Observing!NothingStaleAnswered
  <2>1. /\ v5.recalled /\ v5.at - v5.data < Life /\ v5.current = v5.data
        /\ v5.current = v5.at /\ v5.at \in Nat
    BY DEF Observing!NoAnswer
  <2>2. v6.rows = {}
    BY DEF Observing!NotWhole
  <2> QED
    BY <2>1, <2>2 DEF Observing!NothingStaleAnswered
<1> QED
  BY <1>1, <1>2 DEF Observing!Inductive

\* What is known of the observations at any time.
EntriesKept(time, answers, es) ==
    /\ es \subseteq Observing!Entry
    /\ \A e \in es :
          /\ e.data = e.created /\ e.id <= answers
          /\ e.created <= e.current /\ e.current <= time
          /\ e.kind \notin Renewed => e.current = e.data
    /\ \A d, e \in es : d.id = e.id => d = e

CursorKept(answers, es, k) ==
    /\ k.id <= answers /\ k.id \in Nat
    /\ k.signature \in Signatures /\ k.offset \in 0 .. Matched[k.signature]
    /\ \A e \in es : e.id = k.id => k.seen = Observing!FirstRows(e.data, k.offset)

LEMMA ObservingFacts ==
    ASSUME Observing!Inductive
    PROVE  /\ v1 \in Nat /\ v4 \in Nat /\ EntriesKept(v1, v4, v2)
           /\ \A c \in DOMAIN v3 : CursorKept(v4, v2, v3[c])
           /\ Observing!NothingStaleAnswered
  BY DEF Observing!Inductive, EntriesKept, CursorKept

LEMMA ObservingKept ==
    ASSUME v1' \in Nat, v4' \in Nat, EntriesKept(v1', v4', v2'),
           \A c \in DOMAIN v3' : CursorKept(v4', v2', v3'[c]),
           Observing!NothingStaleAnswered'
    PROVE  Observing!Inductive'
  BY DEF Observing!Inductive, EntriesKept, CursorKept

\* Fewer observations are as good.
LEMMA FewerEntries ==
    ASSUME NEW time, NEW answers, NEW es, NEW fewer \in SUBSET es
    PROVE  /\ EntriesKept(time, answers, es) => EntriesKept(time, answers, fewer)
           /\ \A k : CursorKept(answers, es, k) => CursorKept(answers, fewer, k)
  BY DEF EntriesKept, CursorKept

\* Whatever prune makes go, what it leaves is not past its life.
LEMMA KeptEntries ==
    ASSUME NEW es
    PROVE  /\ Observing!Kept(es) \subseteq es
           /\ \A e \in Observing!Kept(es) : v1 - e.created < Life
  BY DEF Observing!Kept, Observing!WithinBudget, Observing!From

\* Time passes, or observations go.
LEMMA QuietKeeps ==
    ASSUME Observing!Inductive,
           \/ Observing!Tick \/ Observing!Refused \/ Observing!Reset
           \/ \E kind \in Observables : Observing!Invalidate(kind)
           \/ UNCHANGED Observing!vars
    PROVE  Observing!Inductive'
<1>1. UNCHANGED <<v4, v5, v6>> /\ v2' \in SUBSET v2
  BY KeptEntries
  DEF Observing!Tick, Observing!Refused, Observing!Reset, Observing!Invalidate, Observing!vars
<1>2. v1' \in Nat /\ v1' >= v1 /\ v1 \in Nat
  BY ObservingFacts
  DEF Observing!Tick, Observing!Refused, Observing!Reset, Observing!Invalidate, Observing!vars
<1>3. DOMAIN v3' \subseteq DOMAIN v3 /\ \A c \in DOMAIN v3' : v3'[c] = v3[c]
  BY DEF Observing!Tick, Observing!Refused, Observing!Reset, Observing!Invalidate,
         Observing!vars, Observing!Usable, Observing!NoCursors
<1>4. EntriesKept(v1', v4, v2)
  <2>1. \A e \in v2 : e.current \in Nat
    BY ObservingFacts DEF EntriesKept, Observing!Entry
  <2> QED
    BY <1>2, <2>1, ObservingFacts DEF EntriesKept
<1>5. EntriesKept(v1', v4', v2')
  BY <1>1, <1>4, FewerEntries
<1>6. \A c \in DOMAIN v3' : CursorKept(v4', v2', v3'[c])
  BY <1>1, <1>3, ObservingFacts, FewerEntries
<1>7. Observing!NothingStaleAnswered'
  BY <1>1, ObservingFacts DEF Observing!NothingStaleAnswered, Observing!Rows, Observing!FirstRows
<1> QED
  BY <1>1, <1>2, <1>5, <1>6, <1>7, ObservingFacts, ObservingKept

\* A page of an observation, after the rows before it.
LEMMA PageKeeps ==
    ASSUME Observing!Inductive, NEW e \in Observing!Entry, NEW signature \in Signatures,
           NEW offset \in 0 .. Matched[signature], NEW seen,
           NEW es \in SUBSET Observing!Entry, NEW recalled \in BOOLEAN,
           Observing!Page(e, signature, offset, seen, es, recalled),
           EntriesKept(v1, v4 + 1, es \cup {e}), 
           \A c \in DOMAIN v3 : CursorKept(v4, es, v3[c]),
           seen = Observing!FirstRows(e.data, offset),
           v1 - e.data < Life,
           recalled \/ v1 = e.data \/ v1 - e.data < CacheFor[e.kind],
           e.kind \in Renewed => recalled \/ e.current = v1
    PROVE  Observing!Inductive'
<1> DEFINE matched == Matched[signature]
           next == IF offset + MaxRows < matched THEN offset + MaxRows ELSE matched
           rows_ == {<<e.data, n>> : n \in offset + 1 .. next}
           cursor == [id |-> e.id, signature |-> signature, offset |-> next,
                      seen |-> seen \cup rows_]
           given == [kind |-> e.kind, data |-> e.data, current |-> e.current, at |-> v1,
                     recalled |-> recalled]
<1>1. /\ v4' = v4 + 1 /\ v2' = es /\ v1' = v1
      /\ \/ /\ next = matched /\ v3' = [c \in Observing!Usable(es) |-> v3[c]] /\ v5' = given
            /\ v6' = [data |-> e.data, signature |-> signature, rows |-> seen \cup rows_]
         \/ /\ v3' = [c \in Observing!Usable(es) \cup {v4 + 1} |->
                         IF c = v4 + 1 THEN cursor ELSE v3[c]]
            /\ v5' = given /\ v6' = v6
         \/ /\ v3' = [c \in Observing!Usable(es) |-> v3[c]] /\ v6' = v6
            /\ v5' = given \/ v5' = v5
  BY DEF Observing!Page
<1>2. /\ matched \in Nat /\ offset \in Nat /\ offset <= matched
      /\ next \in 0 .. matched /\ offset <= next
  BY QueriesAssumption
<1>3. v4 \in Nat /\ v1 \in Nat /\ Observing!NothingStaleAnswered
  BY ObservingFacts
<1>4. seen \cup rows_ = Observing!FirstRows(e.data, next)
  BY <1>2 DEF Observing!FirstRows
<1>5. Observing!Usable(es) \subseteq DOMAIN v3
  BY DEF Observing!Usable
<1>6. CursorKept(v4 + 1, es, cursor)
  <2>1. /\ cursor.id = e.id /\ cursor.signature = signature /\ cursor.offset = next
        /\ cursor.seen = Observing!FirstRows(e.data, next)
    BY <1>4
  <2>2. e.id \in Nat /\ e.id <= v4 + 1
    BY DEF EntriesKept, Observing!Entry
  <2>3. \A d \in es : d.id = e.id => d = e
    BY DEF EntriesKept
  <2> HIDE DEF cursor
  <2> QED
    BY <1>2, <2>1, <2>2, <2>3 DEF CursorKept
<1>7. \A c \in DOMAIN v3 : CursorKept(v4 + 1, es, v3[c])
  BY <1>3 DEF CursorKept
<1>8. /\ given.kind = e.kind /\ given.data = e.data /\ given.current = e.current
      /\ given.at = v1 /\ given.recalled = recalled
      /\ e.data <= e.current /\ e.current <= v1
      /\ e.kind \notin Renewed => e.current = e.data
  BY DEF EntriesKept
<1>9. EntriesKept(v1', v4', v2')
  BY <1>1, FewerEntries
<1> HIDE DEF given, next, cursor, rows_
<1>10. \A c \in DOMAIN v3' : CursorKept(v4', v2', v3'[c])
  BY <1>1, <1>5, <1>6, <1>7
<1>11. /\ v5'.recalled \/ v5'.at = v5'.data \/ v5'.at - v5'.data < CacheFor[v5'.kind]
       /\ v5'.at - v5'.data < Life
       /\ v5'.data <= v5'.current /\ v5'.current <= v5'.at
       /\ v5'.kind \notin Renewed => v5'.current = v5'.data
       /\ v5'.kind \in Renewed => v5'.recalled \/ v5'.current = v5'.at
  <2>1. CASE v5' = given
    BY <1>8, <2>1
  <2>2. CASE v5' = v5
    BY <1>3, <2>2 DEF Observing!NothingStaleAnswered
  <2> QED
    BY <1>1, <2>1, <2>2
<1>12. v6'.rows \in {{}, Observing!Rows(v6'.data, v6'.signature)}
  <2>1. CASE v6' = v6
    BY <1>3, <2>1 DEF Observing!NothingStaleAnswered
  <2>2. CASE /\ next = matched
             /\ v6' = [data |-> e.data, signature |-> signature, rows |-> seen \cup rows_]
    <3>1. v6'.rows = seen \cup rows_ /\ v6'.data = e.data /\ v6'.signature = signature
      BY <2>2
    <3> QED
      BY <1>4, <2>2, <3>1 DEF Observing!Rows
  <2> QED
    BY <1>1, <2>1, <2>2
<1>13. Observing!NothingStaleAnswered'
  BY <1>11, <1>12 DEF Observing!NothingStaleAnswered, Observing!Rows, Observing!FirstRows
<1> QED
  BY <1>1, <1>3, <1>9, <1>10, <1>13, ObservingKept

\* What the caller names is kept, and is the only one of its name.
LEMMA LocatedEntry ==
    ASSUME NEW es, NEW id \in Observing!Known(es)
    PROVE  Observing!Located(es, id) \in es /\ Observing!Located(es, id).id = id
  BY DEF Observing!Known, Observing!Located

LEMMA ReadKeeps ==
    ASSUME Observing!Inductive,
           \/ \E id \in Observing!Known(v2), s \in Signatures : Observing!Recall(id, s)
           \/ \E c \in DOMAIN v3 : Observing!Continue(c)
    PROVE  Observing!Inductive'
<1> DEFINE es == Observing!Kept(v2)
<1>1. es \subseteq v2 /\ \A e \in es : v1 - e.created < Life
  BY KeptEntries
<1>2. EntriesKept(v1, v4, es) /\ \A c \in DOMAIN v3 : CursorKept(v4, es, v3[c])
  BY <1>1, ObservingFacts, FewerEntries
<1>3. v4 \in Nat
  BY ObservingFacts
<1>4. es \in SUBSET Observing!Entry /\ \A e \in es : e.data = e.created
  BY <1>2 DEF EntriesKept
<1>5. EntriesKept(v1, v4 + 1, es)
  <2>1. \A e \in es : e.id \in Nat
    BY <1>4 DEF Observing!Entry
  <2> QED
    BY <1>2, <1>3, <2>1 DEF EntriesKept
<1> HIDE DEF es
<1>6. ASSUME NEW e \in es PROVE EntriesKept(v1, v4 + 1, es \cup {e})
  <2>1. es \cup {e} = es
    BY <1>6
  <2> QED
    BY <1>5, <2>1
<1>7. ASSUME NEW id \in Observing!Known(v2), NEW s \in Signatures, Observing!Recall(id, s)
      PROVE  Observing!Inductive'
  <2> DEFINE e == Observing!Located(es, id)
  <2>1. id \in Observing!Known(es) /\ Observing!Page(e, s, 0, {}, es, TRUE)
    BY <1>7 DEF Observing!Recall, es
  <2>2. e \in es
    BY <2>1, LocatedEntry
  <2> HIDE DEF e
  <2>3. {} = Observing!FirstRows(e.data, 0)
    BY DEF Observing!FirstRows
  <2>4. 0 \in 0 .. Matched[s]
    BY QueriesAssumption
  <2>5. e \in Observing!Entry /\ v1 - e.data < Life
    BY <1>1, <1>4, <2>2
  <2> QED
    BY <1>2, <1>4, <1>6, <2>1, <2>2, <2>3, <2>4, <2>5, PageKeeps
<1>8. ASSUME NEW c \in DOMAIN v3, Observing!Continue(c)
      PROVE  Observing!Inductive'
  <2> DEFINE k == v3[c]
             e == Observing!Located(es, k.id)
  <2>1. /\ k.id \in Observing!Known(es)
        /\ Observing!Page(e, k.signature, k.offset, k.seen, es, TRUE)
    BY <1>8 DEF Observing!Continue, Observing!Usable, es
  <2>2. e \in es /\ e.id = k.id
    BY <2>1, LocatedEntry
  <2>3. /\ k.signature \in Signatures /\ k.offset \in 0 .. Matched[k.signature]
        /\ k.seen = Observing!FirstRows(e.data, k.offset)
    BY <1>2, <2>2 DEF CursorKept
  <2> HIDE DEF e, k
  <2>4. e \in Observing!Entry /\ v1 - e.data < Life
    BY <1>1, <1>4, <2>2
  <2> QED
    BY <1>2, <1>4, <1>6, <2>1, <2>2, <2>3, <2>4, PageKeeps
<1> QED
  BY <1>7, <1>8

\* A new observation, or one made of a recent one.
LEMMA CollectionKeeps ==
    ASSUME Observing!Inductive, NEW kind \in Observables, NEW s \in Signatures,
           NEW refresh \in BOOLEAN, NEW bytes \in 1 .. MaxBytes,
           Observing!Collect(kind, s, refresh, bytes)
    PROVE  Observing!Inductive'
<1> DEFINE es == Observing!Kept(v2)
           reused == IF refresh THEN {} ELSE Observing!Recent(es, kind)
           old == CHOOSE d \in reused : TRUE
           e == [id |-> v4 + 1, kind |-> kind, bytes |-> bytes,
                 data |-> IF reused = {} THEN v1 ELSE old.data,
                 current |-> IF reused = {} THEN v1 ELSE Observing!CurrentOf(old),
                 created |-> IF reused = {} THEN v1 ELSE Observing!Collected(old)]
           after == Observing!Kept(es \cup {e})
<1>1. Observing!Page(e, s, 0, {}, after, FALSE)
  BY DEF Observing!Collect
<1>2. es \subseteq v2 /\ (\A d \in es : v1 - d.created < Life) /\ after \subseteq es \cup {e}
  BY KeptEntries
<1>3. /\ v1 \in Nat /\ v4 \in Nat /\ EntriesKept(v1, v4, es)
      /\ \A c \in DOMAIN v3 : CursorKept(v4, es, v3[c])
  BY <1>2, ObservingFacts, FewerEntries
<1>4. reused # {} => /\ old \in es /\ v1 - old.created < CacheFor[kind]
                     /\ old.data = old.created /\ old.created <= v1 /\ old.created \in Nat
                     /\ old.kind = kind /\ old.created <= old.current /\ old.current <= v1
                     /\ old.current \in Nat
                     /\ kind \notin Renewed => old.current = old.data
  <2>1. reused # {} => old \in Observing!Recent(es, kind)
    OBVIOUS
  <2>2. reused # {} => old \in es /\ v1 - old.created < CacheFor[kind] /\ old.kind = kind
    BY <2>1 DEF Observing!Recent, Observing!Young
  <2> QED
    BY <1>3, <2>2 DEF EntriesKept, Observing!Entry
<1>5. /\ e.id = v4 + 1 /\ e.kind = kind /\ e.bytes = bytes /\ e.data = e.created
      /\ e.data \in Nat /\ e.data <= v1 /\ v1 - e.data < Life
      /\ v1 = e.data \/ v1 - e.data < CacheFor[kind]
      /\ e.current \in Nat /\ e.data <= e.current /\ e.current <= v1
      /\ kind \in Renewed => e.current = v1
      /\ kind \notin Renewed => e.current = e.data
  <2>1. CASE reused = {}
    BY <1>3, <2>1, QueriesAssumption
  <2>2. CASE reused # {}
    BY <1>2, <1>3, <1>4, <2>2 DEF Observing!Collected, Observing!CurrentOf
  <2> QED
    BY <2>1, <2>2
<1>6. e \in Observing!Entry
  BY <1>3, <1>5 DEF Observing!Entry
<1> HIDE DEF e, es, reused, old, after
<1>7. \A d \in es : d.id \in Nat /\ d.id <= v4 /\ d.id # e.id
  BY <1>3, <1>5 DEF EntriesKept, Observing!Entry
<1>8. EntriesKept(v1, v4 + 1, es \cup {e})
  BY <1>3, <1>5, <1>6, <1>7 DEF EntriesKept
<1>9. after \cup {e} \in SUBSET (es \cup {e})
  BY <1>2
<1>10. EntriesKept(v1, v4 + 1, after \cup {e}) /\ after \in SUBSET Observing!Entry
  BY <1>8, <1>9, FewerEntries DEF EntriesKept
<1>11. \A c \in DOMAIN v3 : CursorKept(v4, es \cup {e}, v3[c])
  BY <1>3, <1>5 DEF CursorKept
<1>12. \A c \in DOMAIN v3 : CursorKept(v4, after, v3[c])
  BY <1>2, <1>11, FewerEntries
<1>13. {} = Observing!FirstRows(e.data, 0) /\ 0 \in 0 .. Matched[s]
  BY QueriesAssumption DEF Observing!FirstRows
<1> QED
  BY <1>1, <1>5, <1>6, <1>10, <1>12, <1>13, PageKeeps

LEMMA ObservingStep ==
    ASSUME Observing!Inductive, [Observing!Next]_(Observing!vars)
    PROVE  Observing!Inductive'
  BY QuietKeeps, ReadKeeps, CollectionKeeps DEF Observing!Next

-----------------------------------------------------------------------------
(* The types of what these invariants say nothing about: bounds on counters,  *)
(* inputs and tables of FileCandidates, VolumeCatalog, Observations and       *)
(* IndexWorker.                                                               *)

\* FileCandidates: v2 and v3 are objects and byPath, v4 is search, v5 and v6 are
\* found and results, v10 is code, v11 reply, v12 stopped, v13 troubles.
TableTyped(objects, byPath, search, found, results) ==
    /\ Len(objects) <= MaxObjects /\ byPath \in [Candidates!Paths -> 0 .. Len(objects)]
    /\ found \cup results \subseteq DOMAIN objects
    /\ search.source = "none" => found = {} /\ search.entry = Candidates!NoEntry

CandidatesTypes ==
    /\ TableTyped(v2, v3, v4, v5, v6)
    /\ v10 \in Candidates!Codes \cup {"none"}
    /\ v11 \in {"none", "accepted", "cancelled", "refused", "unknown"}
    /\ v12 \in BOOLEAN /\ v13 \in 0 .. MaxMeddlings

LEMMA DiscoverTyped ==
    ASSUME Candidates!Inductive, TableTyped(v2, v3, v4, v5, v6), Candidates!Discover
    PROVE  TableTyped(v2', v3', v4', v5', v6')
<1>1. /\ MaxObjects \in Nat /\ v2 \in Seq(Candidates!Known) /\ Len(v2) \in Nat
      /\ v3 \in [Candidates!Paths -> 0 .. Len(v2)] /\ Len(v2) <= MaxObjects
      /\ v5 \cup v6 \subseteq DOMAIN v2 /\ DOMAIN v2 = 1 .. Len(v2)
  BY PathsAssumption, CandidatesFacts DEF TableTyped
<1> DEFINE p == v4.entry.path
           more == Append(v2, Candidates!Entry(p))
           after == Candidates!Inserted(p)
<1>2. v4.entry # Candidates!NoEntry /\ v4.entry \in Candidates!Known /\ v6' = v6
  BY CandidatesFacts DEF Candidates!Discover
<1>3. p \in Candidates!Paths
  BY <1>2, CandidatesFacts
<1>4. v4'.source # "none"
  <2>1. v4 \in [source : {"none", "index", "inventory", "scan"},
                entry : Candidates!Known \cup {Candidates!NoEntry}]
    BY DEF Candidates!Inductive
  <2>2. v4'.source = v4.source
    BY <2>1 DEF Candidates!Discover
  <2> QED
    BY <1>2, <2>2 DEF TableTyped
<1>5. \/ after.objects = v2 /\ after.id = v3[p] /\ v3[p] # 0
      \/ after.objects = more /\ after.id = Len(v2) + 1
  BY DEF Candidates!Inserted
<1>6. \/ UNCHANGED <<v2, v3, v5>>
      \/ /\ v1[p] # Candidates!Absent /\ ~(Len(after.objects) > MaxObjects)
         /\ v2' = after.objects /\ v3' = [v3 EXCEPT ![p] = after.id]
         /\ v5' \in {v5, v5 \cup {after.id}}
  BY DEF Candidates!Discover
<1> HIDE DEF after
<1>7. CASE UNCHANGED <<v2, v3, v5>>
  BY <1>1, <1>2, <1>4, <1>7 DEF TableTyped
<1>8. CASE v1[p] # Candidates!Absent /\ v2' = more /\ after.id = Len(v2) + 1
           /\ ~(Len(more) > MaxObjects)
           /\ v3' = [v3 EXCEPT ![p] = after.id] /\ v5' \in {v5, v5 \cup {after.id}}
  <2>1. Candidates!Entry(p) \in Candidates!Known
    BY <1>3, <1>8, CandidatesFacts
  <2>2. Len(v2') = Len(v2) + 1 /\ DOMAIN v2' = 1 .. Len(v2) + 1
    BY <1>1, <1>8, <2>1
  <2>3. Len(v2') <= MaxObjects
    BY <1>1, <1>8, <2>2
  <2>4. v3' \in [Candidates!Paths -> 0 .. Len(v2) + 1]
    BY <1>1, <1>3, <1>8
  <2>5. v5' \cup v6' \subseteq 1 .. Len(v2) + 1
    BY <1>1, <1>2, <1>8
  <2> QED
    BY <1>4, <2>2, <2>3, <2>4, <2>5 DEF TableTyped
<1>9. CASE v2' = v2 /\ after.id = v3[p] /\ v3[p] # 0
           /\ v3' = [v3 EXCEPT ![p] = after.id] /\ v5' \in {v5, v5 \cup {after.id}}
  <2>1. v3[p] \in 1 .. Len(v2)
    BY <1>1, <1>3, <1>9
  <2>2. v3' = v3 /\ v5' \subseteq DOMAIN v2
    BY <1>1, <1>9, <2>1
  <2> QED
    BY <1>1, <1>2, <1>4, <1>9, <2>2 DEF TableTyped
<1> QED
  BY <1>5, <1>6, <1>7, <1>8, <1>9

LEMMA TableStays ==
    ASSUME Candidates!Inductive, TableTyped(v2, v3, v4, v5, v6),
           [Candidates!Next]_(Candidates!vars)
    PROVE  TableTyped(v2', v3', v4', v5', v6')
<1>1. CASE Candidates!Reset
  <2>1. /\ v2' = <<>> /\ v3' = [p \in Candidates!Paths |-> 0] /\ v6' = {} /\ v5' = v5
        /\ v4' = v4 /\ v4 = Candidates!NoSearch
    BY <1>1 DEF Candidates!Reset, Candidates!Quiet
  <2>2. v5 = {} /\ v4'.entry = Candidates!NoEntry
    BY <2>1 DEF TableTyped, Candidates!NoSearch
  <2>3. Len(v2') = 0
    BY <2>1
  <2> QED
    BY <2>1, <2>2, <2>3, PathsAssumption DEF TableTyped
<1>2. CASE \E source \in {"index", "inventory", "scan"} : Candidates!BeginSearch(source)
  BY <1>2 DEF TableTyped, Candidates!BeginSearch
<1>3. ASSUME NEW p \in Candidates!Paths, Candidates!Look(p)
      PROVE  TableTyped(v2', v3', v4', v5', v6')
  <2>1. v4'.source = v4.source
    BY <1>3, CandidatesFacts DEF Candidates!Look, Candidates!Inductive
  <2> QED
    BY <1>3, <2>1 DEF TableTyped, Candidates!Look
<1>4. CASE Candidates!EndSearch
  <2>1. v4'.entry = Candidates!NoEntry
    BY <1>4 DEF Candidates!EndSearch, Candidates!NoSearch
  <2> QED
    BY <1>4, <2>1 DEF TableTyped, Candidates!EndSearch
<1>5. CASE UNCHANGED <<v2, v3, v4, v5, v6>>
  BY <1>5 DEF TableTyped
<1>6. (Candidates!Refresh \/ \E entry \in v7 : Candidates!Run(entry))
         => UNCHANGED <<v2, v3, v4, v5, v6>>
  BY DEF Candidates!Refresh, Candidates!Run, Candidates!Start, Candidates!table
<1>7. \A p \in Candidates!Paths :
         /\ Candidates!Write(p) => UNCHANGED <<v2, v3, v4, v5, v6>>
         /\ Candidates!Replace(p) => UNCHANGED <<v2, v3, v4, v5, v6>>
         /\ \A q \in Candidates!Paths :
               Candidates!Swap(p, q) => UNCHANGED <<v2, v3, v4, v5, v6>>
  BY DEF Candidates!Write, Candidates!Replace, Candidates!Swap, Candidates!table
<1>8. \A id : Candidates!Open(id) => UNCHANGED <<v2, v3, v4, v5, v6>>
  BY DEF Candidates!Open, Candidates!Start, Candidates!table
<1>9. (\/ Candidates!Answer \/ Candidates!Hold \/ Candidates!Compare \/ Candidates!Execute
       \/ Candidates!Die \/ Candidates!Collect \/ Candidates!GiveUp \/ Candidates!Cancel
       \/ UNCHANGED Candidates!vars) => UNCHANGED <<v2, v3, v4, v5, v6>>
  BY DEF Candidates!Answer, Candidates!Hold, Candidates!Compare, Candidates!Execute,
         Candidates!Die, Candidates!Collect, Candidates!GiveUp, Candidates!Cancel,
         Candidates!Helper, Candidates!vars, Candidates!table
<1> QED
  BY <1>1, <1>2, <1>3, <1>4, <1>5, <1>6, <1>7, <1>8, <1>9, DiscoverTyped, Zenon
  DEF Candidates!Next

LEMMA ReplyTyped ==
    ASSUME CandidatesTypes, [Candidates!Next]_(Candidates!vars)
    PROVE  /\ v10' \in Candidates!Codes \cup {"none"}
           /\ v11' \in {"none", "accepted", "cancelled", "refused", "unknown"}
           /\ v12' \in BOOLEAN /\ v13' \in 0 .. MaxMeddlings
<1>1. \A c : Candidates!Meaning(c) \in {"accepted", "cancelled", "unknown", "refused"}
  BY DEF Candidates!Meaning
<1>2. /\ v10' \in Candidates!Codes \cup {"none"}
      /\ v11' \in {"none", "accepted", "cancelled", "refused", "unknown"}
      /\ v12' \in BOOLEAN
      /\ Candidates!Trouble \/ v13' = v13
  <2> USE <1>1 DEF CandidatesTypes
  <2>1. CASE UNCHANGED <<v10, v11>> /\ v12' \in {v12, FALSE, TRUE}
             /\ (Candidates!Trouble \/ v13' = v13)
    BY <2>1
  <2>2. (\/ \E source \in {"index", "inventory", "scan"} : Candidates!BeginSearch(source)
         \/ \E p \in Candidates!Paths :
               \/ Candidates!Look(p) \/ Candidates!Write(p) \/ Candidates!Replace(p)
               \/ \E q \in Candidates!Paths : Candidates!Swap(p, q)
         \/ Candidates!Discover \/ Candidates!EndSearch \/ Candidates!Reset
         \/ Candidates!Refresh \/ Candidates!Cancel \/ UNCHANGED Candidates!vars)
        => UNCHANGED <<v10, v11>> /\ v12' \in {v12, FALSE, TRUE}
           /\ (Candidates!Trouble \/ v13' = v13)
    BY DEF Candidates!BeginSearch, Candidates!Look, Candidates!Write, Candidates!Replace,
           Candidates!Swap, Candidates!Discover, Candidates!EndSearch, Candidates!Reset,
           Candidates!Refresh, Candidates!Cancel, Candidates!vars, Candidates!opening
  <2>3. ASSUME NEW s, NEW kind, NEW entry, Candidates!Start(s, kind, entry)
        PROVE  v10' = v10 /\ v11' = "none" /\ v12' = FALSE /\ v13' = v13
    BY <2>3 DEF Candidates!Start
  <2>4. CASE (\E id \in DOMAIN v2 : Candidates!Open(id))
             \/ \E entry \in v7 : Candidates!Run(entry)
    <3>1. v10' = v10 /\ v11' = "none" /\ v12' = FALSE /\ v13' = v13
      BY <2>3, <2>4 DEF Candidates!Open, Candidates!Run
    <3> QED
      BY <3>1
  <2>5. CASE Candidates!Answer \/ Candidates!Hold \/ Candidates!Collect \/ Candidates!GiveUp
    BY <2>5 DEF Candidates!Answer, Candidates!Hold, Candidates!Collect, Candidates!GiveUp,
                Candidates!Return, Candidates!Calm
  <2>6. CASE Candidates!Compare \/ Candidates!Execute \/ Candidates!Die
    BY <2>6 DEF Candidates!Compare, Candidates!Execute, Candidates!Die, Candidates!Helper,
                Candidates!Exit, Candidates!Calm, Candidates!Codes
  <2> QED
    BY <2>1, <2>2, <2>4, <2>5, <2>6, Zenon DEF Candidates!Next
<1>3. MaxMeddlings \in Nat
  BY PathsAssumption
<1>4. v13' \in 0 .. MaxMeddlings
  BY <1>2, <1>3 DEF CandidatesTypes, Candidates!Trouble
<1> QED
  BY <1>2, <1>4

LEMMA CandidatesTyped ==
    /\ Candidates!Init => CandidatesTypes
    /\ Candidates!Inductive /\ CandidatesTypes /\ [Candidates!Next]_(Candidates!vars)
       => CandidatesTypes'
    /\ Candidates!Inductive /\ CandidatesTypes => Candidates!TypeOK
<1>1. Candidates!Init => CandidatesTypes
  <2> SUFFICES ASSUME Candidates!Init PROVE CandidatesTypes
    OBVIOUS
  <2>1. /\ v2 = <<>> /\ Len(v2) = 0 /\ v3 = [p \in Candidates!Paths |-> 0]
        /\ v4 = Candidates!NoSearch /\ v5 = {} /\ v6 = {} /\ v10 = "none" /\ v11 = "none"
        /\ v12 = FALSE /\ v13 = 0
    BY DEF Candidates!Init
  <2>2. v4.entry = Candidates!NoEntry
    BY <2>1 DEF Candidates!NoSearch
  <2>3. 0 <= MaxObjects /\ 0 \in 0 .. MaxMeddlings
    BY PathsAssumption
  <2>4. TableTyped(v2, v3, v4, v5, v6)
    BY <2>1, <2>2, <2>3 DEF TableTyped
  <2> QED
    BY <2>1, <2>3, <2>4 DEF CandidatesTypes
<1>2. Candidates!Inductive /\ CandidatesTypes /\ [Candidates!Next]_(Candidates!vars)
      => CandidatesTypes'
  BY TableStays, ReplyTyped DEF CandidatesTypes
<1>3. Candidates!Inductive /\ CandidatesTypes => Candidates!TypeOK
  BY DEF CandidatesTypes, TableTyped, Candidates!TypeOK, Candidates!Inductive
<1> QED
  BY <1>1, <1>2, <1>3

\* VolumeCatalog: v1 is attached, v4 is loop, v5 is failed, v6 is events.
CatalogTypes ==
    /\ v1 \in [Guids -> Serials \cup {"unreadable", "none"}]
    /\ v4 \in {"discover", "workers", "start", "stopping", "stopped"}
    /\ v5 \subseteq Catalog!Keys /\ v6 \in 0 .. MaxEvents

LEMMA CatalogTyped ==
    /\ Catalog!Init => CatalogTypes
    /\ Catalog!Inductive /\ CatalogTypes /\ [Catalog!Next]_(Catalog!vars) => CatalogTypes'
    /\ Catalog!Inductive /\ CatalogTypes => Catalog!TypeOK
<1>1. Catalog!Init => CatalogTypes
  <2>1. 0 \in 0 .. MaxEvents
    BY VolumesAssumption
  <2> QED
    BY <2>1 DEF Catalog!Init, CatalogTypes
<1>2. ASSUME Catalog!Inductive, CatalogTypes, [Catalog!Next]_(Catalog!vars)
      PROVE  CatalogTypes'
  <2>1. v1 \in [Guids -> Serials \cup {"unreadable", "none"}] /\ v5 \subseteq Catalog!Keys
        /\ v4 \in {"discover", "workers", "start", "stopping", "stopped"}
        /\ v6 \in 0 .. MaxEvents /\ MaxEvents \in Nat
    BY <1>2, VolumesAssumption DEF CatalogTypes
  <2>2. DOMAIN v3 \subseteq Catalog!Keys
    BY <1>2 DEF Catalog!Inductive, Catalog!ThreadsKnown, Catalog!Running, Catalog!Known
  <2>3. ASSUME NEW k \in Catalog!Keys, NEW reason \in {"transient", "other"},
               \/ Catalog!Wait(k) \/ Catalog!Open(k) \/ Catalog!End(k)
               \/ Catalog!Fail(k, reason)
        PROVE  CatalogTypes'
    <3>1. v1' = v1 /\ v4' = v4 /\ v5' \in {v5, v5 \cup {k}} /\ (v6' = v6 \/ Catalog!Event)
      BY <2>3 DEF Catalog!Wait, Catalog!Open, Catalog!End, Catalog!Fail
    <3>2. v6' \in 0 .. MaxEvents
      BY <2>1, <3>1 DEF Catalog!Event
    <3> QED
      BY <2>1, <3>1, <3>2 DEF CatalogTypes
  <2>4. ASSUME NEW g \in Guids, NEW to \in Serials \cup {"unreadable", "none"},
               Catalog!Change(g, to)
        PROVE  CatalogTypes'
    <3>1. v6' \in 0 .. MaxEvents
      BY <2>1, <2>4 DEF Catalog!Event, Catalog!Change
    <3> QED
      BY <2>1, <2>4, <3>1 DEF CatalogTypes, Catalog!Change
  <2>5. CASE Catalog!Loop \/ Catalog!Shutdown \/ Catalog!Join \/ UNCHANGED Catalog!vars
    <3>1. v1' = v1 /\ v5' = v5 /\ v6' = v6
          /\ v4' \in {v4, "discover", "workers", "start", "stopping", "stopped"}
      BY <2>5 DEF Catalog!Loop, Catalog!Discover, Catalog!NoDiscovery, Catalog!Workers,
                  Catalog!Start, Catalog!Shutdown, Catalog!Join, Catalog!vars
    <3> QED
      BY <2>1, <3>1 DEF CatalogTypes
  <2>6. QED
    BY <1>2, <2>3, <2>4, <2>5 DEF Catalog!Next
<1>3. Catalog!Inductive /\ CatalogTypes => Catalog!TypeOK
  BY DEF CatalogTypes, Catalog!TypeOK, Catalog!Inductive, Catalog!ThreadsKnown,
         Catalog!Running, Catalog!Known
<1> QED
  BY <1>1, <1>2, <1>3

\* Observations: v1 is time, v2 is entries, v3 is cursors, v4 is answers.
ObservingTypes ==
    /\ v1 \in 0 .. MaxTime /\ v4 \in 0 .. MaxQueries
    /\ \A e \in v2 : e.id \in 1 .. MaxQueries
    /\ DOMAIN v3 \subseteq 1 .. MaxQueries /\ Cardinality(DOMAIN v3) <= CursorCap
    /\ \A c \in DOMAIN v3 : v3[c].id \in 1 .. MaxQueries

LEMMA ObservingCounts == \A S : Observing!Cardinality(S) = Cardinality(S)
  BY DEF Observing!Cardinality, Cardinality, Observing!IsFiniteSet, IsFiniteSet

LEMMA PageTyped ==
    ASSUME Observing!Inductive, ObservingTypes, v4 < MaxQueries,
           NEW e, e.id \in 1 .. MaxQueries, NEW signature \in Signatures,
           NEW offset \in 0 .. Matched[signature], NEW seen,
           NEW es, \A d \in es : d.id \in 1 .. MaxQueries, NEW recalled,
           Observing!Page(e, signature, offset, seen, es, recalled)
    PROVE  ObservingTypes'
<1> DEFINE usable == Observing!Usable(es)
<1>1. /\ MaxQueries \in Nat /\ CursorCap \in Nat /\ v4 \in Nat
      /\ v4 + 1 \in 1 .. MaxQueries /\ v4 + 1 \in 0 .. MaxQueries
  BY QueriesAssumption DEF ObservingTypes
<1>2. usable \in SUBSET DOMAIN v3 /\ IsFiniteSet(DOMAIN v3)
  <2>1. usable \subseteq DOMAIN v3
    BY DEF Observing!Usable
  <2>2. IsFiniteSet(1 .. MaxQueries)
    BY <1>1, FS_Interval
  <2> QED
    BY <2>1, <2>2, FS_Subset DEF ObservingTypes
<1>3. /\ IsFiniteSet(usable) /\ Cardinality(usable) \in Nat
      /\ Cardinality(usable) <= CursorCap
  <2>1. IsFiniteSet(usable) /\ Cardinality(usable) <= Cardinality(DOMAIN v3)
    BY <1>2, FS_Subset
  <2>2. Cardinality(usable) \in Nat /\ Cardinality(DOMAIN v3) \in Nat
    BY <1>2, <2>1, FS_CardinalityType
  <2>3. Cardinality(DOMAIN v3) <= CursorCap
    BY DEF ObservingTypes
  <2> QED
    BY <1>1, <2>1, <2>2, <2>3
<1>4. /\ v1' = v1 /\ v2' = es /\ v4' = v4 + 1
      /\ \/ v3' = [c \in usable |-> v3[c]]
         \/ /\ Cardinality(usable) # CursorCap /\ DOMAIN v3' = usable \cup {v4 + 1}
            /\ \A c \in DOMAIN v3' : v3'[c].id = IF c = v4 + 1 THEN e.id ELSE v3[c].id
  BY ObservingCounts DEF Observing!Page
<1> HIDE DEF usable
<1>5. DOMAIN v3' \subseteq 1 .. MaxQueries /\ \A c \in DOMAIN v3' : v3'[c].id \in 1 .. MaxQueries
  BY <1>1, <1>2, <1>4 DEF ObservingTypes
<1>6. Cardinality(DOMAIN v3') <= CursorCap
  <2>1. CASE v3' = [c \in usable |-> v3[c]]
    BY <1>3, <2>1
  <2>2. CASE Cardinality(usable) # CursorCap /\ DOMAIN v3' = usable \cup {v4 + 1}
    <3>1. /\ Cardinality(usable \cup {v4 + 1}) <= Cardinality(usable) + 1
          /\ Cardinality(usable \cup {v4 + 1}) \in Nat
      <4>1. Cardinality(usable \cup {v4 + 1}) =
              IF v4 + 1 \in usable THEN Cardinality(usable) ELSE Cardinality(usable) + 1
        BY <1>3, FS_AddElement
      <4> QED
        BY <1>3, <4>1
    <3> QED
      BY <1>1, <1>3, <2>2, <3>1
  <2> QED
    BY <1>4, <2>1, <2>2
<1>7. v1' \in 0 .. MaxTime /\ v4' \in 0 .. MaxQueries
  BY <1>1, <1>4 DEF ObservingTypes
<1>8. \A d \in v2' : d.id \in 1 .. MaxQueries
  BY <1>4
<1> QED
  BY <1>5, <1>6, <1>7, <1>8 DEF ObservingTypes

LEMMA ObservingTyped ==
    /\ Observing!Init => ObservingTypes
    /\ Observing!Inductive /\ ObservingTypes /\ [Observing!Next]_(Observing!vars)
       => ObservingTypes'
    /\ Observing!Inductive /\ ObservingTypes => Observing!TypeOK
<1>1. /\ MaxTime \in Nat /\ MaxQueries \in Nat /\ CursorCap \in Nat
  BY QueriesAssumption
<1>2. Observing!Init => ObservingTypes
  <2> SUFFICES ASSUME Observing!Init PROVE ObservingTypes
    OBVIOUS
  <2>1. v1 = 0 /\ v2 = {} /\ DOMAIN v3 = {} /\ v4 = 0
    BY DEF Observing!Init, Observing!NoCursors
  <2>2. Cardinality(DOMAIN v3) = 0
    BY <2>1, FS_EmptySet
  <2> QED
    BY <1>1, <2>1, <2>2 DEF ObservingTypes
<1>3. ASSUME Observing!Inductive, ObservingTypes, [Observing!Next]_(Observing!vars)
      PROVE  ObservingTypes'
  <2>1. CASE \/ Observing!Tick \/ Observing!Refused \/ Observing!Reset
             \/ \E kind \in Observables : Observing!Invalidate(kind)
             \/ UNCHANGED Observing!vars
    <3>1. v4' = v4 /\ v2' \subseteq v2 /\ (v1' = v1 \/ (v1 < MaxTime /\ v1' = v1 + 1))
      BY <2>1, KeptEntries
      DEF Observing!Tick, Observing!Refused, Observing!Reset, Observing!Invalidate,
          Observing!vars
    <3>2. DOMAIN v3' \in SUBSET DOMAIN v3 /\ \A c \in DOMAIN v3' : v3'[c] = v3[c]
      BY <2>1 DEF Observing!Tick, Observing!Refused, Observing!Reset, Observing!Invalidate,
                  Observing!vars, Observing!Usable, Observing!NoCursors
    <3>3. IsFiniteSet(DOMAIN v3)
      <4>1. IsFiniteSet(1 .. MaxQueries)
        BY <1>1, FS_Interval
      <4> QED
        BY <1>3, <4>1, FS_Subset DEF ObservingTypes
    <3>4. /\ Cardinality(DOMAIN v3') <= Cardinality(DOMAIN v3)
          /\ Cardinality(DOMAIN v3') \in Nat /\ Cardinality(DOMAIN v3) \in Nat
      <4>1. IsFiniteSet(DOMAIN v3') /\ Cardinality(DOMAIN v3') <= Cardinality(DOMAIN v3)
        BY <3>2, <3>3, FS_Subset
      <4> QED
        BY <3>3, <4>1, FS_CardinalityType
    <3>5. Cardinality(DOMAIN v3') <= CursorCap
      BY <1>1, <1>3, <3>4 DEF ObservingTypes
    <3>6. v1' \in 0 .. MaxTime
      BY <1>1, <1>3, <3>1 DEF ObservingTypes
    <3> QED
      BY <1>3, <3>1, <3>2, <3>5, <3>6 DEF ObservingTypes
  <2> DEFINE es == Observing!Kept(v2)
  <2>2. es \subseteq v2 /\ \A d \in es : d.id \in 1 .. MaxQueries
    BY <1>3, KeptEntries DEF ObservingTypes
  <2>3. ASSUME NEW id \in Observing!Known(v2), NEW s \in Signatures, Observing!Recall(id, s)
        PROVE  ObservingTypes'
    <3>1. /\ id \in Observing!Known(es) /\ v4 < MaxQueries
          /\ Observing!Page(Observing!Located(es, id), s, 0, {}, es, TRUE)
      BY <2>3 DEF Observing!Recall
    <3>2. Observing!Located(es, id).id \in 1 .. MaxQueries
      BY <2>2, <3>1, LocatedEntry
    <3>3. 0 \in 0 .. Matched[s]
      BY QueriesAssumption
    <3> HIDE DEF es
    <3> QED
      BY <1>3, <2>2, <3>1, <3>2, <3>3, PageTyped
  <2>4. ASSUME NEW c \in DOMAIN v3, Observing!Continue(c)
        PROVE  ObservingTypes'
    <3> DEFINE k == v3[c]
    <3>1. /\ k.id \in Observing!Known(es) /\ v4 < MaxQueries
          /\ Observing!Page(Observing!Located(es, k.id), k.signature, k.offset, k.seen, es, TRUE)
      BY <2>4 DEF Observing!Continue, Observing!Usable
    <3>2. Observing!Located(es, k.id).id \in 1 .. MaxQueries
      BY <2>2, <3>1, LocatedEntry
    <3>3. k.signature \in Signatures /\ k.offset \in 0 .. Matched[k.signature]
      BY <1>3, ObservingFacts DEF CursorKept
    <3> HIDE DEF es, k
    <3> QED
      BY <1>3, <2>2, <3>1, <3>2, <3>3, PageTyped
  <2>5. ASSUME NEW kind \in Observables, NEW s \in Signatures, NEW refresh \in BOOLEAN,
               NEW bytes \in 1 .. MaxBytes, Observing!Collect(kind, s, refresh, bytes)
        PROVE  ObservingTypes'
    <3>1. v4 < MaxQueries /\ \E e : /\ e.id = v4 + 1
                                   /\ Observing!Page(e, s, 0, {}, Observing!Kept(es \cup {e}),
                                                     FALSE)
      <4> DEFINE reused == IF refresh THEN {} ELSE Observing!Recent(es, kind)
                 old == CHOOSE d \in reused : TRUE
                 e == [id |-> v4 + 1, kind |-> kind, bytes |-> bytes,
                       data |-> IF reused = {} THEN v1 ELSE old.data,
                       current |-> IF reused = {} THEN v1 ELSE Observing!CurrentOf(old),
                       created |-> IF reused = {} THEN v1 ELSE Observing!Collected(old)]
      <4>1. v4 < MaxQueries /\ Observing!Page(e, s, 0, {}, Observing!Kept(es \cup {e}), FALSE)
        BY <2>5 DEF Observing!Collect
      <4>2. e.id = v4 + 1
        OBVIOUS
      <4> HIDE DEF e, es
      <4> QED
        BY <4>1, <4>2
    <3>2. PICK e : /\ e.id = v4 + 1
                   /\ Observing!Page(e, s, 0, {}, Observing!Kept(es \cup {e}), FALSE)
      BY <3>1
    <3>3. e.id \in 1 .. MaxQueries
      BY <1>1, <1>3, <3>1, <3>2 DEF ObservingTypes
    <3> DEFINE after == Observing!Kept(es \cup {e})
    <3>4. \A d \in after : d.id \in 1 .. MaxQueries
      BY <2>2, <3>3, KeptEntries
    <3>5. 0 \in 0 .. Matched[s]
      BY QueriesAssumption
    <3>6. Observing!Page(e, s, 0, {}, after, FALSE)
      BY <3>2
    <3> HIDE DEF after
    <3> QED
      BY <1>3, <3>1, <3>3, <3>4, <3>5, <3>6, PageTyped
  <2> QED
    BY <1>3, <2>1, <2>3, <2>4, <2>5 DEF Observing!Next
<1>4. ASSUME Observing!Inductive, ObservingTypes
      PROVE  Observing!TypeOK
  <2>1. \A c \in DOMAIN v3 : v3[c].offset \in Nat
    BY <1>4, QueriesAssumption, ObservingFacts DEF CursorKept
  <2>2. Observing!Known(v2) \subseteq 1 .. MaxQueries
    BY <1>4 DEF ObservingTypes, Observing!Known
  <2>3. v2 \subseteq Observing!Entry
    BY <1>4, ObservingFacts DEF EntriesKept
  <2> QED
    BY <1>4, <2>1, <2>2, <2>3, ObservingCounts
    DEF Observing!TypeOK, ObservingTypes, Observing!QueryIds
<1> QED
  BY <1>2, <1>3, <1>4

\* IndexWorker: v1 is disk, v2 is writer, v3 is state, v5 is cursors, v6 is
\* search.  A search that has read a page is of a generation that was published.
WorkerTypes ==
    /\ v1.generation <= MaxGenerations /\ v3.generation <= v1.generation
    /\ v2.tier <= MaxTiers /\ v2.retries <= MaxRetries /\ v2.boundary <= MaxBoundary
    /\ v5 \subseteq 1 .. MaxGenerations /\ Cardinality(v5) <= MaxCursors
    /\ \A s \in Searches :
         /\ v6[s].step # "none" => v1.generation >= 1
         /\ v6[s].step \in {"more", "last"} => v6[s].generation \in 1 .. v1.generation

LEMMA WorkerCounts == \A S : Worker!Cardinality(S) = Cardinality(S)
  BY DEF Worker!Cardinality, Cardinality, Worker!IsFiniteSet, IsFiniteSet

LEMMA GenerationsFinite == IsFiniteSet(1 .. MaxGenerations)
<1>1. 1 \in Int /\ MaxGenerations \in Int
  BY WorkersAssumption
<1> QED
  BY <1>1, FS_Interval

\* The writer publishes in the order of the numbers, and stops retrying.
LEMMA WriterTyped ==
    ASSUME Worker!Inductive, WorkerTypes, Worker!Writer \/ Worker!LoseStorage
    PROVE  WorkerTypes'
<1>1. /\ v1 \in Worker!Disks /\ v2 \in Worker!Writers /\ v3 \in Worker!States
      /\ v6 \in [Searches -> Worker!Rows]
  BY DEF Worker!Inductive, Worker!Shapes
<1>2. /\ MaxGenerations \in Nat /\ MaxTiers \in Nat /\ MaxRetries \in Nat
      /\ MaxBoundary \in Nat
  BY WorkersAssumption
<1>3. /\ v1.generation \in Nat /\ v3.generation \in Nat
      /\ v2.tier \in Nat /\ v2.retries \in Nat /\ v2.boundary \in Nat
  BY <1>1 DEF Worker!Disks, Worker!Writers, Worker!States
<1>4. /\ v5' = v5 /\ v6' = v6
      /\ v1'.generation \in Nat /\ v1'.generation >= v1.generation
      /\ v1'.generation <= MaxGenerations /\ v3'.generation <= v1'.generation
  <2>1. CASE Worker!Committed
    <3>1. v1' = [v1 EXCEPT !.generation = v1.generation + 1, !.policy = v2.policy]
      BY <2>1 DEF Worker!Committed
    <3>2. v1'.generation = v1.generation + 1
      BY <1>1, <3>1 DEF Worker!Disks
    <3>3. v1.generation < MaxGenerations /\ v3' = v3 /\ v5' = v5 /\ v6' = v6
      BY <2>1 DEF Worker!Committed, Worker!Clients
    <3> QED
      BY <1>2, <1>3, <3>2, <3>3 DEF WorkerTypes
  <2>2. CASE Worker!Report
    <3>1. v3'.generation = v1.generation
      BY <1>1, <2>2 DEF Worker!Report, Worker!States
    <3> QED
      BY <1>2, <1>3, <2>2, <3>1 DEF WorkerTypes, Worker!Report, Worker!Clients
  <2>3. CASE \/ Worker!Take \/ Worker!Continue \/ Worker!Idle \/ Worker!Trouble
             \/ Worker!Observe \/ Worker!LoseStorage
             \/ \E error \in Worker!Errors : Worker!Failed(error)
    <3>1. v1' = v1 /\ v3' = v3 /\ v5' = v5 /\ v6' = v6
      BY <2>3
      DEF Worker!Take, Worker!Continue, Worker!Idle, Worker!Trouble, Worker!Observe,
          Worker!LoseStorage, Worker!Failed, Worker!Clients
    <3> QED
      BY <1>3, <3>1 DEF WorkerTypes
  <2> QED
    BY <2>1, <2>2, <2>3 DEF Worker!Writer
<1>5. v2'.tier <= MaxTiers /\ v2'.retries <= MaxRetries /\ v2'.boundary <= MaxBoundary
  <2>1. CASE Worker!Take
    <3>1. v2'.tier = 0 /\ v2'.retries = 0 /\ v2'.boundary = 0
      BY <1>1, <2>1 DEF Worker!Take, Worker!Writers
    <3> QED
      BY <1>2, <3>1
  <2>2. CASE Worker!Report
    <3>1. v2'.tier = v2.tier /\ v2'.retries = 0 /\ v2'.boundary = 0
      BY <1>1, <2>2 DEF Worker!Report, Worker!Done, Worker!Writers
    <3> QED
      BY <1>2, <3>1 DEF WorkerTypes
  <2>3. CASE Worker!Trouble
    <3>1. CASE Worker!MayRecover /\ Worker!Recover
      <4> DEFINE rebuild == v2.rebuild \/ v2.outcome = "boundary"
                 boundary == IF v2.outcome = "boundary" /\ v2.boundary < MaxBoundary
                             THEN v2.boundary + 1 ELSE v2.boundary
                 tier == IF v2.outcome = "budget" THEN v2.tier + 1 ELSE v2.tier
                 retries == IF v2.outcome = "metadata" THEN v2.retries + 1 ELSE v2.retries
      <4>1. v2' = [v2 EXCEPT !.step = "take", !.outcome = "none", !.rebuild = rebuild,
                             !.boundary = boundary, !.tier = tier, !.retries = retries]
        BY <3>1 DEF Worker!Recover
      <4>2. boundary <= MaxBoundary /\ tier <= MaxTiers /\ retries <= MaxRetries
        BY <1>2, <1>3, <3>1 DEF Worker!MayRecover, WorkerTypes
      <4> HIDE DEF rebuild, boundary, tier, retries
      <4>3. v2'.tier = tier /\ v2'.retries = retries /\ v2'.boundary = boundary
        BY <1>1, <4>1 DEF Worker!Writers
      <4> QED
        BY <4>2, <4>3
    <3>2. CASE Worker!Block
      <4>1. v2'.tier = v2.tier /\ v2'.retries = v2.retries /\ v2'.boundary = v2.boundary
        BY <1>1, <3>2 DEF Worker!Block, Worker!Writers
      <4> QED
        BY <4>1 DEF WorkerTypes
    <3> QED
      BY <2>3, <3>1, <3>2 DEF Worker!Trouble
  <2>4. CASE \/ Worker!Continue \/ Worker!Committed \/ Worker!Idle \/ Worker!Observe
             \/ Worker!LoseStorage \/ \E error \in Worker!Errors : Worker!Failed(error)
    <3>1. v2'.tier = v2.tier /\ v2'.retries = v2.retries /\ v2'.boundary = v2.boundary
      BY <1>1, <2>4
      DEF Worker!Continue, Worker!Committed, Worker!Idle, Worker!Observe, Worker!Ended,
          Worker!LoseStorage, Worker!Failed, Worker!Writers
    <3> QED
      BY <3>1 DEF WorkerTypes
  <2> QED
    BY <2>1, <2>2, <2>3, <2>4 DEF Worker!Writer
<1>6. \A s \in Searches :
        /\ v6'[s].step # "none" => v1'.generation >= 1
        /\ v6'[s].step \in {"more", "last"} => v6'[s].generation \in 1 .. v1'.generation
  <2> TAKE s \in Searches
  <2>1. v6[s].generation \in Nat
    BY <1>1 DEF Worker!Rows
  <2> QED
    BY <1>3, <1>4, <2>1 DEF WorkerTypes
<1> QED
  BY <1>4, <1>5, <1>6 DEF WorkerTypes

\* A cursor is kept for a page of a published generation, and never one too many.
LEMMA SearchesTyped ==
    ASSUME Worker!Inductive, WorkerTypes, NEW s \in Searches, Worker!Searching(s)
    PROVE  WorkerTypes'
<1>1. /\ v1 \in Worker!Disks /\ v3 \in Worker!States /\ v6 \in [Searches -> Worker!Rows]
      /\ v6[s] \in Worker!Rows
  BY DEF Worker!Inductive, Worker!Shapes
<1>2. /\ MaxGenerations \in Nat /\ MaxCursors \in Nat
      /\ v1.generation \in Nat /\ v3.generation \in Nat /\ v6[s].generation \in Nat
  BY <1>1, WorkersAssumption DEF Worker!Disks, Worker!States, Worker!Rows
<1>3. v1' = v1 /\ v2' = v2 /\ v3' = v3
  BY DEF Worker!Searching, Worker!Start, Worker!Read, Worker!Keep, Worker!Answer,
         Worker!GiveUp, Worker!Service
<1>4. /\ IsFiniteSet(v5) /\ Cardinality(v5) \in Nat
  <2>1. IsFiniteSet(1 .. MaxGenerations)
    BY GenerationsFinite
  <2>2. v5 \in SUBSET (1 .. MaxGenerations)
    BY DEF WorkerTypes
  <2>3. IsFiniteSet(v5)
    BY <2>1, <2>2, FS_Subset
  <2> QED
    BY <2>3, FS_CardinalityType
<1>5. v5' \subseteq 1 .. MaxGenerations /\ Cardinality(v5') <= MaxCursors
  <2>1. CASE v5' \subseteq v5
    <3>1. Cardinality(v5') <= Cardinality(v5) /\ Cardinality(v5') \in Nat
      BY <1>4, <2>1, FS_Subset, FS_CardinalityType
    <3> QED
      BY <1>2, <1>4, <2>1, <3>1 DEF WorkerTypes
  <2>2. CASE /\ v6[s].step = "more" /\ Cardinality(v5) < MaxCursors
             /\ v5' = v5 \cup {v6[s].generation}
    <3>1. v6[s].generation \in 1 .. MaxGenerations
      BY <1>2, <2>2 DEF WorkerTypes
    <3>2. Cardinality(v5') =
            IF v6[s].generation \in v5 THEN Cardinality(v5) ELSE Cardinality(v5) + 1
      BY <1>4, <2>2, FS_AddElement
    <3>3. Cardinality(v5') <= MaxCursors
      BY <1>2, <1>4, <2>2, <3>2
    <3> QED
      BY <2>2, <3>1, <3>3 DEF WorkerTypes
  <2> QED
    BY <2>1, <2>2, WorkerCounts
    DEF Worker!Searching, Worker!Start, Worker!Read, Worker!Keep, Worker!Answer,
        Worker!GiveUp
<1>6. PICK r \in Worker!Rows :
        /\ v6' = [v6 EXCEPT ![s] = r]
        /\ r.step # "none" => v1.generation >= 1
        /\ r.step \in {"more", "last"} => r.generation \in 1 .. v1.generation
  <2>1. Worker!NoSearch \in Worker!Rows /\ Worker!NoSearch.step = "none"
    BY DEF Worker!NoSearch, Worker!Rows
  <2>2. ASSUME NEW g \in 0 .. MaxGenerations, Worker!Start(s, g)
        PROVE  \E r \in Worker!Rows :
                 /\ v6' = [v6 EXCEPT ![s] = r]
                 /\ r.step # "none" => v1.generation >= 1
                 /\ r.step \in {"more", "last"} => r.generation \in 1 .. v1.generation
    <3> DEFINE r == [Worker!NoSearch EXCEPT !.step = "read", !.from = g, !.generation = g]
    <3>1. g \in Nat
      OBVIOUS
    <3>2. r \in Worker!Rows /\ r.step = "read"
      BY <3>1 DEF Worker!NoSearch, Worker!Rows
    <3>3. v6' = [v6 EXCEPT ![s] = r] /\ v3.generation > 0
      BY <2>2 DEF Worker!Start, Worker!Set
    <3>4. v1.generation >= 1
      BY <1>2, <3>3 DEF WorkerTypes
    <3> HIDE DEF r
    <3> QED
      BY <3>2, <3>3, <3>4
  <2>3. CASE v6' = [v6 EXCEPT ![s] = Worker!NoSearch]
    BY <2>1, <2>3
  <2>4. CASE Worker!Read(s) /\ Worker!SameGeneration(s)
    <3>1. PICK next \in {"read", "more", "last"} :
            v6' = [v6 EXCEPT ![s] = [v6[s] EXCEPT !.step = next,
                                       !.generation = v1.generation, !.policy = v1.policy]]
      BY <2>4 DEF Worker!Read, Worker!Set
    <3> DEFINE r == [v6[s] EXCEPT !.step = next, !.generation = v1.generation,
                                  !.policy = v1.policy]
    <3>2. r \in Worker!Rows /\ r.generation = v1.generation
      BY <1>1 DEF Worker!Rows, Worker!Disks
    <3>3. v1.generation >= 1 /\ v1.generation \in 1 .. v1.generation
      BY <1>2, <2>4 DEF WorkerTypes, Worker!Read
    <3>4. v6' = [v6 EXCEPT ![s] = r]
      BY <3>1
    <3> HIDE DEF r
    <3> QED
      BY <3>2, <3>3, <3>4
  <2>5. CASE /\ v6[s].step = "more"
             /\ v6' = [v6 EXCEPT ![s] = [v6[s] EXCEPT !.step = "last"]]
    <3> DEFINE r == [v6[s] EXCEPT !.step = "last"]
    <3>1. r \in Worker!Rows /\ r.generation = v6[s].generation
      BY <1>1 DEF Worker!Rows
    <3>2. v1.generation >= 1 /\ v6[s].generation \in 1 .. v1.generation
      BY <2>5 DEF WorkerTypes
    <3>3. v6' = [v6 EXCEPT ![s] = r]
      BY <2>5
    <3> HIDE DEF r
    <3> QED
      BY <3>1, <3>2, <3>3
  <2> QED
    BY <2>2, <2>3, <2>4, <2>5
    DEF Worker!Searching, Worker!Read, Worker!Keep, Worker!Answer, Worker!GiveUp,
        Worker!Set
<1>7. ASSUME NEW t \in Searches
      PROVE  /\ v6'[t].step # "none" => v1'.generation >= 1
             /\ v6'[t].step \in {"more", "last"} => v6'[t].generation \in 1 .. v1'.generation
  <2>1. v6'[t] = IF t = s THEN r ELSE v6[t]
    BY <1>1, <1>6
  <2> QED
    BY <1>3, <1>6, <2>1 DEF WorkerTypes
<1> QED
  BY <1>3, <1>5, <1>7 DEF WorkerTypes

LEMMA WorkerTyped ==
    /\ Worker!Init => WorkerTypes
    /\ Worker!Inductive /\ WorkerTypes /\ [Worker!Next]_(Worker!vars) => WorkerTypes'
    /\ Worker!Inductive /\ WorkerTypes => Worker!TypeOK
<1>1. /\ MaxGenerations \in Nat /\ MaxGenerations >= 1 /\ MaxTiers \in Nat
      /\ MaxRetries \in Nat /\ MaxBoundary \in Nat /\ MaxCursors \in Nat
  BY WorkersAssumption
<1>2. /\ {} \subseteq 1 .. MaxGenerations /\ Cardinality({}) <= MaxCursors
      /\ Worker!NoSearch.step = "none"
  <2>1. Cardinality({}) = 0
    BY FS_EmptySet
  <2> QED
    BY <1>1, <2>1 DEF Worker!NoSearch
<1>3. Worker!Init => WorkerTypes
  <2> SUFFICES ASSUME Worker!Init PROVE WorkerTypes
    OBVIOUS
  <2>1. v1.generation \in {0, 1}
    BY DEF Worker!Init
  <2>2. /\ v2.tier = 0 /\ v2.retries = 0 /\ v2.boundary = 0
        /\ v3.generation = v1.generation
    BY DEF Worker!Init, Worker!Begin, Worker!Startup
  <2>3. v5 = {} /\ v6 = [s \in Searches |-> Worker!NoSearch]
    BY DEF Worker!Init
  <2> QED
    BY <1>1, <1>2, <2>1, <2>2, <2>3 DEF WorkerTypes
<1>4. ASSUME Worker!Inductive, WorkerTypes, [Worker!Next]_(Worker!vars)
      PROVE  WorkerTypes'
  <2>1. v1 \in Worker!Disks /\ v3 \in Worker!States
    BY <1>4 DEF Worker!Inductive, Worker!Shapes
  <2>2. CASE Worker!Rebuild \/ Worker!Later \/ UNCHANGED Worker!vars
    <3>1. v1' = v1 /\ v2' = v2 /\ v3' = v3 /\ v5' = v5 /\ v6' = v6
      BY <2>2 DEF Worker!Rebuild, Worker!Later, Worker!Clients, Worker!vars
    <3> QED
      BY <1>4, <3>1 DEF WorkerTypes
  <2>3. ASSUME NEW p \in Worker!Policies, Worker!SetPolicy(p)
        PROVE  WorkerTypes'
    <3>1. v1'.generation = v1.generation /\ v3'.generation = v3.generation
      BY <2>1, <2>3 DEF Worker!SetPolicy, Worker!Saved, Worker!Disks, Worker!States
    <3>2. v5' = {} /\ v6' = v6 /\ v2' = v2
      BY <2>3 DEF Worker!SetPolicy
    <3> QED
      BY <1>2, <1>4, <3>1, <3>2 DEF WorkerTypes
  <2>4. ASSUME NEW p, Worker!Lost(p)
        PROVE  WorkerTypes'
    <3>1. v1'.generation = v1.generation
      BY <2>1, <2>4 DEF Worker!Lost, Worker!Saved, Worker!Disks
    <3>2. /\ v2'.tier = 0 /\ v2'.retries = 0 /\ v2'.boundary = 0
          /\ v3'.generation = v1'.generation
      BY <2>4 DEF Worker!Lost, Worker!Begin, Worker!Startup
    <3>3. v5' = {} /\ v6' = [s \in Searches |-> Worker!NoSearch]
      BY <2>4 DEF Worker!Lost
    <3>4. v1.generation \in Nat
      BY <2>1 DEF Worker!Disks
    <3> QED
      BY <1>1, <1>2, <1>4, <3>1, <3>2, <3>3, <3>4 DEF WorkerTypes
  <2>5. ASSUME NEW g, Worker!Expire(g)
        PROVE  WorkerTypes'
    <3>1. v1' = v1 /\ v2' = v2 /\ v3' = v3 /\ v6' = v6 /\ v5' \subseteq v5
      BY <2>5 DEF Worker!Expire, Worker!Service
    <3>2. IsFiniteSet(1 .. MaxGenerations)
      BY GenerationsFinite
    <3>3. IsFiniteSet(v5)
      BY <1>4, <3>2, FS_Subset DEF WorkerTypes
    <3>4. /\ Cardinality(v5') <= Cardinality(v5)
          /\ Cardinality(v5') \in Nat /\ Cardinality(v5) \in Nat
      BY <3>1, <3>3, FS_Subset, FS_CardinalityType
    <3>5. Cardinality(v5) <= MaxCursors
      BY <1>4 DEF WorkerTypes
    <3>6. Cardinality(v5') <= MaxCursors
      BY <1>1, <3>4, <3>5
    <3> QED
      BY <1>4, <3>1, <3>6 DEF WorkerTypes
  <2>6. ASSUME NEW s \in Searches, Worker!Searching(s)
        PROVE  WorkerTypes'
    BY <1>4, <2>6, SearchesTyped
  <2>7. CASE Worker!Writer \/ Worker!LoseStorage
    BY <1>4, <2>7, WriterTyped
  <2> QED
    BY <1>4, <2>2, <2>3, <2>4, <2>5, <2>6, <2>7 DEF Worker!Next, Worker!Restart
<1>5. ASSUME Worker!Inductive, WorkerTypes
      PROVE  Worker!TypeOK
  <2>1. /\ v1 \in Worker!Disks /\ v2 \in Worker!Writers /\ v6 \in [Searches -> Worker!Rows]
    BY <1>5 DEF Worker!Inductive, Worker!Shapes
  <2>2. /\ v1.generation \in Nat /\ v1.policy \in Worker!Policies \cup {"none"}
        /\ v1.saved \in Worker!Policies \cup {"none"}
    BY <2>1 DEF Worker!Disks
  <2>3. v2.policy \in Worker!Policies /\ v2.step \in {"take", "update", "report", "ended"}
    BY <2>1 DEF Worker!Writers
  <2>4. \A s \in Searches : v6[s].step \in {"none", "read", "more", "last"}
    BY <2>1 DEF Worker!Rows
  <2>5. v1.generation \in 0 .. MaxGenerations
    BY <1>1, <1>5, <2>2 DEF WorkerTypes
  <2> QED
    BY <1>5, <2>2, <2>3, <2>4, <2>5, WorkerCounts DEF WorkerTypes, Worker!TypeOK
<1> QED
  BY <1>3, <1>4, <1>5

-----------------------------------------------------------------------------
(* InventoryWatch, ServiceInstall and FileIndex are proved about in modules of *)
(* their own.                                                                 *)

\* The assumptions of InventoryWatch, for the parameters it has here.
LEMMA ThreadsParameters ==
    /\ /\ MaxVersion \in Nat \ {0} /\ QueueCap \in Nat \ {0} /\ BatchCap \in Nat
       /\ MaxGen \in Nat \ {0} /\ MaxMishaps \in Nat
    /\ Existing \subseteq Documents /\ Documents \cap {"rescan", "error"} = {}
  BY ThreadsAssumption

\* The invariants of all parts.
SumInv ==
    /\ AppsInv /\ AllInductive
    /\ part = "inventory" => Inventory!IInv /\ Inventory!StoredInv
    /\ part = "install" => Install!IInv
    /\ part = "index" => Index!IInv
    /\ part = "files" => CandidatesTypes
    /\ part = "catalog" => CatalogTypes
    /\ part = "observing" => ObservingTypes
    /\ part = "worker" => WorkerTypes

-----------------------------------------------------------------------------
(* The sum: a behaviour stays in its part, and a step of the sum is a step  *)
(* of that part.                                                            *)

\* In every part the first state has the invariant.
LEMMA AllStart == AllInit => SumInv
<1> SUFFICES ASSUME AllInit PROVE SumInv
  OBVIOUS
<1>1. /\ part = "files" => Candidates!Init
      /\ part = "endpoints" => Endpoints!Init
      /\ part = "search" => Search!Init
      /\ part = "sampling" => Sampling!Init
      /\ part = "observing" => Observing!Init
      /\ part = "workspace" => Workspace!Init
      /\ part = "settings" => Settings!Init
      /\ part = "requests" => Requests!Init
      /\ part = "worker" => Worker!Init
      /\ part = "pipe" => Pipe!Init
      /\ part = "catalog" => Catalog!Init
      /\ part = "inventory" => Inventory!Init
      /\ part = "install" => Install!Init
      /\ part = "index" => Index!Init
      /\ Init
  BY DEF AllInit
<1>2. part = "inventory" => Inventory!IInv /\ Inventory!StoredInv
  BY <1>1, ThreadsParameters, Inventory!InitInv, Inventory!StoredStart
<1>3. part = "install" => Install!IInv
  <2>1. Install!Parameters
    BY BuildsAssumption DEF Install!Parameters
  <2> QED
    BY <1>1, <2>1, Install!InitInv
<1>4. part = "index" => Index!IInv
  <2>1. Root \notin Index!Objects /\ Bin \notin Index!Objects /\ Root # Bin
    BY VolumeAssumption DEF Index!Objects
  <2>2. Index!IsFiniteSet(IndexDirs)
    BY VolumeAssumption DEF IsFiniteSet, Index!IsFiniteSet
  <2>3. Index!Parameters
    BY VolumeAssumption, <2>1, <2>2 DEF Index!Parameters
  <2> QED
    BY <1>1, <2>3, Index!InitInv
<1>5. /\ part = "files" => CandidatesTypes
      /\ part = "catalog" => CatalogTypes
      /\ part = "observing" => ObservingTypes
      /\ part = "worker" => WorkerTypes
  BY <1>1, CandidatesTyped, CatalogTyped, ObservingTyped, WorkerTyped
<1> QED
  BY <1>1, <1>2, <1>3, <1>4, <1>5, AppsStart, WorkspaceStart, SettingsStart, RequestsStart, WorkerStart, PipeStart,
     CatalogStart, CandidatesStart, EndpointsStart, SearchStart, SamplingStart, ObservingStart
  DEF SumInv, AllInductive

\* A step of the sum is one of its part.
LEMMA PartSteps ==
    ASSUME [AllNext]_all
    PROVE  /\ part' = part
           /\ part = "files" => [Candidates!Next]_(Candidates!vars)
           /\ part = "endpoints" => [Endpoints!Next]_(Endpoints!vars)
           /\ part = "search" => [Search!Next]_(Search!vars)
           /\ part = "sampling" => [Sampling!Next]_(Sampling!vars)
           /\ part = "observing" => [Observing!Next]_(Observing!vars)
           /\ part = "workspace" => [Workspace!Next]_(Workspace!vars)
           /\ part = "settings" => [Settings!Next]_(Settings!vars)
           /\ part = "requests" => [Requests!Next]_(Requests!vars)
           /\ part = "worker" => [Worker!Next]_(Worker!vars)
           /\ part = "pipe" => [Pipe!Next]_(Pipe!vars)
           /\ part = "catalog" => [Catalog!Next]_(Catalog!vars)
           /\ part = "inventory" => [Inventory!Next]_(Inventory!vars)
           /\ part = "install" => [Install!Next]_(Install!vars)
           /\ part = "index" => [Index!Next]_(Index!vars)
           /\ [Next]_vars
<1>1. CASE AllNext
  BY <1>1 DEF AllNext
<1>2. CASE UNCHANGED all
  <2>1. part' = part /\ UNCHANGED slots
    BY <1>2 DEF all
  <2>2. UNCHANGED <<v1, v2, v3, v4, v5, v6, v7, v8, v9, v10, v11, v12, v13, v14, v15, v16, v17>>
    BY <2>1 DEF slots
  <2>3. UNCHANGED <<Workspace!vars, Settings!vars, Requests!vars, Worker!vars, Pipe!vars>>
    BY <2>2 DEF Workspace!vars, Settings!vars, Requests!vars, Worker!vars, Pipe!vars
  <2>4. UNCHANGED <<Catalog!vars, Endpoints!vars>>
    BY <2>2 DEF Catalog!vars, Endpoints!vars, Endpoints!probe
  <2>5. UNCHANGED Candidates!vars
    BY <2>2 DEF Candidates!vars, Candidates!table, Candidates!opening
  <2>6. UNCHANGED Search!vars
    BY <2>2 DEF Search!vars, Search!world, Search!query
  <2>7. UNCHANGED <<Sampling!vars, Observing!vars>>
    BY <2>2 DEF Sampling!vars, Sampling!sampler, Observing!vars
  <2>8. UNCHANGED Inventory!vars
    BY <2>2 DEF Inventory!vars, Inventory!entries, Inventory!durable, Inventory!threads,
                Inventory!world
  <2>9. UNCHANGED <<Install!vars, Index!vars, vars>>
    BY <1>2, <2>2 DEF all, Install!vars, Index!vars
  <2> QED
    BY <2>1, <2>3, <2>4, <2>5, <2>6, <2>7, <2>8, <2>9
<1> QED
  BY <1>1, <1>2

\* So it keeps the invariant.
LEMMA AllKeeps ==
    ASSUME SumInv, [AllNext]_all
    PROVE  SumInv'
<1>1. AllInductive'
  BY PartSteps, WorkspaceStep, SettingsStep, RequestsStep, WorkerStep, PipeStep, CatalogStep,
     CandidatesStep, EndpointsStep, SearchStep, SamplingStep, ObservingStep
  DEF SumInv, AllInductive
<1>2. part = "inventory" => Inventory!IInv'
  BY PartSteps, ThreadsParameters, Inventory!NextKeeps DEF SumInv
<1>3. part = "inventory" => Inventory!StoredInv'
  BY PartSteps, ThreadsParameters, Inventory!StoredKeeps DEF SumInv
<1>4. part = "install" => Install!IInv'
  BY PartSteps, Install!NextKeeps DEF SumInv
<1>5. part = "index" => Index!IInv'
  BY PartSteps, Index!NextKeeps DEF SumInv
<1>6. AppsInv'
  BY PartSteps, AppsStep DEF SumInv
<1>7. /\ part = "files" => CandidatesTypes'
      /\ part = "catalog" => CatalogTypes'
      /\ part = "observing" => ObservingTypes'
      /\ part = "worker" => WorkerTypes'
  BY PartSteps, CandidatesTyped, CatalogTyped, ObservingTyped, WorkerTyped
  DEF SumInv, AllInductive
<1> QED
  BY <1>1, <1>2, <1>3, <1>4, <1>5, <1>6, <1>7, PartSteps DEF SumInv

\* The inductive invariant of the sum.
THEOREM AllInvariant == AllSpec => []SumInv
<1>1. SumInv /\ [AllNext]_all => SumInv'
  BY AllKeeps
<1> QED
  BY AllStart, <1>1, PTL DEF AllSpec

\* Every variable of every part keeps its type, and every counter its bound,
\* for any values of the parameters; and each part's inductive invariant is one.
THEOREM AllTyped == AllSpec => []TypesOK
<1>1. SumInv => TypesOK
  <2> SUFFICES ASSUME SumInv PROVE TypesOK
    OBVIOUS
  <2>1. TypeOK /\ AllInductive
    BY DEF SumInv, AppsInv, Typed
  <2>2. /\ part = "files" => Candidates!TypeOK
        /\ part = "catalog" => Catalog!TypeOK
        /\ part = "observing" => Observing!TypeOK
        /\ part = "worker" => Worker!TypeOK
    BY <2>1, CandidatesTyped, CatalogTyped, ObservingTyped, WorkerTyped DEF SumInv, AllInductive
  <2>3. /\ part = "inventory" => Inventory!TypeOK
        /\ part = "install" => Install!TypeOK
        /\ part = "index" => Index!TypeOK
    BY Install!InvTypeOK, Index!InvTypeOK DEF SumInv, Inventory!IInv
  <2> QED
    BY <2>1, <2>2, <2>3 DEF TypesOK
<1> QED
  BY AllInvariant, <1>1, PTL

\* An operation that has launched or terminated something is on record until
\* its completed row is cleared, whatever host crashed and whatever could not
\* be saved.
THEOREM EffectsAreOnRecord == AllSpec => []EffectsOnRecord
<1>1. SumInv => EffectsOnRecord
  BY DEF SumInv, AppsInv, RowsInv
<1> QED
  BY AllInvariant, <1>1, PTL

\* Only the dispatch of an approved operation acts, on the target it was
\* approved for, once in a turn, and with no earlier effect in doubt that
\* nobody has looked at.
THEOREM ActsKnowingly == AllSpec => ActsOnceAndKnowingly
<1>1. SumInv /\ [AllNext]_all => [ActedKnowingly]_vars
  BY PartSteps, KnowingSteps DEF SumInv
<1> QED
  BY AllInvariant, <1>1, PTL DEF AllSpec, ActsOnceAndKnowingly

\* However many requests of a session and checks of a connection, and whatever
\* they cost or whether they fail, the guard has counted at least what the
\* bill can be (src/model.rs, src/runtime.rs).
THEOREM BillCovered == AllSpec => []BillIsCovered
<1>1. SumInv => BillIsCovered
  BY DEF SumInv, AllInductive, Requests!Inductive, BillIsCovered
<1> QED
  BY AllInvariant, <1>1, PTL

\* A key is sent to no service but the one it was typed for, for any services,
\* by the settings page and by the dialogue of the command line.
THEOREM KeysKeptHome == AllSpec => []KeysStayHome
<1>1. SumInv => KeysStayHome
  BY DEF SumInv, AllInductive, Settings!Inductive, KeysStayHome
<1> QED
  BY AllInvariant, <1>1, PTL

\* What a save of a workspace, or of the settings page, writes over has been
\* seen by who saves it, for any desktops and any contents.
THEOREM NothingLostUnseen == AllSpec => NothingOverwrittenUnseen
<1>1. /\ SumInv /\ part = "workspace" => Workspace!WritesOverSeen
      /\ SumInv /\ part = "settings" => Settings!WritesOverShown
  BY WorkspaceWrites, SettingsWrite DEF SumInv, AllInductive
<1> QED
  BY AllInvariant, <1>1, PTL DEF AllSpec, NothingOverwrittenUnseen

\* No answer of an index comes from an index of the other choice or from two
\* generations, for any searches, restarts and retries; and through any number
\* of instances of a pipe it reaches the client that asked, and no other.
THEOREM AnswersComeRight == AllSpec => []AnswersUnderChoice
<1>1. SumInv => AnswersUnderChoice
  BY DEF SumInv, AllInductive, Worker!Inductive, Pipe!Inductive, AnswersUnderChoice
<1> QED
  BY AllInvariant, <1>1, PTL

\* No volume has two workers, every worker has an entry in the catalog, and
\* there are no more of them than the service allows, for any volumes, at the
\* limit of the catalog too.
THEOREM VolumesServedOnce == AllSpec => []OneWorkerEach
<1>1. SumInv => OneWorkerEach
  BY DEF SumInv, AllInductive, Catalog!Inductive, OneWorkerEach
<1> QED
  BY AllInvariant, <1>1, PTL

\* An endpoint a person registered is contacted at most once per layer of its
\* scope, as it was registered, and only at addresses that were checked, for
\* any endpoints, queries and changes of what their names stand for.
THEOREM ProbesConfirmed == AllSpec => []ProbesAsConfirmed
<1>1. SumInv => ProbesAsConfirmed
  BY DEF SumInv, AllInductive, Endpoints!Inductive, ProbesAsConfirmed
<1> QED
  BY AllInvariant, <1>1, PTL

\* A result of a search that is shown as complete is all that the indexes of
\* all volumes had to say, and what the caller of an opening is told of it is
\* true, for any volumes, files and limits, however they are moved about.
THEOREM ToldTruthfully == AllSpec => []ToldTruly
<1>1. SumInv => ToldTruly
  BY DEF SumInv, AllInductive, Search!Inductive, Candidates!Inductive, ToldTruly
<1> QED
  BY AllInvariant, <1>1, PTL

\* Only the object that was shown under its path is opened, once, while its
\* caller waits for it and in a place the scope allows, for any number of
\* files and whatever other programs do to them in between.
THEOREM OpenedOnlyAsShown == AllSpec => OpensWhatWasShown
<1>1. SumInv /\ [AllNext]_all => (part = "files" => Candidates!OpenedAsShown)
  BY PartSteps, CandidatesStep DEF SumInv, AllInductive
<1> QED
  BY AllInvariant, <1>1, PTL DEF AllSpec, OpensWhatWasShown

\* The means of a resource observation rest on measured time: a rate weighs as
\* long as the time it was divided by, and no two weights overlap, for any
\* number of slots of any length, whatever stalls, is slow or cannot be read.
THEOREM MeansRestOnTime == AllSpec => []MeansAreMeasured
<1>1. SumInv => MeansAreMeasured
  BY DEF SumInv, AllInductive, Sampling!Inductive, MeansAreMeasured
<1> QED
  BY AllInvariant, <1>1, PTL

\* Nothing that is answered is older than it may be, however often an
\* observation was reused: what was reused is within the time its kind allows,
\* the readings that may not be reused are made for the query itself, and all of
\* an answer of a kind without them is of one time.  Whoever follows the cursors
\* to their end has read every row of one observation and no row of another.
\* For any kinds of either sort, queries, budgets and lives of observations
\* (src/observation.rs).
THEOREM NothingStale == AllSpec => []NothingStaleAnswered
<1>1. SumInv => NothingStaleAnswered
  BY DEF SumInv, AllInductive, Observing!Inductive, NothingStaleAnswered
<1> QED
  BY AllInvariant, <1>1, PTL

\* An entry of the inventory that was removed stays removed, and so does its
\* snapshot, for any directories, threads of any generations and troubles.
THEOREM NothingComesBack == AllSpec => GoneStaysGone
<1>1. SumInv /\ [AllNext]_all => (part = "inventory" => Inventory!StaysGone)
  BY PartSteps, ThreadsParameters, Inventory!GoneSteps DEF SumInv
<1> QED
  BY AllInvariant, <1>1, PTL DEF AllSpec, GoneStaysGone

\* Wherever an installer of the index service stopped, whatever failed before,
\* the next one finds an installation it recognises and can mend, for any
\* builds and troubles: the manifest is saved, the payloads are copied and the
\* service is configured in an order that never leaves the three at odds
\* (src/file_index/worker/service).
THEOREM RepairableAlways == AllSpec => []AlwaysRepairable
<1>1. SumInv => AlwaysRepairable
  BY Install!InvRepairable DEF SumInv, AlwaysRepairable
<1> QED
  BY AllInvariant, <1>1, PTL

\* Whatever other programs do to a volume while its index is built or brought
\* up to date, and whatever fails, the journal will still tell of what the
\* index does not know yet, for any directories and files; and a directory of
\* the inventory that is said to be watched has a thread that watches it.
THEOREM NothingIsPassedOver == AllSpec => []NothingPassedOver
<1>1. SumInv => NothingPassedOver
  <2>1. part = "index" /\ Index!IInv => Index!NothingPassedOver
    BY Index!InvNothingPassedOver
  <2>2. part = "inventory" /\ Inventory!IInv => Inventory!RunningHasThread
    BY ThreadsParameters, Inventory!StatusBacked
  <2> QED
    BY <2>1, <2>2 DEF SumInv, NothingPassedOver
<1> QED
  BY AllInvariant, <1>1, PTL
==============================================================================
