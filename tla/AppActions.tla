------------------------------ MODULE AppActions ------------------------------
(***************************************************************************)
(* Application actions (src/application_actions): launching a program from *)
(* its Start menu entry and terminating one process, each after a local    *)
(* confirmation, with a receipt in the journal of ActionJournal.           *)
(*                                                                         *)
(* A host is a desktop process with one session; hosts share the journal,  *)
(* whose lock a host holds from before the question until the receipt is   *)
(* saved.  A target is a Start menu entry or a process id; what it stands  *)
(* for can change, which its incarnation counts.                           *)
(*                                                                         *)
(* Bound: MaxTroubles changes of targets, failed calls, failed saves and   *)
(* crashes in all.                                                         *)
(***************************************************************************)
EXTENDS ActionJournal

CONSTANTS Hosts, Launchers, Processes, Ids, NoHost, MaxTroubles

VARIABLES
    rows,      \* the receipts in actions.db
    lock,      \* who holds actions.lock
    spent,     \* host -> an action was attempted in this turn
    stopped,   \* host -> its turn is cancelled
    step, work,     \* host -> where its action stands, and on what
    incarnation, alive,   \* the world: what a target stands for, what runs
    troubles,
    dispatched, approved, cleared, acted  \* history

host    == <<spent, stopped, step, work>>
world   == <<incarnation, alive>>
history == <<dispatched, approved, cleared, acted>>
vars == <<rows, lock, host, world, troubles, history>>

Targets == Launchers \cup Processes
Lifecycles == {"none", "dispatching", "unknown", "completed", "rejected", "expired",
               "failed_before_dispatch"}
NoRow == [life |-> "none", aged |-> FALSE, checked |-> FALSE]
KindOf == [id \in Ids |-> "application"]

NoWork == [entry |-> [target |-> NoHost, seen |-> 0], id |-> NoHost, life |-> "none"]

TypeOK ==
    /\ rows \in [Ids -> [life : Lifecycles, aged : BOOLEAN, checked : BOOLEAN]]
    /\ lock \in Hosts \cup {NoHost}
    /\ spent \in [Hosts -> BOOLEAN] /\ stopped \in [Hosts -> BOOLEAN]
    /\ step \in [Hosts -> {"idle", "asking", "dispatching", "closing"}]
    /\ alive \subseteq Processes /\ incarnation \in [Targets -> Nat]
    /\ dispatched \cup approved \cup cleared \subseteq Ids
    /\ acted \in [Hosts -> Nat]

Init ==
    /\ rows = [id \in Ids |-> NoRow] /\ lock = NoHost
    /\ spent = [h \in Hosts |-> FALSE] /\ stopped = [h \in Hosts |-> FALSE]
    /\ step = [h \in Hosts |-> "idle"] /\ work = [h \in Hosts |-> NoWork]
    /\ incarnation = [t \in Targets |-> 0] /\ alive = Processes
    /\ troubles = 0 /\ dispatched = {} /\ approved = {} /\ cleared = {}
    /\ acted = [h \in Hosts |-> 0]

Trouble == troubles < MaxTroubles /\ troubles' = troubles + 1
Calm == UNCHANGED troubles

-----------------------------------------------------------------------------
(* The turn, and the targets it may name. *)

BeginTurn(h) ==
    /\ step[h] = "idle" /\ (spent[h] \/ stopped[h])
    /\ spent' = [spent EXCEPT ![h] = FALSE]
    /\ stopped' = [stopped EXCEPT ![h] = FALSE]
    /\ acted' = [acted EXCEPT ![h] = 0]
    /\ UNCHANGED <<rows, lock, step, work, world, troubles, dispatched,
                   approved, cleared>>

Cancel(h) ==
    /\ ~stopped[h] /\ stopped' = [stopped EXCEPT ![h] = TRUE]
    /\ UNCHANGED <<rows, lock, spent, step, work, world, troubles, history>>

\* What has been seen of a Start menu entry; one whose name is not unique,
\* which takes arguments or is no local program is never a launcher.
Discovered(l) == {[target |-> l, seen |-> n] : n \in 0 .. incarnation[l]}

\* What has been seen of a process of this user in this session.
Enumerated(p) == {[target |-> p, seen |-> n] : n \in 0 .. incarnation[p]}

\* targets: a reference stands for an observation of the last two minutes,
\* so for anything its target has been.
Offered(t) == IF t \in Launchers THEN Discovered(t) ELSE Enumerated(t)

-----------------------------------------------------------------------------
(* The action. *)

\* The link and the program have the identities that were seen.
Pinned(e) == e.target \in Launchers /\ incarnation[e.target] = e.seen

\* The process captured again: its creation time, image and owner.
Captured(e) == e.target \in alive /\ incarnation[e.target] = e.seen

Verified(e) == Pinned(e) \/ Captured(e)

\* Mutant: receipts that are in doubt block nothing.
InDoubtNever(journal) == FALSE

\* A receipt nobody has looked at blocks every action.
InDoubt(journal) ==
    \E id \in Ids : journal[id].life = "unknown" /\ ~journal[id].checked

\* block_turn, by a file that is opened or a maintenance write, spends the
\* turn as an action does.
BlockTurn(h) ==
    /\ step[h] = "idle" /\ ~spent[h] /\ spent' = [spent EXCEPT ![h] = TRUE]
    /\ UNCHANGED <<rows, lock, stopped, step, work, world, troubles, history>>

\* action, up to the question; an error leaves the turn spent, and releases
\* the lock that opening the journal took.
Act(h, e, id) ==
    LET journal == Opened(rows, KindOf) IN
    /\ step[h] = "idle" /\ ~spent[h] /\ spent' = [spent EXCEPT ![h] = TRUE]
    /\ IF Verified(e) /\ ~stopped[h] /\ lock = NoHost
       THEN /\ rows' = journal
            /\ IF InDoubt(journal)
               THEN UNCHANGED <<lock, step, work>>
               ELSE /\ journal[id].life = "none" /\ id \notin cleared \cup approved
                    /\ lock' = h
                    /\ step' = [step EXCEPT ![h] = "asking"]
                    /\ work' = [work EXCEPT ![h] = [entry |-> e, id |-> id,
                                                    life |-> "none"]]
       ELSE UNCHANGED <<rows, lock, step, work>>
    /\ UNCHANGED <<stopped, world, troubles, history>>

Closing(h, life) ==
    /\ step' = [step EXCEPT ![h] = "closing"]
    /\ work' = [work EXCEPT ![h].life = life]

\* An error ends the action without a receipt.
Abandon(h) ==
    /\ step' = [step EXCEPT ![h] = "idle"]
    /\ work' = [work EXCEPT ![h] = NoWork] /\ lock' = NoHost

\* The user refuses, the turn is cancelled or 90 seconds have passed.
Decline(h) ==
    /\ step[h] = "asking"
    /\ \/ \E life \in {"rejected", "expired"} : Closing(h, life) /\ UNCHANGED lock
       \/ Abandon(h)
    /\ UNCHANGED <<rows, spent, stopped, world, troubles, history>>

\* Mutant: the dispatch is not written down before it is made.
ApproveUnsaved(h) ==
    LET id == work[h].id IN
    /\ step[h] = "asking" /\ ~stopped[h] /\ Verified(work[h].entry)
    /\ approved' = approved \cup {id} /\ step' = [step EXCEPT ![h] = "dispatching"]
    /\ UNCHANGED <<rows, lock, spent, stopped, work, world, troubles,
                   dispatched, cleared, acted>>

\* Approval in time: the target is verified again, and the dispatch is on
\* record before it is made.
Approve(h) ==
    LET id == work[h].id IN
    /\ step[h] = "asking" /\ ~stopped[h]
    /\ approved' = approved \cup {id}
    /\ IF Verified(work[h].entry) /\ CanSave(rows, id)
       THEN \/ /\ rows' = [rows EXCEPT ![id].life = "dispatching"]
               /\ step' = [step EXCEPT ![h] = "dispatching"] /\ Calm
               /\ UNCHANGED <<lock, work>>
            \/ Trouble /\ Abandon(h) /\ UNCHANGED rows
       ELSE Abandon(h) /\ Calm /\ UNCHANGED rows
    /\ UNCHANGED <<spent, stopped, world, dispatched, cleared, acted>>

Effect(h) ==
    /\ dispatched' = dispatched \cup {work[h].id}
    /\ acted' = [acted EXCEPT ![h] = @ + 1]
NoEffect == UNCHANGED <<dispatched, acted>>

\* launch: link and program stay pinned from the check to CreateProcess.
Launch(h) ==
    LET e == work[h].entry IN
    /\ step[h] = "dispatching" /\ e.target \in Launchers
    /\ \/ /\ ~stopped[h] /\ Pinned(e)
          /\ Effect(h) /\ Closing(h, "completed") /\ Calm
       \/ /\ IF stopped[h] \/ ~Pinned(e) THEN Calm ELSE Trouble
          /\ NoEffect /\ Closing(h, "failed_before_dispatch")
    /\ UNCHANGED <<rows, lock, spent, stopped, world, approved, cleared>>

\* terminate: one handle for the creation time, the identity and the call;
\* a process that does not exit in three seconds is pending.
Terminate(h) ==
    LET e == work[h].entry
        same == incarnation[e.target] = e.seen
    IN
    /\ step[h] = "dispatching" /\ e.target \in Processes
    /\ \/ /\ same /\ e.target \in alive /\ ~stopped[h]
          /\ Effect(h) /\ Calm
          /\ \/ alive' = alive \ {e.target} /\ Closing(h, "completed")
             \/ UNCHANGED alive /\ Closing(h, "unknown")
       \/ /\ same /\ e.target \notin alive
          /\ NoEffect /\ Calm /\ UNCHANGED alive
          /\ Closing(h, "completed") \/ Closing(h, "failed_before_dispatch")
       \/ /\ IF ~same \/ stopped[h] THEN Calm ELSE Trouble
          /\ NoEffect /\ UNCHANGED alive /\ Closing(h, "failed_before_dispatch")
    /\ UNCHANGED <<rows, lock, spent, stopped, incarnation, approved, cleared>>

\* The receipt; when it cannot be saved the caller is told "unknown" and the
\* row stays as it was.
Close(h) ==
    LET id == work[h].id IN
    /\ step[h] = "closing" /\ Abandon(h)
    /\ \/ CanSave(rows, id) /\ rows' = [rows EXCEPT ![id].life = work[h].life] /\ Calm
       \/ (IF CanSave(rows, id) THEN Trouble ELSE Calm) /\ UNCHANGED rows
    /\ UNCHANGED <<spent, stopped, world, history>>

-----------------------------------------------------------------------------
(* Receipts, which the user manages. *)

OpenJournal(h) ==
    /\ step[h] = "idle" /\ lock = NoHost
    /\ rows' = Opened(rows, KindOf)
    /\ UNCHANGED <<lock, host, world, troubles, history>>

\* reconcile looks at the original process and replays nothing.
Reconcile(h, id) ==
    /\ step[h] = "idle" /\ lock = NoHost /\ Opened(rows, KindOf)[id].life # "none"
    /\ \/ rows' = [Opened(rows, KindOf) EXCEPT ![id].checked = TRUE] /\ Calm
       \/ Trouble /\ rows' = Opened(rows, KindOf)
    /\ UNCHANGED <<lock, host, world, history>>

ClearCompleted(h) ==
    LET journal == Opened(rows, KindOf) IN
    /\ step[h] = "idle" /\ lock = NoHost
    /\ rows' = [id \in Ids |-> Pruned("application", journal[id], TRUE)]
    /\ cleared' = cleared \cup {id \in Ids : rows[id].life \notin {"none"} /\ rows'[id].life = "none"}
    /\ UNCHANGED <<lock, host, world, troubles, dispatched, approved, acted>>

Crash(h) ==
    /\ Trouble
    /\ lock' = IF lock = h THEN NoHost ELSE lock
    /\ spent' = [spent EXCEPT ![h] = FALSE]
    /\ stopped' = [stopped EXCEPT ![h] = FALSE]
    /\ step' = [step EXCEPT ![h] = "idle"] /\ work' = [work EXCEPT ![h] = NoWork]
    /\ acted' = [acted EXCEPT ![h] = 0]
    /\ UNCHANGED <<rows, world, dispatched, approved, cleared>>

\* The entry is changed or the process number is used again, or the process
\* ends by itself; links and programs cannot change while they are pinned.
Change(t) ==
    /\ Trouble
    /\ \/ /\ incarnation' = [incarnation EXCEPT ![t] = @ + 1]
          /\ alive' = alive \cup ({t} \cap Processes)
       \/ t \in alive /\ alive' = alive \ {t} /\ UNCHANGED incarnation
    /\ UNCHANGED <<rows, lock, host, history>>

Turn(h) ==
    \/ BeginTurn(h) \/ Cancel(h) \/ BlockTurn(h)
    \/ \E t \in Targets, id \in Ids : \E e \in Offered(t) : Act(h, e, id)
    \/ Decline(h) \/ Approve(h) \/ Launch(h) \/ Terminate(h) \/ Close(h)

Manage(h) ==
    \/ OpenJournal(h) \/ ClearCompleted(h) \/ Crash(h)
    \/ \E id \in Ids : Reconcile(h, id)

Next ==
    \/ \E h \in Hosts : Turn(h) \/ Manage(h)
    \/ \E t \in Targets : Change(t)

Spec == Init /\ [][Next]_vars

-----------------------------------------------------------------------------
(* Properties *)

\* The journal accounts for every effect: an operation that has acted is on
\* record as under way, as unknown or as completed until its completed row
\* is cleared, whatever crashed or could not be saved in between; a row that
\* says nothing was dispatched tells the truth.
EffectsOnRecord ==
    \A id \in dispatched :
        rows[id].life \in {"dispatching", "unknown", "completed"} \/ id \in cleared

\* An application is only launched, and a process only terminated, when the
\* user approved that operation, as what it was when it was offered, once in
\* a turn, and never while an earlier effect is in doubt that nobody has
\* looked at.
ActedKnowingly ==
    \A id \in dispatched' \ dispatched : \E h \in Hosts :
       /\ work[h].id = id /\ id \in approved /\ acted[h] = 0
       /\ incarnation[work[h].entry.target] = work[h].entry.seen
       /\ \A other \in dispatched :
             \/ rows[other].life \in {"completed", "none"}
             \/ rows[other].checked
ActsOnceAndKnowingly == [][ActedKnowingly]_vars
=============================================================================
