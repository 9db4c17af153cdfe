----------------------------- MODULE IndexWorker -----------------------------
(***************************************************************************)
(* The worker of one volume (src/file_index/worker/mod.rs): one writer      *)
(* thread keeps the index up (maintain), the threads of the pipes answer    *)
(* clients, who search it, have it rebuilt, or choose whether it holds      *)
(* system files (queue_policy; policy.rs keeps the choice over a restart).  *)
(* What one update does is FileIndex: here it ends, in one of the ways the  *)
(* writer tells apart.                                                      *)
(*                                                                         *)
(* Bounds: MaxGenerations publications, MaxRequests requests for a rebuild  *)
(* and searches' answers, MaxRestarts; MaxBoundary, MaxTiers and MaxRetries *)
(* stand for the 2, 3 and 6 of the code, MaxCursors for its 128.            *)
(***************************************************************************)
EXTENDS Naturals, FiniteSets

CONSTANTS Searches, MaxGenerations, MaxRequests, MaxRestarts, MaxBoundary, MaxTiers,
          MaxRetries, MaxCursors

VARIABLES
    disk,       \* the committed index and policy.json: [generation, policy, saved]
    writer,     \* the thread of maintain and its variables
    state,      \* Shared.state: what clients are told, without the wording of phases
    control,    \* Shared.rebuild
    cursors,    \* Shared.cursors: the generation each continues
    search,     \* each search under way
    told,       \* history: the policy the client was last told is accepted
    answer,     \* history: the last answer with results
    requests, restarts

vars == <<disk, writer, state, control, cursors, search, told, answer, requests, restarts>>

Policies == {"default", "all"}
NoSearch == [step |-> "none", generation |-> 0, policy |-> "none", from |-> 0]
NoAnswer == [policy |-> "none", generation |-> 0, from |-> 0, told |-> "any"]
NoControl == [pending |-> FALSE, running |-> FALSE, disabled |-> FALSE,
              policy |-> "none", recent |-> FALSE]
Load(saved) == IF saved = "none" THEN "default" ELSE saved
\* policy::save_checked: the file is replaced by a whole one, or not at all.
Saved(p) == [disk EXCEPT !.saved = p]

\* run_internal, and the first lines of maintain: a rebuild if nothing is
\* published, or if a saved choice differs from what is.
Begin(d) ==
    [step |-> "take", policy |-> Load(d.saved), blocked |-> FALSE, tier |-> 0,
     retries |-> 0, boundary |-> 0, outcome |-> "none",
     rebuild |-> d.generation = 0 \/ (d.policy # Load(d.saved) /\ d.saved # "none")]
Startup(d) ==
    [generation |-> d.generation, policy |-> d.policy, requested |-> Load(d.saved)]

\* A volume that was never indexed, or was before there were policies.
Init ==
    /\ disk \in [generation : {0}, policy : {"none"}, saved : {"none"}]
                \cup [generation : {1}, policy : {"none"}, saved : {"none"}]
    /\ writer = Begin(disk) /\ state = Startup(disk) /\ control = NoControl
    /\ cursors = {} /\ search = [s \in Searches |-> NoSearch]
    /\ told = "any" /\ answer = NoAnswer /\ requests = 0 /\ restarts = 0

-----------------------------------------------------------------------------
(* The writer: maintain_with_budget. *)

Clients == UNCHANGED <<cursors, search, told, answer, requests, restarts>>

\* Rebuild::take and what a request resets.
Take ==
    /\ writer.step = "take" /\ control.pending
    /\ control' = [control EXCEPT !.pending = FALSE, !.running = TRUE, !.policy = "none"]
    /\ writer' = [writer EXCEPT !.step = "update", !.rebuild = TRUE, !.blocked = FALSE,
                                !.tier = 0, !.retries = 0, !.boundary = 0,
                                !.policy = IF control.policy = "none" THEN @
                                           ELSE control.policy]
    /\ UNCHANGED <<disk, state>> /\ Clients
Continue ==
    /\ writer.step = "take" /\ ~control.pending /\ ~writer.blocked
    /\ writer' = [writer EXCEPT !.step = "update"]
    /\ UNCHANGED <<disk, state, control>> /\ Clients

\* source.prepare finds that its storage is not what it was: the thread ends.
LoseStorage ==
    /\ writer.step = "update" /\ writer' = [writer EXCEPT !.step = "ended"]
    /\ UNCHANGED <<disk, state, control>> /\ Clients

\* IndexStore::update ends: a generation, nothing new, or an error.
Ended(outcome) == writer' = [writer EXCEPT !.step = "report", !.outcome = outcome]
Committed ==
    /\ writer.step = "update" /\ disk.generation < MaxGenerations
    /\ writer.rebuild \/ disk.policy = writer.policy
    /\ disk' = [disk EXCEPT !.generation = @ + 1, !.policy = writer.policy]
    /\ Ended("ok") /\ UNCHANGED <<state, control>> /\ Clients
Idle ==
    /\ writer.step = "update" /\ ~writer.rebuild /\ disk.policy = writer.policy
    /\ Ended("ok") /\ UNCHANGED <<disk, state, control>> /\ Clients
Errors == {"boundary", "budget", "metadata", "rebuild_required"}
Failed(error) ==
    /\ writer.step = "update"
    /\ disk.policy # writer.policy /\ ~writer.rebuild => error = "rebuild_required"
    /\ error = "boundary" => disk.generation < MaxGenerations
    /\ Ended(error) /\ UNCHANGED <<disk, state, control>> /\ Clients

\* What is made of it.
Done == writer' = [writer EXCEPT !.step = "take", !.outcome = "none", !.rebuild = FALSE,
                                 !.retries = 0, !.boundary = 0]
Report ==
    /\ writer.step = "report" /\ writer.outcome = "ok" /\ Done
    /\ control' = [control EXCEPT !.running = FALSE]
    /\ state' = [state EXCEPT !.generation = disk.generation, !.policy = disk.policy]
    /\ UNCHANGED disk /\ Clients

MayRecover ==
    \/ writer.outcome = "boundary" /\ writer.boundary < MaxBoundary
    \/ writer.outcome = "budget" /\ writer.tier < MaxTiers
    \/ writer.outcome = "metadata" /\ writer.retries < MaxRetries
Recover ==
    /\ writer' = [writer EXCEPT
           !.step = "take", !.outcome = "none",
           !.rebuild = @ \/ writer.outcome = "boundary",
           !.boundary = IF writer.outcome = "boundary" /\ @ < MaxBoundary THEN @ + 1 ELSE @,
           !.tier = IF writer.outcome = "budget" THEN @ + 1 ELSE @,
           !.retries = IF writer.outcome = "metadata" THEN @ + 1 ELSE @]
    /\ UNCHANGED control
\* Mutant: the rebuild that is given up stays in progress.
BlockInProgress ==
    /\ writer' = [writer EXCEPT !.step = "take", !.outcome = "none", !.blocked = TRUE]
    /\ UNCHANGED control
Block ==
    /\ writer' = [writer EXCEPT !.step = "take", !.outcome = "none", !.blocked = TRUE]
    /\ control' = [control EXCEPT !.running = FALSE]
Trouble ==
    /\ writer.step = "report" /\ writer.outcome \in Errors
    /\ IF MayRecover THEN Recover ELSE Block
    /\ UNCHANGED <<disk, state>> /\ Clients

\* The main thread sees that the writer has ended.
Observe ==
    /\ writer.step = "ended" /\ ~control.disabled
    /\ control' = [control EXCEPT !.disabled = TRUE]
    /\ UNCHANGED <<disk, writer, state>> /\ Clients

-----------------------------------------------------------------------------
(* Requests for a rebuild. *)

Available == ~control.disabled /\ ~control.pending /\ ~control.running /\ ~control.recent
Asked == [control EXCEPT !.pending = TRUE, !.recent = TRUE]
Rebuild ==
    /\ Available /\ requests < MaxRequests /\ requests' = requests + 1
    /\ control' = Asked
    /\ UNCHANGED <<disk, writer, state, cursors, search, told, answer, restarts>>

\* queue_policy, under three locks: the choice is on the disk before it counts.
SetPolicy(p) ==
    /\ Available /\ requests < MaxRequests /\ requests' = requests + 1
    /\ disk' = Saved(p)
    /\ control' = [Asked EXCEPT !.policy = p]
    /\ cursors' = {} /\ told' = p
    /\ state' = [state EXCEPT !.requested = p]
    /\ UNCHANGED <<writer, search, answer, restarts>>

\* Thirty seconds.
Later ==
    /\ control.recent /\ control' = [control EXCEPT !.recent = FALSE]
    /\ UNCHANGED <<disk, writer, state>> /\ Clients

-----------------------------------------------------------------------------
(* A search: the policy first, the rows page by page, the policy again. *)

Service == UNCHANGED <<disk, writer, state, control, requests, restarts>>
Set(s, value) == search' = [search EXCEPT ![s] = value]

\* With a cursor, which is used up; each of its fields is checked.
Start(s, g) ==
    /\ search[s].step = "none"
    /\ g \in cursors \cup {0} /\ cursors' = cursors \ {g}
    /\ state.requested = state.policy /\ state.generation > 0
    /\ Set(s, [NoSearch EXCEPT !.step = "read", !.from = g, !.generation = g])
    /\ answer' = NoAnswer /\ UNCHANGED told /\ Service

\* IndexStore::search: a page of one generation, the one before it too.
SameGeneration(s) == search[s].generation \in {0, disk.generation}
Read(s) ==
    /\ search[s].step = "read"
    /\ IF SameGeneration(s)
       THEN \E next \in {"read", "more", "last"} :
                Set(s, [search[s] EXCEPT !.step = next, !.generation = disk.generation,
                                         !.policy = disk.policy])
       ELSE Set(s, NoSearch)
    /\ UNCHANGED <<cursors, told, answer>> /\ Service

\* A full page: what is left of it is kept under a cursor.
Keep(s) ==
    /\ search[s].step = "more"
    /\ IF Cardinality(cursors) < MaxCursors
       THEN /\ cursors' = cursors \cup {search[s].generation}
            /\ Set(s, [search[s] EXCEPT !.step = "last"])
       ELSE Set(s, NoSearch) /\ UNCHANGED cursors
    /\ UNCHANGED <<told, answer>> /\ Service

\* apply_search_snapshot.  Mutant: what was checked at the start is enough.
MatchesAnyway(s) == search[s].policy # "none"
Matches(s) == state.requested = search[s].policy
Answer(s) ==
    /\ search[s].step = "last" /\ Set(s, NoSearch)
    /\ answer' = IF Matches(s)
                 THEN [policy |-> search[s].policy, generation |-> search[s].generation,
                       from |-> search[s].from, told |-> told]
                 ELSE NoAnswer
    /\ UNCHANGED <<cursors, told>> /\ Service

\* The time of a request is up, or its cursor is older than thirty seconds.
GiveUp(s) ==
    /\ search[s].step # "none" /\ Set(s, NoSearch)
    /\ UNCHANGED <<cursors, told, answer>> /\ Service
Expire(g) ==
    /\ g \in cursors /\ cursors' = cursors \ {g}
    /\ UNCHANGED <<search, told, answer>> /\ Service

-----------------------------------------------------------------------------
\* The process ends anywhere and starts again, perhaps right after a choice was
\* saved and before the client was told.
Lost(p) ==
    /\ restarts < MaxRestarts /\ restarts' = restarts + 1
    /\ disk' = Saved(p)
    /\ p # disk.saved => Available /\ told' = "any"
    /\ p = disk.saved => UNCHANGED told
    /\ writer' = Begin(disk') /\ state' = Startup(disk') /\ control' = NoControl
    /\ cursors' = {} /\ search' = [s \in Searches |-> NoSearch]
    /\ UNCHANGED <<answer, requests>>
Restart == \E p \in Policies \cup {disk.saved} : Lost(p)

Writer ==
    \/ Take \/ Continue \/ Committed \/ Idle \/ Report \/ Trouble \/ Observe
    \/ \E error \in Errors : Failed(error)
Searching(s) ==
    \/ \E g \in 0 .. MaxGenerations : Start(s, g)
    \/ Read(s) \/ Keep(s) \/ Answer(s) \/ GiveUp(s)

Next ==
    \/ Writer \/ LoseStorage \/ Rebuild \/ Later \/ Restart
    \/ \E p \in Policies : SetPolicy(p)
    \/ \E s \in Searches : Searching(s)
    \/ \E g \in 1 .. MaxGenerations : Expire(g)

Spec == Init /\ [][Next]_vars

\* The writer's thread keeps running; an update ends, in time for a stop.
Fairness == WF_vars(Writer)
FairSpec == Spec /\ Fairness

-----------------------------------------------------------------------------
TypeOK ==
    /\ disk.generation \in 0 .. MaxGenerations /\ disk.policy \in Policies \cup {"none"}
    /\ disk.saved \in Policies \cup {"none"} /\ writer.policy \in Policies
    /\ writer.step \in {"take", "update", "report", "ended"}
    /\ writer.tier <= MaxTiers /\ writer.retries <= MaxRetries
    /\ writer.boundary <= MaxBoundary /\ Cardinality(cursors) <= MaxCursors
    /\ cursors \subseteq 1 .. MaxGenerations
    /\ \A s \in Searches : search[s].step \in {"none", "read", "more", "last"}

\* Once a client has been told that its choice of what is indexed is accepted,
\* no answer comes from an index of the other choice, also if the worker dies
\* in between; and the pages of one search come from one generation, also when
\* the writer publishes between two of them.
AnswersUnderChoice ==
    /\ answer.told \in {"any", answer.policy}
    /\ answer.from \in {0, answer.generation}

\* A rebuild that was accepted comes to an end, in a new generation or in a
\* writer that has given up: the retries of an update that keeps failing are
\* finite.
RebuildsEnd ==
    (control.pending \/ control.running)
    ~> (~(control.pending \/ control.running) \/ control.disabled)

\* What the client was told is on the disk, and is what answers are compared
\* with; a page is of the generation its search is of.
ChoiceKept ==
    /\ told = "any" \/ (told \in Policies /\ disk.saved = told /\ state.requested = told)
    /\ \A s \in Searches : search[s].from \in {0, search[s].generation}

Disks == [generation : Nat, policy : Policies \cup {"none"}, saved : Policies \cup {"none"}]
Writers == [step : {"take", "update", "report", "ended"}, policy : Policies,
            blocked : BOOLEAN, tier : Nat, retries : Nat, boundary : Nat,
            outcome : Errors \cup {"none", "ok"}, rebuild : BOOLEAN]
States == [generation : Nat, policy : Policies \cup {"none"}, requested : Policies]
Controls == [pending : BOOLEAN, running : BOOLEAN, disabled : BOOLEAN,
             policy : Policies \cup {"none"}, recent : BOOLEAN]
Rows == [step : {"none", "read", "more", "last"}, generation : Nat,
         policy : Policies \cup {"none"}, from : Nat]
Shapes ==
    /\ disk \in Disks /\ writer \in Writers /\ state \in States /\ control \in Controls
    /\ search \in [Searches -> Rows]

\* The inductive invariant.
Inductive == Shapes /\ ChoiceKept /\ AnswersUnderChoice
=============================================================================
