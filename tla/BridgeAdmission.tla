---------------------------- MODULE BridgeAdmission ----------------------------
(***************************************************************************)
(* Who may act on the computer, and when: the desktop bridge's admission   *)
(* (desktop/src-tauri/src/bridge.rs) over RequestControl                   *)
(* (src/runtime/control.rs), with the one-time confirmations, the process  *)
(* catalog's own reservation and the deletion of sessions.                 *)
(*                                                                         *)
(* One action is one critical section.  The threads are a worker for each  *)
(* request, for each process command and for each deletion, and the main   *)
(* thread, which runs the synchronous commands (confirm, cancel, load,     *)
(* save, register) one after another.                                      *)
(*                                                                         *)
(* Bounds: MaxAsks confirmations in a request, MaxTokens process           *)
(* confirmations and MaxConfig versions of the configuration file.         *)
(***************************************************************************)
EXTENDS Naturals, FiniteSets

CONSTANTS
    Requests, Sessions,
    SessionOf,            \* the session each request belongs to
    NoRequest, NoConf,
    SessionCap,           \* sessions that may be registered (100 in the code)
    MaxAsks, MaxTokens, MaxConfig

ASSUME SessionOfAssumption == SessionOf \in [Requests -> Sessions]
ASSUME NoRequestAssumption == NoRequest \notin Requests
ASSUME NoConfAssumption == NoConf \notin Requests \X Nat
ASSUME BoundsAssumption ==
    /\ SessionCap \in Nat /\ MaxAsks \in Nat
    /\ MaxTokens \in Nat /\ MaxConfig \in Nat \ {0}

VARIABLES
    busy, cancelled,  \* RequestControl: the admission flag, the Cancellation
    pending,          \* RequestControl: the confirmation that may be answered
    answer,           \* confirmation -> what its channel carries
    expired,          \* confirmations past their deadline
    active,           \* Bridge.active: the request that owns the admission
    pc,               \* where each request's worker stands
    asks,             \* confirmations each request has asked for
    verdict,          \* what wait is about to return, per request
    maint,            \* the confirmations asked for a maintenance plan
    maintenance,      \* Bridge.maintenance_confirmation
    registered, deleting, contexts, configuration,  \* Bridge.sessions
    seen,             \* the configuration each request runs under
    config,           \* the configuration file
    durable,          \* the sessions in workspace.json
    deletion,         \* where each session's deletion stands
    main,             \* where the main thread stands
    loaded,           \* what load_workspace has read but not registered yet
    click,            \* the confirmation and answer confirm has in hand
    prep, res,        \* where process_action's prepare and resolve stand
    token, tokens,    \* the process catalog's pending confirmation, and a count
    local,            \* where settings or the overview stand
    consents,         \* history: confirmations the person agreed to as shown
    stopped,          \* history: requests cancelled before wait returned
    deleted           \* history: sessions deleted from workspace.json

control == <<busy, cancelled, pending, answer>>
request == <<pc, asks, verdict, maint, maintenance, seen>>
session == <<registered, deleting, contexts, configuration, durable, 
             deletion, deleted>>
process == <<prep, res, token, tokens>>
desk    == <<main, loaded, click>>
others  == <<desk, config, local, consents, stopped>>
outside == <<session, process, others>>
turn    == <<control, expired, active, request>>
vars == <<turn, outside>>

Confs == Requests \X (1 .. MaxAsks)
Asked(r) == <<r, asks[r]>>

\* The worker of a request holds the admission at these steps.
Admitted == {"reserved", "loaded", "running", "posting", "waiting", "closing",
             "unposting", "acting", "releasing"}

NoClick == [conf |-> NoConf, yes |-> FALSE]

TypeOK ==
    /\ busy \in BOOLEAN /\ cancelled \in BOOLEAN
    /\ pending \in Confs \cup {NoConf}
    /\ answer \in [Confs -> {"none", "yes", "no"}]
    /\ expired \in SUBSET Confs
    /\ active \in Requests \cup {NoRequest}
    /\ pc \in [Requests -> {"new", "done"} \cup Admitted]
    /\ asks \in [Requests -> 0 .. MaxAsks]
    /\ verdict \in [Requests -> BOOLEAN]
    /\ maint \in SUBSET Confs
    /\ maintenance \in Confs \cup {NoConf}
    /\ seen \in [Requests -> 0 .. MaxConfig]
    /\ {registered, deleting, contexts, durable, loaded, deleted} \subseteq SUBSET Sessions
    /\ configuration \in 0 .. MaxConfig /\ config \in 0 .. MaxConfig
    /\ deletion \in [Sessions -> {"idle", "waiting", "ending"}]
    /\ main \in {"idle", "cancelling", "loading", "confirming"}
    /\ click \in [conf : Confs \cup {NoConf}, yes : BOOLEAN]
    /\ prep \in {"idle", "reserved", "preparing", "ready", "refused", "failing"}
    /\ res \in {"idle", "resolving", "released"}
    /\ token \in 0 .. MaxTokens /\ tokens \in 0 .. MaxTokens
    /\ local \in {"idle", "working", "releasing"}
    /\ consents \in SUBSET Confs
    /\ stopped \in SUBSET Requests

\* The workspace has been loaded: what it holds is registered.
Init ==
    /\ busy = FALSE /\ cancelled = FALSE
    /\ pending = NoConf /\ answer = [c \in Confs |-> "none"] /\ expired = {}
    /\ active = NoRequest
    /\ pc = [r \in Requests |-> "new"]
    /\ asks = [r \in Requests |-> 0]
    /\ verdict = [r \in Requests |-> FALSE]
    /\ maint = {} /\ maintenance = NoConf
    /\ seen = [r \in Requests |-> 0]
    /\ durable \in SUBSET Sessions
    /\ registered = durable /\ deleting = {} /\ contexts = {}
    /\ configuration = 0 /\ config = 1
    /\ deletion = [s \in Sessions |-> "idle"]
    /\ main = "idle" /\ loaded = {} /\ click = NoClick
    /\ prep = "idle" /\ res = "idle" /\ token = 0 /\ tokens = 0
    /\ local = "idle"
    /\ consents = {} /\ stopped = {} /\ deleted = {}

-----------------------------------------------------------------------------
(* RequestControl. *)

Reserve ==
    /\ ~busy
    /\ busy' = TRUE /\ cancelled' = FALSE
    /\ UNCHANGED <<pending, answer>>

Free == busy' = FALSE /\ pending' = NoConf

\* cancel: the flag, and a "no" for whoever waits.
CancelControl ==
    /\ cancelled' = TRUE
    /\ pending' = NoConf
    /\ answer' = [c \in Confs |-> IF c = pending THEN "no" ELSE answer[c]]
    /\ stopped' = stopped \cup
                    {r \in Requests : /\ pc[r] \in Admitted \ {"releasing"}
                                      /\ ~(pc[r] = "unposting" /\ verdict[r])}
    /\ UNCHANGED busy

\* Mutant: any confirmation that waits takes the answer.
AnswerAnyId(c, yes) ==
    IF pending # NoConf /\ pending \notin expired /\ ~cancelled
      THEN /\ answer' = [answer EXCEPT ![pending] = IF yes THEN "yes" ELSE "no"]
           /\ pending' = NoConf
           /\ UNCHANGED <<busy, cancelled>>
      ELSE UNCHANGED control

\* answer: for the confirmation that waits, in time and not cancelled.
Answer(c, yes) ==
    IF pending = c /\ c \notin expired /\ ~cancelled
      THEN /\ answer' = [answer EXCEPT ![c] = IF yes THEN "yes" ELSE "no"]
           /\ pending' = NoConf
           /\ UNCHANGED <<busy, cancelled>>
      ELSE UNCHANGED control

\* Release, dropped at the end of a command: the owner goes, then the flag.
Release ==
    /\ active' = NoRequest
    /\ Free
    /\ UNCHANGED <<cancelled, answer>>

Goto(r, step) == pc' = [pc EXCEPT ![r] = step]

-----------------------------------------------------------------------------
(* The worker of a request: perform's reserve_for, then execute. *)

ReserveFor(r) ==
    /\ pc[r] = "new"
    /\ SessionOf[r] \in registered \ deleting
    /\ Reserve
    /\ active' = r
    /\ Goto(r, "reserved")
    /\ UNCHANGED <<expired, asks, verdict, maint, maintenance, seen, outside>>

LoadConfig(r) ==
    /\ pc[r] = "reserved"
    /\ seen' = [seen EXCEPT ![r] = config]
    /\ Goto(r, "loaded")
    /\ UNCHANGED <<control, expired, active, asks, verdict, maint, maintenance,
                   outside>>

\* A changed configuration drops every context; the session's own is taken
\* out of the map for as long as the request runs.
TakeContext(r) ==
    /\ pc[r] = "loaded"
    /\ configuration' = seen[r]
    /\ contexts' = IF configuration # seen[r] THEN {} ELSE contexts \ {SessionOf[r]}
    /\ Goto(r, "running")
    /\ UNCHANGED <<control, expired, active, asks, verdict, maint, maintenance,
                   seen, registered, deleting, durable, deletion, deleted, process,
                   others>>

\* control.confirmation; a maintenance plan is also put on maintenance_confirmation.
Ask(r, isMaint) ==
    /\ pc[r] = "running" /\ asks[r] < MaxAsks
    /\ ~cancelled /\ pending = NoConf
    /\ asks' = [asks EXCEPT ![r] = @ + 1]
    /\ pending' = <<r, asks[r] + 1>>
    /\ maint' = IF isMaint THEN maint \cup {<<r, asks[r] + 1>>} ELSE maint
    /\ Goto(r, IF isMaint THEN "posting" ELSE "waiting")
    /\ UNCHANGED <<busy, cancelled, answer, expired, active, verdict, maintenance,
                   seen, outside>>

Post(r) ==
    /\ pc[r] = "posting"
    /\ maintenance' = Asked(r)
    /\ Goto(r, "waiting")
    /\ UNCHANGED <<control, expired, active, asks, verdict, maint, seen, outside>>

\* Mutant: wait only ends with an answer or a cancellation.
DecideWithoutDeadline(r) ==
    /\ pc[r] = "waiting"
    /\ \/ /\ cancelled
          /\ verdict' = [verdict EXCEPT ![r] = FALSE]
       \/ /\ answer[Asked(r)] # "none"
          /\ verdict' = [verdict EXCEPT ![r] = (answer[Asked(r)] = "yes")]
    /\ Goto(r, "closing")
    /\ UNCHANGED <<control, expired, active, asks, maint, maintenance, seen,
                   outside>>

\* wait leaves its loop: cancelled, too late, or an answer came.
Decide(r) ==
    /\ pc[r] = "waiting"
    /\ \/ /\ cancelled \/ Asked(r) \in expired
          /\ verdict' = [verdict EXCEPT ![r] = FALSE]
       \/ /\ answer[Asked(r)] # "none"
          /\ verdict' = [verdict EXCEPT ![r] = (answer[Asked(r)] = "yes")]
    /\ Goto(r, "closing")
    /\ UNCHANGED <<control, expired, active, asks, maint, maintenance, seen,
                   outside>>

\* Mutant: wait returns the answer without looking at the flag again.
CloseUnchecked(r) ==
    LET c == Asked(r) IN
    /\ pc[r] = "closing"
    /\ pending' = IF pending = c THEN NoConf ELSE pending
    /\ Goto(r, IF c \in maint THEN "unposting"
               ELSE IF verdict[r] THEN "acting" ELSE "running")
    /\ UNCHANGED <<busy, cancelled, answer, expired, active, asks, verdict, maint,
                   maintenance, seen, outside>>

\* The end of wait: the confirmation is withdrawn, the flag read once more.
Close(r) ==
    LET c == Asked(r)
        approved == verdict[r] /\ ~cancelled
    IN
    /\ pc[r] = "closing"
    /\ pending' = IF pending = c THEN NoConf ELSE pending
    /\ verdict' = [verdict EXCEPT ![r] = approved]
    /\ Goto(r, IF c \in maint THEN "unposting"
               ELSE IF approved THEN "acting" ELSE "running")
    /\ UNCHANGED <<busy, cancelled, answer, expired, active, asks, maint,
                   maintenance, seen, outside>>

Unpost(r) ==
    /\ pc[r] = "unposting"
    /\ maintenance' = NoConf
    /\ Goto(r, IF verdict[r] THEN "acting" ELSE "running")
    /\ UNCHANGED <<control, expired, active, asks, verdict, maint, seen, outside>>

ActEnds(r) ==
    /\ pc[r] = "acting"
    /\ Goto(r, "running")
    /\ UNCHANGED <<control, expired, active, asks, verdict, maint, maintenance,
                   seen, outside>>

\* session.execute is over: its context goes back into the map.
PutContext(r) ==
    /\ pc[r] = "running"
    /\ contexts' = contexts \cup {SessionOf[r]}
    /\ Goto(r, "releasing")
    /\ UNCHANGED <<control, expired, active, asks, verdict, maint, maintenance,
                   seen, registered, deleting, configuration, durable, deletion,
                   deleted, process, others>>

\* execute returns early: bad input, no configuration, no session, no runtime.
Fail(r) ==
    /\ pc[r] \in {"reserved", "loaded", "running"}
    /\ Goto(r, "releasing")
    /\ UNCHANGED <<control, expired, active, asks, verdict, maint, maintenance,
                   seen, outside>>

\* send finds the channel to the page closed and cancels.
HangUp(r) ==
    /\ pc[r] \in {"running", "waiting"} /\ ~cancelled
    /\ CancelControl
    /\ UNCHANGED <<expired, active, request, session, process, desk, config, local,
                   consents>>

\* The request returns; its channels and what is noted of it are gone.
Drop(r) ==
    /\ pc[r] = "releasing"
    /\ active' = NoRequest
    /\ Free
    /\ Goto(r, "done")
    /\ answer' = [c \in Confs |-> IF c[1] = r THEN "none" ELSE answer[c]]
    /\ expired' = {c \in expired : c[1] # r}
    /\ consents' = {c \in consents : c[1] # r}
    /\ stopped' = stopped \ {r}
    /\ seen' = [seen EXCEPT ![r] = 0]
    /\ verdict' = [verdict EXCEPT ![r] = FALSE]
    /\ maint' = {c \in maint : c[1] # r}
    /\ UNCHANGED <<cancelled, asks, maintenance, session, process, desk, config,
                   local>>

\* Ninety seconds pass over a confirmation somebody waits for.
Expire(c) ==
    /\ c \notin expired
    /\ \E r \in Requests : pc[r] \in {"posting", "waiting"} /\ c = Asked(r)
    /\ expired' = expired \cup {c}
    /\ UNCHANGED <<control, active, request, outside>>

-----------------------------------------------------------------------------
(* Process commands: the admission stays reserved while the person decides. *)

ProcessesLocked == prep \in {"preparing", "ready", "refused"} \/ res # "idle"

PrepareReserve ==
    /\ prep = "idle" /\ tokens < MaxTokens
    /\ Reserve
    /\ prep' = "reserved"
    /\ UNCHANGED <<expired, active, request, session, res, token, tokens, others>>

PrepareLock ==
    /\ prep = "reserved" /\ ~ProcessesLocked
    /\ prep' = "preparing"
    /\ UNCHANGED <<turn, session, res, token, tokens, others>>

\* catalog.prepare may refuse; cancelled meanwhile, its confirmation goes.
Prepared(ok) ==
    /\ prep = "preparing"
    /\ tokens' = IF ok THEN tokens + 1 ELSE tokens
    /\ IF ok /\ ~cancelled
         THEN token' = tokens + 1 /\ prep' = "ready"
         ELSE UNCHANGED token /\ prep' = "refused"
    /\ UNCHANGED <<turn, session, res, others>>

\* The catalog's lock goes first.
PrepareEnds ==
    /\ prep \in {"ready", "refused"}
    /\ prep' = IF prep = "ready" THEN "idle" ELSE "failing"
    /\ UNCHANGED <<turn, session, res, token, tokens, others>>

PrepareFails ==
    /\ prep = "failing"
    /\ Free
    /\ prep' = "idle"
    /\ UNCHANGED <<cancelled, answer, expired, active, request, session, res, token,
                   tokens, others>>

\* The answer to the catalog's pending confirmation; any other is refused.
Resolve ==
    /\ res = "idle" /\ ~ProcessesLocked
    /\ token # 0
    /\ token' = 0
    /\ res' = "resolving"
    /\ UNCHANGED <<turn, session, prep, tokens, others>>

\* Release is dropped before the catalog's lock.
ResolveRelease ==
    /\ res = "resolving"
    /\ Release
    /\ res' = "released"
    /\ UNCHANGED <<expired, request, session, prep, token, tokens, others>>

ResolveUnlock ==
    /\ res = "released"
    /\ res' = "idle"
    /\ UNCHANGED <<turn, session, prep, token, tokens, others>>

-----------------------------------------------------------------------------
(* Settings, the index policy, the overview: reserve, work, release. *)

LocalReserve ==
    /\ local = "idle"
    /\ Reserve
    /\ local' = "working"
    /\ UNCHANGED <<expired, active, request, session, process, desk, config,
                   consents, stopped>>

\* Saved settings (or a changed index policy) drop every context.
SaveSettings(next) ==
    /\ local = "working" /\ next \in {config, config + 1} /\ next <= MaxConfig
    /\ config' = next
    /\ contexts' = {}
    /\ local' = "releasing"
    /\ UNCHANGED <<turn, registered, deleting, configuration, durable, deletion,
                   deleted, process, desk, consents, stopped>>

\* The overview starts a new process catalog.
Overview ==
    /\ local = "working" /\ ~ProcessesLocked
    /\ token' = 0
    /\ local' = "releasing"
    /\ UNCHANGED <<turn, session, prep, res, tokens, desk, config, consents,
                   stopped>>

LocalEnds ==
    /\ local \in {"working", "releasing"}
    /\ Release
    /\ local' = "idle"
    /\ UNCHANGED <<expired, request, session, process, desk, config, consents,
                   stopped>>

\* The configuration file changes outside the desktop.
ExternalConfig ==
    /\ config < MaxConfig
    /\ config' = config + 1
    /\ UNCHANGED <<turn, session, process, desk, local, consents, stopped>>

-----------------------------------------------------------------------------
(* The main thread. *)

\* A confirmation the page has shown.
Shown(c) == \/ c[2] < asks[c[1]]
            \/ c[2] = asks[c[1]] /\ pc[c[1]] # "posting"

\* Mutant: an answer is taken whatever the configuration is now.
BoundAnyConfig(c, yes) ==
    IF active # c[1] THEN UNCHANGED <<control, stopped>>
    ELSE Answer(c, yes) /\ UNCHANGED stopped

\* confirm_bound: for the request that is active, under the configuration it
\* started with; a changed one cancels it.  Nobody else reads the file while
\* confirm_bound owns active, so the answer counts as given when it is read.
Bound(c, yes) ==
    IF active # c[1] THEN UNCHANGED <<control, stopped>>
    ELSE IF configuration # config THEN CancelControl
    ELSE Answer(c, yes) /\ UNCHANGED stopped

\* The person clicks in a dialog, which may be a late one.
Click(c, yes) ==
    /\ main = "idle" /\ Shown(c)
    /\ consents' = IF yes /\ pc[c[1]] # "done" THEN consents \cup {c} ELSE consents

\* confirm is not for a maintenance plan: it looks, lets go of the lock, and
\* only then is the answer bound.
Confirm(c, yes) ==
    /\ Click(c, yes) /\ c \notin maint
    /\ maintenance # c
    /\ main' = "confirming" /\ click' = [conf |-> c, yes |-> yes]
    /\ UNCHANGED <<turn, session, process, config, local, loaded, stopped>>

\* A maintenance dialog answered through confirm shows no agreement digest;
\* it is no consent.
ConfirmPlain(c, yes) ==
    /\ main = "idle" /\ Shown(c) /\ c \in maint
    /\ maintenance # c
    /\ main' = "confirming" /\ click' = [conf |-> c, yes |-> yes]
    /\ UNCHANGED <<turn, session, process, config, local, loaded, consents,
                   stopped>>

ConfirmBound ==
    /\ main = "confirming"
    /\ Bound(click.conf, click.yes)
    /\ main' = "idle" /\ click' = NoClick
    /\ UNCHANGED <<expired, active, request, session, process, config, local,
                   loaded, consents>>

\* confirm_maintenance keeps the lock on the token it compares.
ConfirmMaintenance(c, yes) ==
    /\ Click(c, yes) /\ c \in maint
    /\ maintenance = c
    /\ Bound(c, yes)
    /\ UNCHANGED <<expired, active, request, session, process, desk, config, local>>

CancelFor(r) ==
    /\ main = "idle" /\ active = r /\ ~cancelled
    /\ CancelControl
    /\ UNCHANGED <<expired, active, request, session, process, desk, config, local,
                   consents>>

\* cancel without a request: the flag first,
CancelAny ==
    /\ main = "idle"
    /\ CancelControl
    /\ main' = "cancelling"
    /\ UNCHANGED <<expired, active, request, session, process, config, local,
                   loaded, click, consents>>

\* Mutant: cancel always frees the admission.
CancelFreesAlways ==
    /\ main = "cancelling"
    /\ main' = "idle"
    /\ token' = 0 /\ Free
    /\ UNCHANGED <<cancelled, answer, expired, active, request, session, prep, res,
                   tokens, config, local, loaded, click, consents, stopped>>

\* then the process catalog, if nobody has it.
CancelProcess ==
    /\ main = "cancelling"
    /\ main' = "idle"
    /\ IF ~ProcessesLocked /\ token # 0
         THEN token' = 0 /\ Free
         ELSE UNCHANGED <<token, busy, pending>>
    /\ UNCHANGED <<cancelled, answer, expired, active, request, session, prep, res,
                   tokens, config, local, loaded, click, consents, stopped>>

\* load_workspace reads under one lock and registers under another.
LoadRead ==
    /\ main = "idle"
    /\ loaded' = durable /\ main' = "loading"
    /\ UNCHANGED <<turn, session, process, config, local, click, consents, stopped>>

LoadRegister ==
    /\ main = "loading"
    /\ registered' = registered \cup loaded
    /\ loaded' = {} /\ main' = "idle"
    /\ UNCHANGED <<turn, deleting, contexts, configuration, durable, deletion,
                   deleted, process, config, local, click, consents, stopped>>

\* save_workspace, of whatever snapshot the page has.
SaveWorkspace(value) ==
    /\ main = "idle"
    /\ value \subseteq registered
    /\ durable' = value
    /\ UNCHANGED <<turn, registered, deleting, contexts, configuration, deletion,
                   deleted, process, others>>

\* A new session; the page never registers an id again.
Register(s) ==
    /\ main = "idle"
    /\ s \notin registered \cup durable \cup deleted
    /\ Cardinality(registered) < SessionCap
    /\ registered' = registered \cup {s}
    /\ UNCHANGED <<turn, deleting, contexts, configuration, durable, deletion,
                   deleted, process, others>>

-----------------------------------------------------------------------------
(* Deleting a session. *)

DeleteBegins(s) ==
    /\ deletion[s] = "idle"
    /\ s \in registered \ deleting
    /\ deleting' = deleting \cup {s}
    /\ deletion' = [deletion EXCEPT ![s] = "waiting"]
    /\ IF active # NoRequest /\ SessionOf[active] = s
         THEN CancelControl ELSE UNCHANGED <<control, stopped>>
    /\ UNCHANGED <<expired, active, request, registered, contexts, configuration,
                   durable, deleted, process, desk, config, local, consents>>

DeleteMove(s, step) == deletion' = [deletion EXCEPT ![s] = step]

\* No request is active: the workspace the call brought, first looked at here,
\* is saved without the session, then the session is taken off the table.
DeleteCommits(s, value) ==
    /\ deletion[s] = "waiting" /\ active = NoRequest
    /\ value \subseteq registered \ {s}
    /\ durable' = value
    /\ contexts' = contexts \ {s}
    /\ registered' = registered \ {s}
    /\ deleted' = deleted \cup {s}
    /\ DeleteMove(s, "ending")
    /\ UNCHANGED <<turn, deleting, configuration, process, others>>

\* Another request came first, ten seconds passed, the snapshot is stale or
\* the save fails.
DeleteRefused(s) ==
    /\ deletion[s] = "waiting"
    /\ DeleteMove(s, "ending")
    /\ UNCHANGED <<turn, registered, deleting, contexts, configuration, durable,
                   deleted, process, others>>

DeleteEnds(s) ==
    /\ deletion[s] = "ending"
    /\ deleting' = deleting \ {s}
    /\ DeleteMove(s, "idle")
    /\ UNCHANGED <<turn, registered, contexts, configuration, durable, deleted,
                   process, others>>

-----------------------------------------------------------------------------

Worker(r) ==
    \/ LoadConfig(r) \/ TakeContext(r) \/ Post(r) \/ Decide(r) \/ Close(r)
    \/ Unpost(r) \/ ActEnds(r) \/ PutContext(r) \/ Fail(r) \/ Drop(r)

Prepare ==
    \/ PrepareLock \/ PrepareEnds \/ PrepareFails
    \/ \E ok \in BOOLEAN : Prepared(ok)

MainThread ==
    \/ ConfirmBound \/ CancelProcess \/ LoadRegister

Deletion(s) ==
    \/ \E value \in SUBSET Sessions : DeleteCommits(s, value)
    \/ DeleteRefused(s) \/ DeleteEnds(s)

Page ==
    \/ \E r \in Requests : ReserveFor(r) \/ CancelFor(r)
    \/ \E c \in Confs, yes \in BOOLEAN :
          Confirm(c, yes) \/ ConfirmPlain(c, yes) \/ ConfirmMaintenance(c, yes)
    \/ CancelAny \/ PrepareReserve \/ Resolve \/ LocalReserve \/ LoadRead
    \/ \E value \in SUBSET Sessions : SaveWorkspace(value)
    \/ \E s \in Sessions : Register(s)
    \/ \E s \in Sessions : DeleteBegins(s)

Next ==
    \/ Page \/ MainThread \/ Prepare
    \/ ResolveRelease \/ ResolveUnlock
    \/ \E r \in Requests : Worker(r) \/ HangUp(r) \/ \E isMaint \in BOOLEAN : Ask(r, isMaint)
    \/ \E c \in Confs : Expire(c)
    \/ \E next \in 0 .. MaxConfig : SaveSettings(next)
    \/ Overview \/ LocalEnds \/ ExternalConfig
    \/ \E s \in Sessions : Deletion(s)

Spec == Init /\ [][Next]_vars

\* Every thread runs on, and deadlines pass.
Fairness ==
    /\ \A r \in Requests : WF_vars(Worker(r))
    /\ \A c \in Confs : WF_vars(Expire(c))

FairSpec == Spec /\ Fairness

-----------------------------------------------------------------------------
(* Properties. *)

Holders ==
    {r \in Requests : pc[r] \in Admitted}
    \cup (IF prep \in {"reserved", "preparing", "refused", "failing"}
            THEN {"prepare"} ELSE {})
    \cup (IF token # 0 THEN {"person"} ELSE {})
    \cup (IF res = "resolving" THEN {"resolve"} ELSE {})
    \cup (IF local # "idle" THEN {"local"} ELSE {})

\* The admission is neither leaked nor shared: it is taken exactly while one
\* command, or one process confirmation, answers for giving it back.  Deletion
\* strands nothing: the request that has it, a context and a saved session all
\* belong to a registered session.
AdmissionExact ==
    /\ TypeOK
    /\ Cardinality(Holders) <= 1
    /\ busy <=> Holders # {}
    /\ \A r \in Requests : pc[r] \in Admitted <=> active = r
    /\ active # NoRequest => SessionOf[active] \in registered
    /\ contexts \cup durable \subseteq registered

\* A request only acts on a confirmation the person agreed to as it was shown.
ActsOnConsent ==
    \A r \in Requests : pc[r] = "acting" => Asked(r) \in consents

\* A request that was cancelled before its answer was handed over never acts,
\* whatever the answer was.
CancelStops ==
    [][\A r \in stopped : pc'[r] = "acting" => pc[r] = "acting"]_vars

\* An answer counts only while the configuration is the one the request
\* started with.
AnsweredUnderOneConfig ==
    [][\A c \in Confs : answer'[c] = "yes" /\ answer[c] # "yes"
                          => config = seen[c[1]]]_vars

\* A request, once admitted, gives the admission back.
RequestsReturn ==
    \A r \in Requests : pc[r] \in Admitted ~> pc[r] = "done"

\* "a deleted or unregistered session cannot be saved again" (the refusal in
\* save_workspace, desktop/src-tauri/src/bridge.rs:106).
DeletedStaysDeleted == deleted \cap durable = {}
=============================================================================
