----------------------------- MODULE TurnRuntime -----------------------------
(***************************************************************************)
(* One session (src/session.rs, the chat of src/cli.rs): a turn of the     *)
(* dialogue (src/dialogue.rs) sends the messages to the model, serves each *)
(* tool call of its response through the runtime (src/runtime.rs), and     *)
(* goes on until an answer, the call limit, a cancellation or an error.    *)
(* Three flags say what the turn may still do, each set and read by other  *)
(* components.  What a tool asks the user is a step of its own.            *)
(*                                                                         *)
(* Bounds: ToolLimit stands for the 12 calls of a turn, MaxCalls for the   *)
(* calls of one response, MaxHistory messages for the 128 KiB of context;  *)
(* no more than MaxHistory + MaxCalls + 1 messages wait for a new turn.    *)
(***************************************************************************)
EXTENDS Naturals, Sequences, FiniteSets

CONSTANTS ToolLimit, MaxCalls, MaxHistory

ASSUME BoundsAssumption ==
    ToolLimit \in Nat \ {0} /\ MaxCalls \in Nat \ {0} /\ MaxHistory \in Nat

VARIABLES
    desktop, shared,   \* which surface; computer sharing is Enabled
    phase,     \* "ready", "requesting", "calling", "asking"
    calls,     \* tool calls of the response still to be served
    local,     \* the call is a local action of the user, not the model's
    used,      \* calls counted in this turn
    stopped,   \* the Cancellation
    blocked,   \* side_effects_blocked of the runtime
    appUsed,   \* Actions::used
    maintUsed, \* Store::used
    messages,  \* what the model is sent, after the system message
    asked      \* history: what this turn has asked, and what came of it

flags == <<blocked, appUsed, maintUsed>>
vars == <<desktop, shared, phase, calls, local, used, stopped, flags, messages, asked>>

\* file_open; file_move_batch; app_launch and process_terminate; app_close
\* and targets to close; the writes of the maintenance store; everything that
\* only reads; a name that is no tool.
Changing == {"open", "move", "app", "maint"}
Tools == Changing \cup {"close", "read", "bogus"}

\* The tools of the surface, by which the dialogue knows a name.
Known == IF desktop THEN Tools \ {"move", "bogus"} ELSE {"open", "move", "read"}

Message == [role : {"user", "note", "answer", "tool"}, calls : {0}]
           \cup [role : {"calls"}, calls : 1 .. MaxCalls]
Plain(role) == [role |-> role, calls |-> 0]

\* How a confirmed or refused change ends.  In "lost" the call of a move ends in
\* an error, after a refusal or with files that may have moved, because the
\* journal could not be written: there is no status to go by.
Outcomes == {"done", "no", "dialog failed", "stopped", "unknown", "lost"}

TypeOK ==
    /\ {desktop, shared, local, stopped, blocked, appUsed, maintUsed} \subseteq BOOLEAN
    /\ phase \in {"ready", "requesting", "calling", "asking"}
    /\ calls \in Seq(Tools) /\ used \in 0 .. ToolLimit + MaxCalls
    /\ messages \in Seq(Message) /\ Len(messages) <= MaxHistory + MaxCalls + 3
    /\ asked \in Seq([tool : Changing, outcome : Outcomes])

Init ==
    /\ desktop \in BOOLEAN /\ shared \in BOOLEAN
    /\ phase = "ready" /\ calls = <<>> /\ local = FALSE /\ used = 0
    /\ stopped = FALSE /\ blocked = FALSE /\ appUsed = FALSE /\ maintUsed = FALSE
    /\ messages = <<>> /\ asked = <<>>

Surface == UNCHANGED <<desktop, shared>>

-----------------------------------------------------------------------------
(* The turn begins and ends. *)

\* execute and turn, or the loop of chat: a new instruction allows anew.
Fresh ==
    /\ phase = "ready" /\ Len(messages) <= MaxHistory + MaxCalls + 1
    /\ blocked' = FALSE /\ appUsed' = FALSE /\ maintUsed' = FALSE
    /\ asked' = <<>> /\ used' = 0 /\ stopped' = FALSE

\* Say, after the references of earlier observations.
Say(note) ==
    /\ Fresh /\ phase' = "requesting" /\ local' = FALSE
    /\ note => desktop /\ shared
    /\ messages' = messages \o (IF note THEN <<Plain("note")>> ELSE <<>>)
                            \o <<Plain("user")>>
    /\ Surface /\ UNCHANGED calls

\* Open, Application, Maintenance and the shortcuts of the terminal.
Act(tool) ==
    /\ Fresh /\ phase' = "calling" /\ local' = TRUE /\ calls' = <<tool>>
    /\ tool \in Known
    /\ Surface /\ UNCHANGED messages

\* ExplainComputer and ExplainDiagnostic: one request without tools, of which
\* only an answer is kept, with the observation it is about.
Explain ==
    /\ Fresh /\ desktop /\ shared
    /\ messages' \in {messages \o <<Plain("note"), Plain("answer")>>, <<>>}
    /\ Surface /\ UNCHANGED <<phase, calls, local>>

Reset ==
    /\ phase = "ready" /\ messages # <<>> /\ messages' = <<>>
    /\ blocked' = FALSE /\ appUsed' = FALSE
    /\ Surface /\ UNCHANGED <<phase, calls, local, used, stopped, maintUsed, asked>>

\* Dialogue::observe_local, or the reply to the model's call.
Ended(role) ==
    /\ phase' = "ready" /\ calls' = <<>>
    /\ messages' = Append(messages, Plain(role))

\* The session forgets the dialogue after any error; the terminal does not.
Failed(context) ==
    /\ phase' = "ready" /\ calls' = <<>>
    /\ messages' = IF desktop THEN <<>> ELSE context

Cancel ==
    /\ phase # "ready" /\ ~stopped /\ stopped' = TRUE
    /\ Surface /\ UNCHANGED <<phase, calls, local, used, flags, messages, asked>>

-----------------------------------------------------------------------------
(* The model. *)

\* Mutant: the oldest messages are dropped, as many as it takes.
TrimmedByMessage ==
    {SubSeq(messages, i, Len(messages)) : i \in 1 .. Len(messages)}

\* trim: the context loses whole turns until it fits, which messages of any
\* size may at any length, and must past MaxHistory.
Trimmed ==
    {SubSeq(messages, i, Len(messages)) :
        i \in {1} \cup {j \in 2 .. Len(messages) : messages[j].role = "user"}}

Fits(context) == Len(context) <= MaxHistory

\* Mutant: a request that fails is made again.
RespondAgain ==
    /\ phase = "requesting"
    /\ \/ \E context \in Trimmed :
             /\ ~stopped /\ Fits(context) /\ phase' = "ready" /\ UNCHANGED calls
             /\ messages' = Append(context, Plain("answer"))
       \/ messages' \in Trimmed /\ UNCHANGED <<phase, calls>>
    /\ Surface /\ UNCHANGED <<local, used, stopped, flags, asked>>

\* A request succeeds with an answer or with calls, or it fails: the
\* transport, the budget, the cancellation or a context that cannot fit.
Respond ==
    /\ phase = "requesting"
    /\ \/ \E context \in Trimmed : \E n \in 1 .. MaxCalls :
             /\ ~stopped /\ Fits(context)
             /\ calls' \in [1 .. n -> Tools] /\ phase' = "calling"
             /\ messages' = Append(context, [role |-> "calls", calls |-> n])
       \/ \E context \in Trimmed :
             /\ ~stopped /\ Fits(context) /\ phase' = "ready" /\ UNCHANGED calls
             /\ messages' = Append(context, Plain("answer"))
       \/ \E context \in Trimmed : Failed(context)
    /\ Surface /\ UNCHANGED <<local, used, stopped, flags, asked>>

\* The reply of one call; after the last one the turn goes on, unless it is
\* cancelled or has used its calls.
Reply(count) ==
    LET rest == Tail(calls) replied == Append(messages, Plain("tool")) IN
    CASE local -> \/ Ended("note") \/ Failed(messages)
      [] ~local /\ rest # <<>> ->
            phase' = "calling" /\ calls' = rest /\ messages' = replied
      [] ~local /\ rest = <<>> /\ stopped ->
            Failed(replied)
      [] OTHER ->
            /\ phase' = IF count >= ToolLimit THEN "ready" ELSE "requesting"
            /\ calls' = <<>> /\ messages' = replied

-----------------------------------------------------------------------------
(* Runtime::call. *)

\* Unknown names count, too; calls past the limit are answered unserved.
Count(tool) ==
    IF local \/ (tool \in Known /\ used >= ToolLimit) THEN used ELSE used + 1

Served(tool) == tool \in Known /\ (local \/ used < ToolLimit) /\ ~stopped

\* Refused here, unknown, stopped, over the limit, or with arguments that do
\* not hold: a reply that changes nothing in the world.
Answered(tool) == used' = Count(tool) /\ Reply(Count(tool)) /\ UNCHANGED asked

Asks(tool) ==
    /\ phase' = "asking" /\ used' = Count(tool) /\ UNCHANGED <<calls, messages, asked>>

Unserved(tool) ==
    /\ ~Served(tool) /\ Answered(tool) /\ UNCHANGED flags

Read(tool) ==
    /\ Served(tool) /\ tool = "read" /\ Answered(tool) /\ UNCHANGED flags

\* No close is ever sent, and none is replaced by something else.
Close(tool) ==
    /\ Served(tool) /\ tool = "close" /\ Answered(tool)
    /\ blocked' = (blocked \/ ~local) /\ appUsed' = TRUE /\ UNCHANGED maintUsed

\* Mutant: only the flag of the files is looked at.
OpenWithoutTelling(tool) ==
    /\ Served(tool) /\ tool = "open"
    /\ UNCHANGED <<appUsed, maintUsed>> /\ UNCHANGED blocked
    /\ IF blocked THEN Answered(tool) ELSE Answered(tool) \/ Asks(tool)

\* A candidate is opened: applications and maintenance are done for the turn.
Open(tool) ==
    /\ Served(tool) /\ tool = "open"
    /\ maintUsed' = (maintUsed \/ desktop \/ ~blocked)
    /\ appUsed' = (appUsed \/ (desktop /\ ~blocked))
    /\ blocked' = (blocked /\ ~(local /\ desktop))
    /\ IF blocked' THEN Answered(tool) ELSE Answered(tool) \/ Asks(tool)

Move(tool) ==
    /\ Served(tool) /\ tool = "move"
    /\ IF blocked THEN Answered(tool) ELSE Answered(tool) \/ Asks(tool)
    /\ UNCHANGED flags

\* app_launch and process_terminate block the files first.
App(tool) ==
    /\ Served(tool) /\ tool = "app"
    /\ maintUsed' = TRUE /\ appUsed' = TRUE /\ blocked' = (blocked \/ ~local)
    /\ IF appUsed \/ (~local /\ ~shared) THEN Answered(tool)
                                         ELSE Answered(tool) \/ Asks(tool)

\* A maintenance write refuses when something was done, and blocks the rest.
Maintain(tool) ==
    /\ Served(tool) /\ tool = "maint"
    /\ blocked' = TRUE
    /\ appUsed' = (appUsed \/ ~blocked)
    /\ maintUsed' = (maintUsed \/ (~blocked /\ (local \/ shared)))
    /\ IF blocked \/ maintUsed \/ (~local /\ ~shared)
       THEN Answered(tool) ELSE Answered(tool) \/ Asks(tool)

Call ==
    /\ phase = "calling"
    /\ LET tool == Head(calls) IN
          \/ Unserved(tool) \/ Read(tool) \/ Close(tool)
          \/ Open(tool) \/ Move(tool) \/ App(tool) \/ Maintain(tool)
    /\ Surface /\ UNCHANGED <<local, stopped>>

-----------------------------------------------------------------------------
(* The question and what follows from it. *)

\* Whether the outcome of a question ends what files may do in this turn:
\* a refusal, an opener that failed, a move that is cancelled or unknown.
\* A move that ends in an error passes by.
Blocks(tool, outcome) ==
    \/ tool = "open" /\ outcome \in {"no", "unknown"}
    \/ tool = "move" /\ outcome \in {"no", "stopped", "unknown"}

\* open_using, operations::run, Actions::action and Engine::write.
Settle(outcome) ==
    LET tool == Head(calls) IN
    /\ phase = "asking"
    /\ outcome = "lost" => tool = "move"
    /\ stopped => outcome \notin {"done", "unknown"}
    /\ outcome = "stopped" => stopped
    /\ asked' = Append(asked, [tool |-> tool, outcome |-> outcome])
    /\ blocked' = (blocked \/ Blocks(tool, outcome))
    /\ Reply(used)
    /\ Surface /\ UNCHANGED <<local, used, stopped, appUsed, maintUsed>>

Next ==
    \/ \E note \in BOOLEAN : Say(note)
    \/ \E tool \in Tools : Act(tool)
    \/ Explain \/ Reset \/ Cancel \/ Respond \/ Call
    \/ \E outcome \in Outcomes : Settle(outcome)

\* The client has deadlines, and so has every question on the desktop.
Spec == Init /\ [][Next]_vars
Decided == desktop /\ \E outcome \in Outcomes : Settle(outcome)
Fairness == WF_vars(Respond) /\ WF_vars(Call) /\ WF_vars(Decided)
FairSpec == Spec /\ Fairness

-----------------------------------------------------------------------------
(* Properties *)

\* What was asked in one turn, by whatever tools the model tries in whatever
\* order: a launch, a termination or a maintenance write is the only question
\* of its turn, and after a refusal or an outcome that is not known nothing
\* is asked again, unless the journal could not record it.
OneChangePerTurn ==
    \A i, j \in DOMAIN asked : i < j =>
        /\ asked[i].tool \notin {"app", "maint"} /\ asked[j].tool \notin {"app", "maint"}
        /\ asked[i].outcome \notin {"no", "unknown"}

\* A model only accepts a conversation in which the calls of an assistant are
\* all answered, directly after it, every answer belongs to one, and the words
\* of the user are part of it.
WellFormed(context) ==
    /\ \A i \in DOMAIN context :
          /\ context[i].role = "calls" =>
                /\ i + context[i].calls <= Len(context)
                /\ \A k \in 1 .. context[i].calls : context[i + k].role = "tool"
          /\ context[i].role = "tool" =>
                \E k \in 1 .. MaxCalls :
                    i - k > 0 /\ context[i - k].role = "calls" /\ context[i - k].calls >= k
    /\ \E i \in DOMAIN context : context[i].role = "user"

\* Every request is such a conversation, after whatever trimming, cancellation
\* or error (dialogue.rs trims whole turns and answers every call of a turn).
RequestsWellFormed ==
    phase = "requesting" => \A context \in Trimmed : WellFormed(context)

\* Every turn of the desktop ends, whatever the model asks for.
TurnsEnd == desktop /\ phase # "ready" ~> phase = "ready"
=============================================================================
