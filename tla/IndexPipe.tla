------------------------------ MODULE IndexPipe ------------------------------
(***************************************************************************)
(* How a request reaches the worker of a volume and its answer comes back: *)
(* the four instances of its pipe (src/file_index/worker/transport.rs),    *)
(* a thread for each (run_internal and serve_connection in                 *)
(* src/file_index/worker/mod.rs; the pipe of the service itself, in        *)
(* service/health.rs, is served the same way), and the clients             *)
(* (request_volume in service/mod.rs, src/search_index/windows.rs).        *)
(*                                                                         *)
(* Every call of a client has a fresh id and a deadline, so a client is a  *)
(* call here.  A deadline may pass at any time.  To cancel a search is to  *)
(* let it end, which it may at any time, so such a request is one of       *)
(* Others, with the status.  What a search answers is IndexWorker's.       *)
(***************************************************************************)
EXTENDS Naturals, FiniteSets

CONSTANTS
    Slots,          \* the instances of the pipe (four in the code)
    Searches, Rebuilds, Others, \* the calls there will be, by operation
    MaxSearches,    \* searches at once, fewer than instances (three in the code)
    NoCall, NoAnswer

VARIABLES
    inst,     \* each instance, as the system sees it
    who,      \* the call whose client is or was at its other end
    inbox,    \* what lies in it for the server
    outbox,   \* what lies in it for the client
    acked,    \* the instances with an acknowledgement in them
    serving,  \* where the thread of each instance is
    reply,    \* the answer it is about to send
    step,     \* where each call is
    got,      \* the answer its client has read
    active,   \* the searches under way
    taken,    \* the rebuilds the worker has accepted
    stop      \* the worker is told to stop

vars == <<inst, who, inbox, outbox, acked, serving, reply, step, got, active, taken, stop>>
pipe == <<inst, who, inbox, outbox, acked>>
worker == <<active, taken, stop>>

Calls == Searches \cup Rebuilds \cup Others
Answers == [of : Calls, what : {"ok", "cancelled", "accepted", "unavailable"}]

TypeOK ==
    /\ inst \in [Slots -> {"idle", "listening", "connected", "closed"}]
    /\ who \in [Slots -> Calls \cup {NoCall}]
    /\ inbox \in [Slots -> {"none", "part", "whole"}]
    /\ outbox \in [Slots -> Answers \cup {NoAnswer}]
    /\ acked \subseteq Slots
    /\ serving \in [Slots -> {"accept", "receive", "act", "search", "send",
                              "ack", "drop", "late", "ended"}]
    /\ reply \in [Slots -> Answers \cup {NoAnswer}]
    /\ step \in [Calls -> {"new", "connecting", "sending", "waiting", "acking",
                           "done", "failed"}]
    /\ got \in [Calls -> Answers \cup {NoAnswer}]
    /\ active \subseteq Searches /\ taken \subseteq Rebuilds /\ stop \in BOOLEAN

\* An instance listens from its creation on.
Init ==
    /\ inst = [s \in Slots |-> "listening"]
    /\ who = [s \in Slots |-> NoCall]
    /\ inbox = [s \in Slots |-> "none"]
    /\ outbox = [s \in Slots |-> NoAnswer]
    /\ acked = {}
    /\ serving = [s \in Slots |-> "accept"]
    /\ reply = [s \in Slots |-> NoAnswer]
    /\ step = [c \in Calls |-> "new"]
    /\ got = [c \in Calls |-> NoAnswer]
    /\ active = {} /\ taken = {} /\ stop = FALSE

-----------------------------------------------------------------------------
(* The client. *)

Goto(c, next) == step' = [step EXCEPT ![c] = next]

\* The client is done with an instance: its handle goes, what it wrote stays.
Close(c) == inst' = [s \in Slots |-> IF who[s] = c /\ inst[s] = "connected"
                                       THEN "closed" ELSE inst[s]]

\* The service has been asked first whether it is the one that is expected.
Begin(c) ==
    /\ step[c] = "new"
    /\ \E next \in {"connecting", "failed"} : Goto(c, next)
    /\ UNCHANGED <<pipe, serving, reply, got, worker>>

\* Any instance that listens may take the call; while none does, it waits.
Connect(c, s) ==
    /\ step[c] = "connecting" /\ inst[s] = "listening"
    /\ inst' = [inst EXCEPT ![s] = "connected"]
    /\ who' = [who EXCEPT ![s] = c]
    /\ Goto(c, "sending")
    /\ UNCHANGED <<inbox, outbox, acked, serving, reply, got, worker>>

\* The length and the request are written one after the other.
Write(c, s) ==
    /\ step[c] = "sending" /\ who[s] = c
    /\ IF inbox[s] = "none"
         THEN inbox' = [inbox EXCEPT ![s] = "part"] /\ UNCHANGED step
         ELSE inbox' = [inbox EXCEPT ![s] = "whole"] /\ Goto(c, "waiting")
    /\ UNCHANGED <<inst, who, outbox, acked, serving, reply, got, worker>>

Read(c, s) ==
    /\ step[c] = "waiting" /\ who[s] = c /\ outbox[s] # NoAnswer
    /\ got' = [got EXCEPT ![c] = outbox[s]]
    /\ outbox' = [outbox EXCEPT ![s] = NoAnswer]
    /\ Goto(c, IF outbox[s].of = c THEN "acking" ELSE "failed")
    /\ IF outbox[s].of = c THEN UNCHANGED inst ELSE Close(c)
    /\ UNCHANGED <<who, inbox, acked, serving, reply, worker>>

Acknowledge(c, s) ==
    /\ step[c] = "acking" /\ who[s] = c
    /\ acked' = acked \cup {s}
    /\ Close(c) /\ Goto(c, "done")
    /\ UNCHANGED <<who, inbox, outbox, serving, reply, got, worker>>

\* Its deadline passes, somebody cancels it, the server is not the one that
\* was expected, or the server has hung up.
Abandon(c) ==
    /\ step[c] \in {"connecting", "sending", "waiting", "acking"}
    /\ Close(c) /\ Goto(c, "failed")
    /\ UNCHANGED <<who, inbox, outbox, acked, serving, reply, got, worker>>

-----------------------------------------------------------------------------
(* The thread of an instance. *)

Serve(s, next) == serving' = [serving EXCEPT ![s] = next]
client == <<step, got>>

Emptied(s) ==
    /\ who' = [who EXCEPT ![s] = NoCall]
    /\ inbox' = [inbox EXCEPT ![s] = "none"]
    /\ outbox' = [outbox EXCEPT ![s] = NoAnswer]
    /\ acked' = acked \ {s}

\* DisconnectNamedPipe, and the end of the instance with its thread.
Disconnect(s) == inst' = [inst EXCEPT ![s] = "idle"] /\ Emptied(s)

\* ConnectNamedPipe on a disconnected instance makes it listen.  Whether it
\* calls that a success, which the code takes for a client, is the system's.
Listen(s) ==
    /\ serving[s] = "accept" /\ ~stop /\ inst[s] = "idle"
    /\ inst' = [inst EXCEPT ![s] = "listening"]
    /\ \E next \in {"accept", "receive"} : Serve(s, next)
    /\ UNCHANGED <<who, inbox, outbox, acked, reply, client, worker>>

Accept(s) ==
    /\ serving[s] = "accept" /\ ~stop /\ inst[s] = "connected"
    /\ Serve(s, "receive")
    /\ UNCHANGED <<pipe, reply, client, worker>>

\* The client came and went before it was looked at.
Missed(s) ==
    /\ serving[s] = "accept" /\ ~stop /\ inst[s] = "closed"
    /\ Disconnect(s)
    /\ UNCHANGED <<serving, reply, client, worker>>

\* Anything else ends this thread, and with it the worker.
AcceptFails(s) ==
    /\ serving[s] = "accept" /\ ~stop
    /\ stop' = TRUE
    /\ Disconnect(s) /\ Serve(s, "ended")
    /\ UNCHANGED <<reply, client, active, taken>>

Receive(s) ==
    /\ serving[s] = "receive" /\ inbox[s] = "whole"
    /\ inbox' = [inbox EXCEPT ![s] = "none"]
    /\ Serve(s, "act")
    /\ UNCHANGED <<inst, who, outbox, acked, reply, client, worker>>

\* There is no client after all, or it has gone before its request was whole.
ReadFails(s) ==
    /\ serving[s] = "receive"
    /\ \/ inst[s] = "listening"
       \/ inst[s] = "closed" /\ inbox[s] # "whole"
    /\ Serve(s, "drop")
    /\ UNCHANGED <<pipe, reply, client, worker>>

\* The caller or the request is not acceptable.
Refuse(s) ==
    /\ serving[s] = "act"
    /\ Serve(s, "drop")
    /\ UNCHANGED <<pipe, reply, client, worker>>

Reply(s, what) == reply' = [reply EXCEPT ![s] = [of |-> who[s], what |-> what]]

\* The status, or a cancellation.
Tell(s) ==
    /\ serving[s] = "act" /\ who[s] \in Others
    /\ Reply(s, "ok") /\ Serve(s, "send")
    /\ UNCHANGED <<pipe, client, worker>>

Rebuild(s) ==
    /\ serving[s] = "act" /\ who[s] \in Rebuilds
    /\ IF stop THEN Reply(s, "unavailable") /\ UNCHANGED taken
       ELSE \/ Reply(s, "accepted") /\ taken' = taken \cup {who[s]}
            \/ Reply(s, "unavailable") /\ UNCHANGED taken
    /\ Serve(s, "send")
    /\ UNCHANGED <<pipe, client, active, stop>>

\* One instance is left for other requests; a search too many has no answer.
StartSearch(s) ==
    /\ serving[s] = "act" /\ who[s] \in Searches
    /\ IF who[s] \notin active /\ Cardinality(active) < MaxSearches
         THEN active' = active \cup {who[s]} /\ Serve(s, "search")
         ELSE UNCHANGED active /\ Serve(s, "drop")
    /\ UNCHANGED <<pipe, reply, client, taken, stop>>

\* A search ends by itself, at its own deadline, or because it is cancelled.
EndSearch(s) ==
    /\ serving[s] = "search"
    /\ \E what \in {"ok", "cancelled"} : Reply(s, what)
    /\ active' = active \ {who[s]}
    /\ Serve(s, "send")
    /\ UNCHANGED <<pipe, client, taken, stop>>

Send(s) ==
    /\ serving[s] = "send"
    /\ IF inst[s] = "connected"
         THEN outbox' = [outbox EXCEPT ![s] = reply[s]] /\ Serve(s, "ack")
         ELSE UNCHANGED outbox /\ Serve(s, "drop")
    /\ reply' = [reply EXCEPT ![s] = NoAnswer]
    /\ UNCHANGED <<inst, who, inbox, acked, client, worker>>

\* The instance is kept until the client has read the answer, or has gone.
WaitAck(s) ==
    /\ serving[s] = "ack" /\ (s \in acked \/ inst[s] = "closed")
    /\ Serve(s, "drop")
    /\ UNCHANGED <<pipe, reply, client, worker>>

\* The time for the whole exchange is up.
Expire(s) ==
    /\ serving[s] \in {"receive", "send", "ack"}
    /\ Serve(s, "late")
    /\ reply' = [reply EXCEPT ![s] = NoAnswer]
    /\ UNCHANGED <<pipe, client, worker>>

Drop(s) ==
    /\ serving[s] \in {"drop", "late"}
    /\ Disconnect(s) /\ Serve(s, "accept")
    /\ UNCHANGED <<reply, client, worker>>

End(s) ==
    /\ serving[s] = "accept" /\ stop
    /\ Disconnect(s) /\ Serve(s, "ended")
    /\ UNCHANGED <<reply, client, worker>>

\* The service stops the worker.
Stop ==
    /\ ~stop /\ stop' = TRUE
    /\ UNCHANGED <<pipe, serving, reply, client, active, taken>>

-----------------------------------------------------------------------------
Client(c) ==
    \/ Abandon(c)
    \/ \E s \in Slots : Connect(c, s) \/ Write(c, s) \/ Read(c, s) \/ Acknowledge(c, s)

Listener(s) ==
    \/ Listen(s) \/ Accept(s) \/ Missed(s) \/ Receive(s) \/ ReadFails(s) \/ Refuse(s)
    \/ Tell(s) \/ Rebuild(s) \/ StartSearch(s) \/ EndSearch(s) \/ Send(s)
    \/ WaitAck(s) \/ Expire(s) \/ Drop(s) \/ End(s)

Next ==
    \/ \E c \in Calls : Begin(c) \/ Client(c)
    \/ \E s \in Slots : Listener(s) \/ AcceptFails(s)
    \/ Stop

\* Every wait of a listener polls a deadline.  So does a client that searches;
\* of the others nothing is assumed, as they may hang.
Fairness ==
    /\ \A c \in Searches : WF_vars(Client(c))
    /\ \A s \in Slots : WF_vars(Listener(s))

Spec == Init /\ [][Next]_vars /\ Fairness

-----------------------------------------------------------------------------
\* The list of searches under way is what the threads are searching for,
\* however they end, and leaves an instance for another request.
ListExact ==
    /\ active = {who[s] : s \in {t \in Slots : serving[t] = "search"}}
    /\ \E s \in Slots : serving[s] # "search"

\* A client reads the answer to its own call, whoever used the instance
\* before, and a rebuild it is told of was accepted.
OwnAnswers ==
    \A c \in Calls : got[c] # NoAnswer =>
        got[c].of = c /\ (got[c].what = "accepted" => c \in taken)

\* A client that waits is not hung up on with its answer on the way, unless
\* the time of the exchange was up.
AnswersKept ==
    \A s \in Slots : serving[s] = "drop" /\ inst[s] = "connected" => outbox[s] = NoAnswer

AnswersReach == ListExact /\ OwnAnswers /\ AnswersKept

\* A search comes back to its caller, and every thread of a worker that is told
\* to stop ends: whoever holds an instance without a word is waited for until
\* the time of the exchange is up.
CallsEnd ==
    /\ \A c \in Searches : (step[c] = "connecting") ~> (step[c] \in {"done", "failed"})
    /\ stop ~> (\A s \in Slots : serving[s] = "ended")

\* From the request to the answer an instance belongs to one call.
ServesOne(s) ==
    /\ inst[s] \in {"idle", "listening"} =>
          /\ serving[s] \in {"accept", "receive", "drop", "late", "ended"}
          /\ who[s] = NoCall /\ inbox[s] = "none" /\ outbox[s] = NoAnswer
    /\ s \in acked => inst[s] = "closed"
    /\ reply[s] # NoAnswer =>
          /\ serving[s] = "send" /\ reply[s].of = who[s]
          /\ reply[s].what = "accepted" => reply[s].of \in taken
    /\ outbox[s] # NoAnswer =>
          /\ serving[s] \in {"ack", "late", "drop", "ended"} /\ outbox[s].of = who[s]
          /\ outbox[s].what = "accepted" => outbox[s].of \in taken

\* No call has two searches.
SearchesOnce ==
    \A s, t \in Slots :
        serving[s] = "search" /\ serving[t] = "search" /\ who[s] = who[t] => s = t

\* The inductive invariant.
Inductive ==
    /\ TypeOK /\ (\A s \in Slots : ServesOne(s)) /\ SearchesOnce /\ AnswersReach
=============================================================================
