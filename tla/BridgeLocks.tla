----------------------------- MODULE BridgeLocks -----------------------------
(***************************************************************************)
(* In which order the commands of the desktop take the mutexes of the      *)
(* bridge (desktop/src-tauri/src/bridge.rs) and what they wait for while   *)
(* they hold them.  BridgeAdmission makes a critical section one step;     *)
(* here nothing else is left of a command.                                 *)
(*                                                                         *)
(* The main thread runs the synchronous commands one after another, a      *)
(* worker any of the others.  Whether a command is admitted is left out,   *)
(* so more of them meet than the code lets through; an early return gives  *)
(* back what it holds and takes fewer mutexes, in the same order.          *)
(***************************************************************************)
EXTENDS Naturals, Sequences

CONSTANTS Workers, Main, Nobody

Threads == Workers \cup {Main}

VARIABLES
    todo,     \* the steps each thread has still to take
    owner     \* who holds each mutex

vars == <<todo, owner>>

-----------------------------------------------------------------------------
(* A guard lives to the end of its scope. *)
With(mutex, scope) == <<[op |-> "lock", of |-> mutex]>> \o scope \o <<[op |-> "drop", of |-> mutex]>>
Touch(mutex) == With(mutex, <<>>)

\* cancel must not wait for a catalogue that is busy ending a process.
TryWith(mutex, scope) == <<[op |-> "try", of |-> mutex, skip |-> Len(scope) + 1]>>
                           \o scope \o <<[op |-> "drop", of |-> mutex]>>

\* wait, for an answer, a cancellation or the deadline of the confirmation.
Person == <<[op |-> "wait", of |-> "person"]>>

LoadWorkspace == Touch("workspace") \o Touch("sessions")
\* Mutant: the file is locked before the sessions are looked at.
SaveWorkspaceFirst == With("workspace", Touch("sessions"))

SaveWorkspace == With("sessions", Touch("workspace"))
Register == Touch("sessions")
Answer == With("active", Touch("sessions") \o Touch("control"))
Confirm == Touch("maintenance_confirmation") \o Answer
ConfirmMaintenance == With("maintenance_confirmation", Answer)
CancelFor == With("active", Touch("control"))
Cancel == Touch("control") \o TryWith("processes", Touch("control"))

Reserve == With("active", Touch("control"))
ReserveFor == With("active", With("sessions", Touch("control")))
Release == With("active", Touch("control"))

DeleteSession ==
    With("active", With("sessions", Touch("control"))) \o Touch("active")
      \o With("active", With("sessions", Touch("workspace"))) \o Touch("sessions")
InventoryCommand == With("configuration_gate", Touch("inventory"))
SetIndexPolicy == Reserve \o Touch("sessions") \o Release
Save ==
    Reserve \o With("sessions", With("configuration_gate",
                                    Touch("settings") \o Touch("inventory"))) \o Release
Overview ==
    Reserve \o Touch("applications") \o Touch("processes") \o Touch("applications")
      \o Touch("processes") \o Touch("overview") \o Release
Prepare == Reserve \o With("processes", Touch("control")) \o Touch("control")
\* The catalogue outlives the release of the admission.
Resolve == With("processes", Release)
ApplicationAction == Reserve \o Touch("applications") \o Release

\* A maintenance plan is shown and withdrawn around the wait for its answer.
Agreement ==
    Touch("control") \o Touch("maintenance_confirmation") \o Person \o Touch("control")
      \o Touch("maintenance_confirmation")
Execute ==
    ReserveFor \o Touch("overview") \o Touch("active") \o Touch("inventory")
      \o Touch("sessions") \o Agreement \o Touch("sessions") \o Release

\* The watcher of a directory scans one at a time and then publishes.
Watch == Touch("inventory") \o With("scanner", Touch("inventory")) \o Touch("inventory")

MainCommands == {LoadWorkspace, SaveWorkspace, Register, Confirm, ConfirmMaintenance,
                 CancelFor, Cancel}
WorkerCommands == {DeleteSession, InventoryCommand, SetIndexPolicy, Save, Overview,
                   Prepare, Resolve, ApplicationAction, Execute, Watch}

Mutexes == {"active", "sessions", "workspace", "maintenance_confirmation", "processes",
            "applications", "overview", "configuration_gate", "settings", "inventory", "scanner",
            "control"}

Init ==
    /\ todo = [t \in Threads |-> <<>>]
    /\ owner = [m \in Mutexes |-> Nobody]

-----------------------------------------------------------------------------
Start(t) ==
    /\ todo[t] = <<>>
    /\ \E c \in IF t = Main THEN MainCommands ELSE WorkerCommands :
          todo' = [todo EXCEPT ![t] = c]
    /\ UNCHANGED owner

Doing(t, op) == todo[t] # <<>> /\ Head(todo[t]).op = op
Mutex(t) == Head(todo[t]).of
Free(t) == owner[Mutex(t)] = Nobody
Owned(t) == [owner EXCEPT ![Mutex(t)] = t]

\* How many drops the steps begin with.
Drops(steps) ==
    CHOOSE k \in 0 .. Len(steps) :
        /\ \A i \in 1 .. k : steps[i].op = "drop"
        /\ k < Len(steps) => steps[k + 1].op # "drop"

\* To drop a mutex waits for nobody, so the drops that follow a step are taken
\* with it: which threads may come to wait for each other stays the same.
Past(t, n, owns) ==
    LET rest == SubSeq(todo[t], n + 1, Len(todo[t]))
        k == Drops(rest)
    IN  /\ todo' = [todo EXCEPT ![t] = SubSeq(rest, k + 1, Len(rest))]
        /\ owner' = [m \in Mutexes |-> IF \E i \in 1 .. k : rest[i].of = m
                                          THEN Nobody ELSE owns[m]]

Lock(t) == Doing(t, "lock") /\ Free(t) /\ Past(t, 1, Owned(t))

TryLock(t) ==
    /\ Doing(t, "try")
    /\ IF Free(t) THEN Past(t, 1, Owned(t)) ELSE Past(t, 1 + Head(todo[t]).skip, owner)

Heard(t) == Doing(t, "wait") /\ Past(t, 1, owner)

Next == \E t \in Threads : Start(t) \/ Lock(t) \/ TryLock(t) \/ Heard(t)

Spec == Init /\ [][Next]_vars

-----------------------------------------------------------------------------
TypeOK ==
    /\ owner \in [Mutexes -> Threads \cup {Nobody}]
    /\ \A m \in Mutexes : owner[m] # Nobody =>
          \E i \in DOMAIN todo[owner[m]] : todo[owner[m]][i] = [op |-> "drop", of |-> m]

\* The thread that u waits for.
Before(u) == IF Doing(u, "lock") THEN owner[Mutex(u)] ELSE Nobody

\* No threads of the desktop wait for each other's mutexes in a circle (a
\* mutex a thread holds itself is the smallest one), and none waits for the
\* person with a mutex that the person's answer has to take.
NobodyWaitsInACircle ==
    /\ ~\E T \in SUBSET Threads : T # {} /\ \A u \in T : Before(u) \in T
    /\ \A t \in Threads : Doing(t, "wait") => \A m \in Mutexes : owner[m] # t
=============================================================================
