------------------------------- MODULE Session -------------------------------
(* The turn a request runs, which is extended, beside the mutexes that the  *)
(* commands of the same window take (k1 and k2 are the variables of         *)
(* BridgeLocks): the threads take those in steps of their own.              *)
EXTENDS TurnRuntime

CONSTANTS LockWorkers, Main, Nobody

ASSUME NobodyAssumption == Nobody \notin LockWorkers \cup {Main}

VARIABLES k1, k2

locks == <<k1, k2>>

Locks == INSTANCE BridgeLocks WITH
    Workers <- LockWorkers, Main <- Main, Nobody <- Nobody, todo <- k1, owner <- k2

\* BridgeLocks: no command of the desktop is stuck at a mutex for ever, and
\* nobody waits for the person with one.
NobodyWaitsInACircle == Locks!TypeOK /\ Locks!NobodyWaitsInACircle
=============================================================================
