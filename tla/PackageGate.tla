------------------------------ MODULE PackageGate ------------------------------
(***************************************************************************)
(* What maintenance promises about one target (a package, or the resolver  *)
(* cache), whatever processes, journals and workers it is built from:      *)
(* an operation acquires the gate of its target once, acts on the machine  *)
(* at most once and only while it holds the gate, and the gate is released *)
(* only after the operation has stopped acting.  The promise is the single *)
(* dispatch that src/software/engine.rs states in its first line.          *)
(***************************************************************************)
CONSTANTS Ops, Targets, NoTarget   \* NoTarget is no element of Targets

VARIABLES
    target,   \* operation -> the target it acquired, NoTarget before
    held,     \* operations that hold their target's gate
    begun,    \* operations that started to act
    acting    \* operations acting now

vars == <<target, held, begun, acting>>

TypeOK ==
    /\ target \in [Ops -> Targets \cup {NoTarget}]
    /\ held \subseteq Ops
    /\ begun \subseteq Ops
    /\ acting \subseteq begun

Init ==
    /\ target = [op \in Ops |-> NoTarget]
    /\ held = {}
    /\ begun = {}
    /\ acting = {}

Acquire(op, t) ==
    /\ target[op] = NoTarget
    /\ \A other \in held : target[other] # t
    /\ target' = [target EXCEPT ![op] = t]
    /\ held' = held \cup {op}
    /\ UNCHANGED <<begun, acting>>

Begin(op) ==
    /\ op \in held \ begun
    /\ begun' = begun \cup {op}
    /\ acting' = acting \cup {op}
    /\ UNCHANGED <<target, held>>

\* Operations stop one by one, or together when the machine restarts.
End(stopped) ==
    /\ stopped \subseteq acting
    /\ acting' = acting \ stopped
    /\ UNCHANGED <<target, held, begun>>

Release(op) ==
    /\ op \in held \ acting
    /\ held' = held \ {op}
    /\ UNCHANGED <<target, begun, acting>>

Next ==
    \/ \E op \in Ops, t \in Targets : Acquire(op, t)
    \/ \E op \in Ops : Begin(op) \/ Release(op)
    \/ \E stopped \in SUBSET Ops : End(stopped)

Spec == Init /\ [][Next]_vars
=============================================================================
