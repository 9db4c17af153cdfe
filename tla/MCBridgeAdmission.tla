--------------------------- MODULE MCBridgeAdmission ---------------------------
(* Small instances of BridgeAdmission for TLC. *)
EXTENDS BridgeAdmission, TLC

CONSTANT s1

\* Every request belongs to the same session.
OneSession == [r \in Requests |-> s1]

\* Requests have fresh ids.
Symmetry == Permutations(Requests)

\* One request asks twice, or a process confirmation is prepared: not both.
FewQuestions == Cardinality({r \in Requests : asks[r] > 1}) + tokens < 2
=============================================================================
