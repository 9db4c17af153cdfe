------------------------- MODULE MCMaintenanceEngine -------------------------
(* Small instances of MaintenanceEngine for TLC. *)
EXTENDS MaintenanceEngine, TLC

\* Operations have fresh ids, and hosts are alike.
Symmetry == Permutations(Hosts) \cup Permutations(Ops)

\* A host crashes or the machine restarts, and not both.
OneInterruption == crashes + boot < 3
=============================================================================
