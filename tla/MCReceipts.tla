----------------------------- MODULE MCReceipts ------------------------------
(* A small instance of each component that keeps receipts.                   *)
EXTENDS Receipts, TLC

CONSTANTS a1, a2, b1, b2

\* The operations of the engine are alike, and so are those that move files
\* and the files they move.
Symmetry == Permutations(Ops) \cup Permutations({a1, a2}) \cup Permutations({b1, b2})
=============================================================================
