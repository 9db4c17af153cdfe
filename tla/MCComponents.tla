----------------------------- MODULE MCComponents -----------------------------
(* A small instance of each component.                                       *)
EXTENDS Components, TLC

CONSTANTS a1, a2, b1, b2

\* Hosts, desktops, services, endpoints, volumes and the instances of a pipe
\* are alike, and so are receipts, texts, serial numbers and drive letters.
Symmetry == Permutations({a1, a2}) \cup Permutations({b1, b2})

\* An observation of applications and one of the computer is reused for two
\* ticks, one of processes never; query "a" selects two rows and "b" one.
Reuse == [k \in {"app_list", "process_list", "computer_profile"} |->
             IF k = "process_list" THEN 0 ELSE 2]
Selected == [s \in {"a", "b"} |-> IF s = "a" THEN 2 ELSE 1]

\* The journal of a volume is made anew or its index fails, not both.
OneInterruption == part = "index" => v3.id + v7 < 3
==============================================================================
