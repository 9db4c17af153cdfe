---------------------------- MODULE ActionJournal ----------------------------
(***************************************************************************)
(* The receipt journal that maintenance and application actions share      *)
(* (src/application_actions/journal.rs).  A journal is a function from     *)
(* operation ids to receipts; a receipt is a record with at least          *)
(*   life : its lifecycle, "none" when the table has no row for the id     *)
(*   aged : its created_at is more than seven days old                     *)
(* The owner of the file lock is a variable of the modules that use this   *)
(* one: only Journal::open's holder reads or writes the table.             *)
(***************************************************************************)
EXTENDS Naturals, FiniteSets

CONSTANT JournalCap   \* rows the table may hold (1024 in the code)

ASSUME JournalCapAssumption == JournalCap \in Nat \ {0}

\* The lifecycles that keep a gate closed until someone settles them.
Pending ==
    {"unknown", "dispatching", "dispatched", "awaiting_user", "awaiting_reboot"}

\* A call that was under way when its process ended.
Interrupted == {"dispatching", "dispatched"}

Held(j) == {op \in DOMAIN j : j[op].life # "none"}

\* Journal::save refuses a new id once the table is full.
CanSave(j, op) == op \in Held(j) \/ Cardinality(Held(j)) < JournalCap

\* What open does to one row it finds: nobody is dispatching any more.
Recovered(row) ==
    IF row.life \in Interrupted THEN [row EXCEPT !.life = "unknown"] ELSE row

\* Mutant: unsettled receipts expire like settled ones.
RetainedStartupOnly(kind, row) ==
    \/ kind = "startup_disable" /\ row.life = "verified"
    \/ row.life = "startup_checked_retained"

\* Journal::prune passes these over whatever their age.  kind is the
\* receipt's operation.
Retained(kind, row) ==
    \/ kind = "startup_disable" /\ row.life = "verified"
    \/ row.life = "startup_checked_retained"
    \/ row.life \in Pending

Pruned(kind, row, allCompleted) ==
    IF ~Retained(kind, row) /\ (allCompleted \/ row.aged)
      THEN [row EXCEPT !.life = "none"]
      ELSE row

\* Journal::open: recover every row, then prune(false).
Opened(j, kindOf) ==
    [op \in DOMAIN j |-> Pruned(kindOf[op], Recovered(j[op]), FALSE)]
=============================================================================
