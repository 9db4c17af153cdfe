--------------------------- MODULE ModelRequests ---------------------------
(***************************************************************************)
(* The token guard of one process: src/model/budget.rs, as the requests of *)
(* src/model/transport.rs and the connection check of                      *)
(* src/model/diagnostics.rs use it.  A request reserves what it may cost   *)
(* before it is sent; a report of the service replaces the reservation;    *)
(* without one, whatever went wrong, the reservation stays.  One request   *)
(* is under way at a time, since the desktop admits one and the command    *)
(* line is sequential.                                                     *)
(***************************************************************************)
EXTENDS Integers

CONSTANTS Limits,       \* the values run_tokens is set to
          DefaultLimit, \* run_tokens of Budget::default()
          Costs,        \* what a request may reserve
          MaxUsed       \* bounds the counters of a run

VARIABLES actual,       \* USAGE.actual_tokens
          uncertain,    \* USAGE.uncertain_reserved_tokens
          limit,        \* run_tokens of the configuration
          request,      \* the request under way: reserved, check, step
          billed,       \* what the service charged for, seen from outside
          covered       \* the largest limit a request was let through under

vars == <<actual, uncertain, limit, request, billed, covered>>

NoRequest == [step |-> "none", reserved |-> 0, check |-> FALSE]

TypeOK ==
  /\ {actual, uncertain, billed, covered} \subseteq Nat
  /\ limit \in Limits
  /\ request \in [step : {"none", "sent", "second", "last"}, reserved : Costs \union {0},
                  check : BOOLEAN]

Init ==
  /\ actual = 0 /\ uncertain = 0 /\ billed = 0 /\ covered = 0
  /\ limit \in Limits
  /\ request = NoRequest

(* The user saves other settings; the next dialogue gets the new budget. *)
Configure ==
  /\ request.step = "none"
  /\ limit' \in Limits \ {limit}
  /\ UNCHANGED <<actual, uncertain, request, billed, covered>>

(* A connection check makes a client of its own and leaves its budget at    *)
(* the default; a dialogue sets the configured one.                         *)
LimitFor(check) == IF check THEN DefaultLimit ELSE limit

(* budget::reserve, then the request is sent.  A refused request is not.    *)
Send(check, step) ==
  \E cost \in Costs :
    /\ actual + uncertain + cost <= LimitFor(check)
    /\ actual + uncertain + cost <= MaxUsed
    /\ uncertain' = uncertain + cost
    /\ covered' = IF LimitFor(check) > covered THEN LimitFor(check) ELSE covered
    /\ request' = [step |-> step, reserved |-> cost, check |-> check]
    /\ UNCHANGED <<actual, limit, billed>>

Begin == request.step = "none" /\ \E check \in BOOLEAN : Send(check, "sent")

(* check_client asks a second time after a fitting first answer. *)
BeginSecond == request.step = "second" /\ Send(TRUE, "last")

(* What the service charges: anything up to what was reserved, which counts *)
(* a token for every byte sent and the whole output.                        *)
Charged == 0 .. request.reserved

Done == request' = IF request.check /\ request.step = "sent"
                   THEN [request EXCEPT !.step = "second", !.reserved = 0]
                   ELSE NoRequest

\* Mutant: an answer without a report releases the reservation.
SettleAnyway(amount) ==
  /\ uncertain' = uncertain - request.reserved
  /\ actual' = actual + amount

(* budget::settle: a report of zero is no report. *)
Settle(amount) ==
  IF amount > 0
  THEN /\ uncertain' = uncertain - request.reserved
       /\ actual' = actual + amount
  ELSE UNCHANGED <<actual, uncertain>>

(* A usable answer, with a truthful report of its cost or without one. *)
Answer ==
  /\ request.step \in {"sent", "last"}
  /\ \E charge \in Charged :
       /\ billed' = billed + charge
       /\ \E report \in {0, charge} : Settle(report)
  /\ Done
  /\ UNCHANGED <<limit, covered>>

(* The time limit, an error of the service, an answer that cannot be used,  *)
(* a cancellation: nothing is settled, and the service may have charged.    *)
Fail ==
  /\ request.step \in {"sent", "last"}
  /\ \E charge \in Charged : billed' = billed + charge
  /\ request' = NoRequest
  /\ UNCHANGED <<actual, uncertain, limit, covered>>

(* The first answer of the check does not fit. *)
CheckEnds ==
  /\ request.step = "second"
  /\ request' = NoRequest
  /\ UNCHANGED <<actual, uncertain, limit, billed, covered>>

Next == Configure \/ Begin \/ BeginSecond \/ Answer \/ Fail \/ CheckEnds

Spec == Init /\ [][Next]_vars

(* The guard bounds what a run can cost although most of what it counts is  *)
(* uncertain: whatever failed, was cancelled or went unreported, the bill   *)
(* is within what the guard has counted, and that is within the largest     *)
(* limit a request was let through under ("Local process-run token guard;   *)
(* provider billing remains authoritative", src/model/budget.rs:1).         *)
BillIsCovered == billed <= actual + uncertain /\ actual + uncertain <= covered

(* What a request under way may still be charged is held back by the guard. *)
Outstanding ==
  request.step \in {"sent", "last"} =>
    /\ request.reserved <= uncertain
    /\ billed + request.reserved <= actual + uncertain

(* The inductive invariant. *)
Inductive == TypeOK /\ Outstanding /\ BillIsCovered
=============================================================================
