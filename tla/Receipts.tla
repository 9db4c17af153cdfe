------------------------------- MODULE Receipts -------------------------------
(***************************************************************************)
(* The components that write down what they are about to do before they do *)
(* it, side by side: a behaviour starts in one part and stays there, so a  *)
(* run looks at all of them and at no product of their states.  The        *)
(* maintenance engine is extended; the others share the variables          *)
(* v1 .. v16, as only one of them is ever at work.                         *)
(*                                                                         *)
(* The second engine is an instance of the module of its proofs, so that    *)
(* ReceiptsProofs can cite what is proved there.                           *)
(***************************************************************************)
EXTENDS MaintenanceEngine

CONSTANTS
    MoveOps, MoveFiles, MaxMoveTroubles,                    \* MoveOperations
    FullBoots, FullCap,                                     \* the engine again
    Names, Files, MaxStartupOps, MaxStartupTroubles         \* StartupPlacement

ASSUME FullAssumption == {FullBoots, FullCap} \subseteq Nat \ {0}

\* A file is not the absence of one; there is something to disable.
ASSUME StartupAssumption ==
    Names # {} /\ Files # {} /\ NoHost \notin Files /\ MaxStartupOps \in Nat

VARIABLES part,      \* the component that runs
          v1, v2, v3, v4, v5, v6, v7, v8, v9, v10, v11, v12, v13, v14, v15, v16

slots == <<v1, v2, v3, v4, v5, v6, v7, v8, v9, v10, v11, v12, v13, v14, v15, v16>>
all == <<part, vars, slots>>

Moves == INSTANCE MoveOperations WITH
    Ops <- MoveOps, Files <- MoveFiles, NoOp <- NoOp,
    MaxTroubles <- MaxMoveTroubles, rows <- v1,
    mem <- v2, pc <- v3, cur <- v4, cancelled <- v5, place <- v6,
    version <- v7, squat <- v8, folder <- v9, parent <- v10, reads <- v11,
    troubles <- v12, moved <- v13, made <- v14, agreed <- v15, touched <- v16

\* The engine again, over a journal that may be full.
Full == INSTANCE MaintenanceEngineProofs WITH
    MaxBoot <- FullBoots, JournalCap <- FullCap, rows <- v1, lock <- v2, pc <- v3,
    call <- v4, result <- v5, idle <- v6, plan <- v7, worker <- v8,
    native <- v9, installed <- v10, boot <- v11, crashes <- v12,
    orphans <- v13, bootAt <- v14

Startup == INSTANCE StartupPlacement WITH
    Nobody <- NoHost, MaxOps <- MaxStartupOps, MaxTroubles <- MaxStartupTroubles,
    startup <- v1, retained <- v2, folder <- v3, rows <- v4, refs <- v5,
    step <- v6, work <- v7, current <- v8, troubles <- v9

(* The variables that a part leaves over. *)
rest15 == <<v15, v16>>
rest10 == <<v10, v11, v12, v13, v14, rest15>>
Idle15 == v15 = 0 /\ v16 = 0
Idle10 == v10 = 0 /\ v11 = 0 /\ v12 = 0 /\ v13 = 0 /\ v14 = 0 /\ Idle15
Idle1 == /\ v1 = 0 /\ v2 = 0 /\ v3 = 0 /\ v4 = 0 /\ v5 = 0 /\ v6 = 0
         /\ v7 = 0 /\ v8 = 0 /\ v9 = 0 /\ Idle10

AllInit ==
    /\ Init
    /\ \/ part = "engine" /\ Idle1
       \/ /\ installed = [p \in Packages |-> 0]
          /\ \/ part = "full" /\ Full!Init /\ Idle15
             \/ part = "moves" /\ Moves!Init
             \/ part = "startup" /\ Startup!Init /\ Idle10

AllNext ==
    \/ part = "engine" /\ Next /\ UNCHANGED <<part, slots>>
    \/ part = "full" /\ Full!Next /\ UNCHANGED <<part, vars, rest15>>
    \/ part = "moves" /\ Moves!Next /\ UNCHANGED <<part, vars>>
    \/ part = "startup" /\ Startup!Next /\ UNCHANGED <<part, vars, rest10>>

AllSpec == AllInit /\ [][AllNext]_all

\* MoveOperations: the journal tells the truth about what was renamed, and a
\* file is part of one operation at most whose outcome is open.
\* StartupPlacement: a receipt accounts for every shortcut that is kept.
\* MaintenanceEngine over a full journal: what acts is on record there too, in
\* a table that can still be read.
JournalTruthful ==
    /\ part = "moves" => Moves!TypeOK /\ Moves!JournalTruthful /\ Moves!OneInDoubt
    /\ part = "startup" => Startup!TypeOK /\ Startup!KeptIsOnRecord
    /\ part = "full" => Full!JournalReadable /\ Full!ActingIsOnRecord

\* MoveOperations: a file is only renamed as it was shown and agreed to.
MovesAsConfirmed ==
    [][part = "moves" => Moves!MoveConfirmed]_all
===============================================================================
