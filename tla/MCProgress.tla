----------------------------- MODULE MCProgress ------------------------------
(* The components that promise to get somewhere, side by side: a behaviour  *)
(* starts in one part and stays there, while the others rest in their       *)
(* initial state.  The inventory is extended, the others are instances:     *)
(* e1 .. e14 are the variables of MaintenanceEngine, w1 .. w10 those of     *)
(* IndexWorker, c1 .. c6 those of VolumeCatalog.                            *)
EXTENDS InventoryWatch

CONSTANTS g1

VARIABLES part,      \* the component that runs
          e1, e2, e3, e4, e5, e6, e7, e8, e9, e10, e11, e12, e13, e14,
          w1, w2, w3, w4, w5, w6, w7, w8, w9, w10,
          c1, c2, c3, c4, c5, c6

engine == <<e1, e2, e3, e4, e5, e6, e7, e8, e9, e10, e11, e12, e13, e14>>
worker == <<w1, w2, w3, w4, w5, w6, w7, w8, w9, w10>>
catalog == <<c1, c2, c3, c4, c5, c6>>
all == <<part, vars, engine, worker, catalog>>

Engine == INSTANCE MaintenanceEngine WITH
    Hosts <- {"h1", "h2"}, Ops <- {"o1"}, Packages <- {"p1"}, MaxVersion <- 1,
    NoHost <- "no host", NoOp <- "no op", Resolver <- "resolver",
    MaxBoot <- 2, MaxCrashes <- 0, JournalCap <- 1,
    rows <- e1, lock <- e2, pc <- e3, call <- e4, result <- e5, idle <- e6,
    plan <- e7, worker <- e8, native <- e9, installed <- e10, boot <- e11,
    crashes <- e12, orphans <- e13, bootAt <- e14

Worker == INSTANCE IndexWorker WITH
    Searches <- {}, MaxGenerations <- 2, MaxRequests <- 2, MaxRestarts <- 1,
    MaxBoundary <- 1, MaxTiers <- 1, MaxRetries <- 1, MaxCursors <- 1,
    disk <- w1, writer <- w2, state <- w3, control <- w4, cursors <- w5,
    search <- w6, told <- w7, answer <- w8, requests <- w9, restarts <- w10

Catalog == INSTANCE VolumeCatalog WITH
    Guids <- {g1}, Serials <- {"s1", "s2"}, MaxCatalog <- 2,
    MaxWorkers <- 1, MaxEvents <- 4,
    attached <- c1, entries <- c2, threads <- c3, loop <- c4, failed <- c5,
    events <- c6

AllInit ==
    /\ part \in {"inventory", "engine", "worker", "catalog"}
    /\ Init /\ Engine!Init /\ Worker!Init /\ Catalog!Init
    /\ part # "engine" => e10["p1"] = 0
    /\ part # "worker" => w1.generation = 0
    /\ part # "catalog" => c1[g1] = "none"

AllNext ==
    \/ part = "inventory" /\ Next /\ UNCHANGED <<part, engine, worker, catalog>>
    \/ part = "engine" /\ Engine!Next /\ UNCHANGED <<part, vars, worker, catalog>>
    \/ part = "worker" /\ Worker!Next /\ UNCHANGED <<part, vars, engine, catalog>>
    \/ part = "catalog" /\ Catalog!Next /\ UNCHANGED <<part, vars, engine, worker>>

\* The fairness each component states for itself.
InventoryFair ==
    \A t \in Threads :
       /\ WF_vars(part = "inventory" /\ Run(t))
       /\ WF_vars(part = "inventory" /\ BackoffEnds(t))
       /\ WF_vars(part = "inventory" /\ PeriodPasses(t))
       /\ WF_vars(part = "inventory" /\ \E f \in Files : Deliver(t, f))
EngineFair ==
    \A h \in {"h1", "h2"} : WF_engine(part = "engine" /\ Engine!Call(h))
WorkerFair == WF_worker(part = "worker" /\ Worker!Writer)
CatalogFair ==
    /\ WF_catalog(part = "catalog" /\ Catalog!Loop)
    /\ SF_catalog(part = "catalog" /\ Catalog!Discover)
    /\ WF_catalog(part = "catalog" /\ Catalog!Join)
    /\ \A k \in Catalog!Keys :
          /\ WF_catalog(part = "catalog" /\ Catalog!Wait(k))
          /\ WF_catalog(part = "catalog" /\ Catalog!Open(k))
          /\ WF_catalog(part = "catalog" /\ Catalog!End(k))

AllSpec == /\ AllInit /\ [][AllNext]_all
           /\ InventoryFair /\ EngineFair /\ WorkerFair /\ CatalogFair

\* MaintenanceEngine: every call returns and gives the journal lock back.
CallsReturn == Engine!CallsReturn

\* IndexWorker: a rebuild that was accepted comes to an end.
RebuildsEnd == Worker!RebuildsEnd

\* VolumeCatalog: a volume that came to stay is served, and a stop is a stop.
ServedInTheEnd == Catalog!ServedInTheEnd
=============================================================================
