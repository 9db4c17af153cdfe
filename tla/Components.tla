------------------------------ MODULE Components ------------------------------
(* The components that share no state with each other, side by side: a       *)
(* behaviour starts in one part and stays there, so a run looks at all of    *)
(* them and at no product of their states.  The application actions are      *)
(* extended; only one part is ever at work, so the others all use the        *)
(* variables v1 .. v17.  The parts that ComponentsProofs proves something    *)
(* about take their parameters from here, the others are small instances.    *)
EXTENDS AppActions

CONSTANTS
    Desktops, Texts, Missing, Damaged, NoText,          \* WorkspaceFile
    Services, Marks, EnvKeySet, Env,                    \* ModelSettings
    Limits, DefaultLimit, Costs, MaxUsed,               \* ModelRequests
    Searches, MaxGenerations, MaxRequests, MaxRestarts, \* IndexWorker
    MaxBoundary, MaxTiers, MaxRetries, MaxCursors,
    Pipes, Rebuilds, Others, MaxSearches,               \* IndexPipe
    Guids, Serials, MaxCatalog, MaxWorkers, MaxEvents,  \* VolumeCatalog
    Refs, MaxEndpoints, MaxResolutions, MaxChanges,     \* EndpointProbes
    Volumes, Letters, Files, PageSize, Limit, MaxMoves, \* VolumeSearch
    NumPaths, Readable, MaxObjects, MaxMeddlings,       \* FileCandidates
    Slots, Interval, Budget, MaxStall, MaxDisturbances, \* ResourceSampling
    Observables, CacheFor, Renewed, Paged, Signatures,  \* Observations
    Matched, MaxRows,
    Life, MaxEntries, MaxBytes, CursorCap, MaxTime, MaxQueries,
    Directories, Documents, Existing, MaxVersion,       \* InventoryWatch
    QueueCap, BatchCap, MaxGen, MaxMishaps,
    Builds, MaxFaults,                                  \* ServiceInstall
    IndexDirs, IndexFiles, Root, Bin, PageRecords,      \* FileIndex
    MaxRecords, MaxJournals, MaxFailures,
    None

ASSUME HostsAssumption == NoHost \notin Hosts

\* None is no process and no call.
ASSUME NoneAssumption == None \notin Desktops \cup Searches \cup Rebuilds \cup Others

\* Tokens are counted.
ASSUME TokensAssumption == Limits \cup Costs \cup {DefaultLimit} \subseteq Nat

\* A pipe has more instances than there may be searches at once.
ASSUME PipesAssumption ==
    IsFiniteSet(Pipes) /\ MaxSearches \in Nat /\ MaxSearches < Cardinality(Pipes)

\* A volume may have been indexed before.
ASSUME WorkersAssumption ==
    /\ MaxGenerations \in Nat \ {0}
    /\ {MaxBoundary, MaxTiers, MaxRetries, MaxCursors} \subseteq Nat

ASSUME VolumesAssumption ==
    IsFiniteSet(Guids) /\ IsFiniteSet(Serials) /\ {MaxWorkers, MaxEvents} \subseteq Nat

ASSUME ProbesAssumption == {MaxEndpoints, MaxResolutions} \subseteq Nat

ASSUME SearchAssumption == {Limit, MaxMoves} \subseteq Nat

ASSUME TicksAssumption == {Slots, Interval, Budget, MaxStall} \subseteq Nat

\* An observation lives for a while, and a query selects finitely many rows.
ASSUME QueriesAssumption ==
    /\ Life \in Nat \ {0} /\ MaxRows \in Nat /\ Matched \in [Signatures -> Nat]
    /\ {CursorCap, MaxTime, MaxQueries} \subseteq Nat

ASSUME ThreadsAssumption ==
    /\ MaxVersion \in Nat \ {0} /\ QueueCap \in Nat \ {0} /\ BatchCap \in Nat
    /\ MaxGen \in Nat \ {0} /\ MaxMishaps \in Nat
    /\ Existing \subseteq Documents /\ Documents \cap {"rescan", "error"} = {}

ASSUME BuildsAssumption == None \notin Builds /\ MaxFaults \in Nat

\* The root of a volume and its excluded directory are none of the others.
ASSUME VolumeAssumption ==
    /\ IsFiniteSet(IndexDirs) /\ IndexDirs \cap IndexFiles = {}
    /\ {Root, Bin} \cap (IndexDirs \cup IndexFiles) = {} /\ Root # Bin
    /\ {PageRecords, MaxRecords, MaxJournals, MaxFailures} \subseteq Nat /\ MaxJournals >= 1

ASSUME PathsAssumption == {NumPaths, MaxObjects, MaxMeddlings} \subseteq Nat

VARIABLES part,     \* the component that runs
          v1, v2, v3, v4, v5, v6, v7, v8, v9, v10, v11, v12, v13, v14, v15,
          v16, v17

slots == <<v1, v2, v3, v4, v5, v6, v7, v8, v9, v10, v11, v12, v13, v14, v15,
           v16, v17>>
all == <<part, vars, slots>>

Candidates == INSTANCE FileCandidates WITH
    MaxTroubles <- MaxMeddlings,
    at <- v1, objects <- v2, byPath <- v3, search <- v4, found <- v5,
    results <- v6, programs <- v7, request <- v8, child <- v9, code <- v10,
    reply <- v11, stopped <- v12, troubles <- v13, effect <- v14

Workspace == INSTANCE WorkspaceFile WITH
    Nobody <- None, disk <- v1, lockHolder <- v2,
    process <- v3, loaded <- v4, expected <- v5, pending <- v6, slipped <- v7

Settings == INSTANCE ModelSettings WITH
    file <- v1, stored <- v2, desk <- v3, deskKeys <- v4,
    line <- v5, lineKeys <- v6, sent <- v7, slipped <- v8

Requests == INSTANCE ModelRequests WITH
    actual <- v1, uncertain <- v2, limit <- v3, request <- v4, billed <- v5,
    covered <- v6

Sampling == INSTANCE ResourceSampling WITH
    MaxTroubles <- MaxDisturbances,
    elapsed <- v1, slot <- v2, previous <- v3, late <- v4, resetNext <- v5,
    drift <- v6, points <- v7, base <- v8, last <- v9, status <- v10,
    troubles <- v11

Endpoints == INSTANCE EndpointProbes WITH
    MaxEntries <- MaxEndpoints, MaxWorkers <- MaxResolutions,
    MaxTroubles <- MaxChanges,
    entries <- v1, answer <- v2, hanging <- v3, batch <- v4, checks <- v5,
    target <- v6, layers <- v7, step <- v8, resolved <- v9, checked <- v10,
    cancelled <- v11, overrun <- v12, contacts <- v13, troubles <- v14

Observing == INSTANCE Observations WITH
    Kinds <- Observables, PageSize <- MaxRows,
    time <- v1, entries <- v2, cursors <- v3, answers <- v4, answer <- v5,
    whole <- v6

Search == INSTANCE VolumeSearch WITH
    MaxTroubles <- MaxMoves, NoVolume <- None,
    mounts <- v1, there <- v2, index <- v3, service <- v4, listing <- v5,
    step <- v6, expired <- v7, catalog <- v8, todo <- v9, mapping <- v10,
    candidates <- v11, looked <- v12, items <- v13, complete <- v14,
    more <- v15, asked <- v16, troubles <- v17

Worker == INSTANCE IndexWorker WITH
    disk <- v1, writer <- v2, state <- v3, control <- v4,
    cursors <- v5, search <- v6, told <- v7, answer <- v8, requests <- v9,
    restarts <- v10

Pipe == INSTANCE IndexPipe WITH
    Slots <- Pipes, NoCall <- None, NoAnswer <- NoText, inst <- v1,
    who <- v2, inbox <- v3, outbox <- v4, acked <- v5, serving <- v6,
    reply <- v7, step <- v8, got <- v9, active <- v10, taken <- v11,
    stop <- v12

Catalog == INSTANCE VolumeCatalog WITH
    attached <- v1, entries <- v2,
    threads <- v3, loop <- v4, failed <- v5, events <- v6

\* Instances of the modules of their proofs, so that ComponentsProofs can cite
\* what is proved there.
Install == INSTANCE ServiceInstallProofs WITH
    MaxTroubles <- MaxFaults,
    roots <- v1, payload <- v2, manifest <- v3, service <- v4, todo <- v5,
    troubles <- v6
Index == INSTANCE FileIndexProofs WITH
    Dirs <- IndexDirs, Files <- IndexFiles, PageSize <- PageRecords,
    MaxTroubles <- MaxFailures,
    names <- v1, born <- v2, journal <- v3, published <- v4, observed <- v5,
    work <- v6, troubles <- v7
Inventory == INSTANCE InventoryWatchProofs WITH
    Dirs <- Directories, Files <- Documents, Present <- Existing,
    MaxTroubles <- MaxMishaps,
    state <- v1, gen <- v2, token <- v3, snapshot <- v4, cancelled <- v5,
    closed <- v6, stored <- v7, db <- v8, used <- v9, pc <- v10,
    watcher <- v11, chan <- v12, job <- v13, disk <- v14, allowed <- v15,
    troubles <- v16, unremoved <- v17

(* The variables that a part leaves over. *)
rest15 == <<v15, v16, v17>>
rest13 == <<v13, v14, rest15>>
rest12 == <<v12, rest13>>
rest11 == <<v11, rest12>>
rest9 == <<v9, v10, rest11>>
rest8 == <<v8, rest9>>
rest7 == <<v7, rest8>>

Idle15 == v15 = 0 /\ v16 = 0 /\ v17 = 0
Idle13 == v13 = 0 /\ v14 = 0 /\ Idle15
Idle12 == v12 = 0 /\ Idle13
Idle11 == v11 = 0 /\ Idle12
Idle9 == v9 = 0 /\ v10 = 0 /\ Idle11
Idle8 == v8 = 0 /\ Idle9
Idle7 == v7 = 0 /\ Idle8
Idle1 == v1 = 0 /\ v2 = 0 /\ v3 = 0 /\ v4 = 0 /\ v5 = 0 /\ v6 = 0 /\ Idle7

AllInit ==
    /\ Init
    /\ \/ part = "apps" /\ Idle1
       \/ part = "files" /\ Candidates!Init /\ Idle15
       \/ part = "workspace" /\ Workspace!Init /\ Idle8
       \/ part = "settings" /\ Settings!Init /\ Idle9
       \/ part = "requests" /\ Requests!Init /\ Idle7
       \/ part = "sampling" /\ Sampling!Init /\ Idle12
       \/ part = "endpoints" /\ Endpoints!Init /\ Idle15
       \/ part = "observing" /\ Observing!Init /\ Idle7
       \/ part = "index" /\ Index!Init /\ Idle8
       \/ part = "install" /\ Install!Init /\ Idle7
       \/ part = "search" /\ Search!Init
       \/ part = "worker" /\ Worker!Init /\ Idle11
       \/ part = "pipe" /\ Pipe!Init /\ Idle13
       \/ part = "catalog" /\ Catalog!Init /\ Idle7
       \/ part = "inventory" /\ Inventory!Init

AllNext ==
    \/ part = "apps" /\ Next /\ UNCHANGED <<part, slots>>
    \/ part = "files" /\ Candidates!Next /\ UNCHANGED <<part, vars, rest15>>
    \/ part = "workspace" /\ Workspace!Next /\ UNCHANGED <<part, vars, rest8>>
    \/ part = "settings" /\ Settings!Next /\ UNCHANGED <<part, vars, rest9>>
    \/ part = "requests" /\ Requests!Next /\ UNCHANGED <<part, vars, rest7>>
    \/ part = "sampling" /\ Sampling!Next /\ UNCHANGED <<part, vars, rest12>>
    \/ part = "endpoints" /\ Endpoints!Next /\ UNCHANGED <<part, vars, rest15>>
    \/ part = "observing" /\ Observing!Next /\ UNCHANGED <<part, vars, rest7>>
    \/ part = "index" /\ Index!Next /\ UNCHANGED <<part, vars, rest8>>
    \/ part = "install" /\ Install!Next /\ UNCHANGED <<part, vars, rest7>>
    \/ part = "search" /\ Search!Next /\ UNCHANGED <<part, vars>>
    \/ part = "worker" /\ Worker!Next /\ UNCHANGED <<part, vars, rest11>>
    \/ part = "pipe" /\ Pipe!Next /\ UNCHANGED <<part, vars, rest13>>
    \/ part = "catalog" /\ Catalog!Next /\ UNCHANGED <<part, vars, rest7>>
    \/ part = "inventory" /\ Inventory!Next /\ UNCHANGED <<part, vars>>

AllSpec == AllInit /\ [][AllNext]_all

\* The inductive invariants of the parts that ComponentsProofs is about.
AllInductive ==
    /\ part = "files" => Candidates!Inductive
    /\ part = "workspace" => Workspace!Inductive
    /\ part = "settings" => Settings!Inductive
    /\ part = "requests" => Requests!Inductive
    /\ part = "sampling" => Sampling!Inductive
    /\ part = "observing" => Observing!Inductive
    /\ part = "search" => Search!Inductive
    /\ part = "worker" => Worker!Inductive
    /\ part = "endpoints" => Endpoints!Inductive
    /\ part = "pipe" => Pipe!Inductive
    /\ part = "catalog" => Catalog!Inductive

\* Every variable keeps its type, in every part, and what the proofs take for
\* an invariant is one; that of a part not listed here contains its types.
TypesOK ==
    /\ TypeOK /\ AllInductive
    /\ part = "files" => Candidates!TypeOK
    /\ part = "observing" => Observing!TypeOK
    /\ part = "index" => Index!TypeOK
    /\ part = "install" => Install!TypeOK
    /\ part = "worker" => Worker!TypeOK
    /\ part = "catalog" => Catalog!TypeOK
    /\ part = "inventory" => Inventory!TypeOK

\* FileCandidates: only the object that was shown under its path is opened.
OpensWhatWasShown ==
    [][part = "files" => Candidates!OpenedAsShown]_all

\* WorkspaceFile and ModelSettings: what a save writes over is what its
\* desktop, or its page, has seen.
NothingOverwrittenUnseen ==
    [][/\ part = "workspace" => Workspace!WritesOverSeen
       /\ part = "settings" => Settings!WritesOverShown]_all

\* ModelSettings: a key is sent to no service but its own.
KeysStayHome == part = "settings" => Settings!KeysStayHome

\* ModelRequests: the guard has counted at least what the bill can be.
BillIsCovered == part = "requests" => Requests!BillIsCovered

\* ResourceSampling: the means rest on measured time.
MeansAreMeasured == part = "sampling" => Sampling!MeansAreMeasured

\* EndpointProbes: what a person registered is contacted as it was registered.
ProbesAsConfirmed == part = "endpoints" => Endpoints!ProbesAsConfirmed

\* Observations: nothing that is answered is older than it may be.
NothingStaleAnswered == part = "observing" => Observing!NothingStaleAnswered

\* FileIndex and InventoryWatch: what the index does not know yet, the journal
\* will tell it; a directory that is said to be watched has a thread that will
\* see to what its snapshot does not know yet.
NothingPassedOver ==
    /\ part = "index" => Index!NothingPassedOver
    /\ part = "inventory" => Inventory!RunningHasThread

\* ServiceInstall: wherever an installer stopped, the next one can go on.
AlwaysRepairable == part = "install" => Install!AlwaysRepairable

\* VolumeSearch: a result shown as complete is all there is.
ToldTruly ==
    /\ part = "search" => Search!CompleteMeansAll
    /\ part = "files" => Candidates!HandoffTruthful

\* IndexWorker and IndexPipe: no answer comes from an index of the other choice,
\* or from two generations, and it reaches the client that asked.
AnswersUnderChoice ==
    /\ part = "worker" => Worker!AnswersUnderChoice
    /\ part = "pipe" => Pipe!AnswersReach

\* VolumeCatalog: no volume has two workers.
OneWorkerEach == part = "catalog" => Catalog!OneWorkerPerVolume

\* InventoryWatch, with two generations of threads at once: what was removed
\* stays removed.
GoneStaysGone == [][part = "inventory" => Inventory!StaysGone]_all
==============================================================================
