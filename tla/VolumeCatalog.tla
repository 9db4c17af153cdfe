---------------------------- MODULE VolumeCatalog ----------------------------
(***************************************************************************)
(* The service that runs one worker for each local volume                   *)
(* (src/file_index/worker/service): every five seconds it looks which       *)
(* volumes there are (volumes.rs), and the catalog (recovery.rs) decides    *)
(* which workers to start and to stop; runtime.rs owns their threads.       *)
(* Volumes come, go, cannot be read for a while and are formatted, which    *)
(* gives them another serial number on the same GUID.                       *)
(*                                                                         *)
(* Bounds: MaxCatalog and MaxWorkers stand for 128 and 16, MaxEvents limits *)
(* what happens to the volumes and what fails.                              *)
(***************************************************************************)
EXTENDS Naturals, FiniteSets

CONSTANTS Guids, Serials, MaxCatalog, MaxWorkers, MaxEvents

VARIABLES
    attached,   \* what is behind each GUID: a serial, "unreadable" or "none"
    entries,    \* Catalog.entries: key -> entry, for the keys it knows
    threads,    \* the workers' threads the service holds: key -> their state
    loop,       \* the loop of work: the step it is at
    failed,     \* history: the keys whose worker failed for a lasting reason
    events

vars == <<attached, entries, threads, loop, failed, events>>

\* A key is a GUID with its serial, or the GUID alone if that cannot be read.
Keys == Guids \X (Serials \cup {"unreadable"})
Supported(k) == k[2] # "unreadable"
Thread == [step : {"opening", "ready", "working", "ended"}, stop : BOOLEAN,
           reason : {"stopped", "transient", "other"}]
Entry == [present : BOOLEAN, online : BOOLEAN, running : BOOLEAN, stopping : BOOLEAN,
          retry : {"never", "now", "later"}, pipe : BOOLEAN, started : BOOLEAN]
Opened == [step |-> "opening", stop |-> FALSE, reason |-> "other"]
Known == DOMAIN entries

Init ==
    /\ attached \in [Guids -> Serials \cup {"none"}]
    /\ entries = [k \in {} |-> 0] /\ threads = [k \in {} |-> 0]
    /\ loop = "discover" /\ failed = {} /\ events = 0

-----------------------------------------------------------------------------
(* Catalog::discover. *)

Found == {k \in Keys : attached[k[1]] = k[2]}

\* A volume that is gone: its worker is asked to stop.
Absent(e) == [e EXCEPT !.present = FALSE, !.online = FALSE, !.pipe = FALSE,
                       !.started = FALSE, !.stopping = @ \/ e.running]
\* Mutant: a volume that was away is taken for one that was always there.
SightedAsBefore(e, supported) ==
    [present |-> TRUE, online |-> supported, running |-> e.running,
     stopping |-> e.stopping \/ (~supported /\ e.running),
     pipe |-> supported /\ e.running /\ ~e.stopping, started |-> supported /\ e.started,
     retry |-> IF ~supported THEN "never" ELSE e.retry]
\* One that is there: it starts over if it was not, and is left alone if it was.
Sighted(e, supported) ==
    [present |-> TRUE, online |-> supported, running |-> e.running,
     stopping |-> e.stopping \/ (~supported /\ e.running),
     pipe |-> supported /\ e.running /\ ~e.stopping, started |-> supported /\ e.started,
     retry |-> IF ~supported THEN "never" ELSE IF e.online THEN e.retry ELSE "now"]
New(supported) ==
    [present |-> TRUE, online |-> supported, running |-> FALSE, stopping |-> FALSE,
     pipe |-> FALSE, started |-> FALSE, retry |-> IF supported THEN "now" ELSE "never"]

\* Mutant: a worker that still stops is forgotten with its volume.
MayEvictStopping(k) == k \notin Found
MayEvict(k) == k \notin Found /\ ~entries[k].running

\* The entries there is no room for, and the volumes.
Evictions ==
    LET needed == Cardinality(Found \ Known)
        over == IF Cardinality(Known) + needed > MaxCatalog
                THEN Cardinality(Known) + needed - MaxCatalog ELSE 0
        may == {k \in Known : MayEvict(k)}
    IN {v \in SUBSET may : Cardinality(v) = IF over < Cardinality(may) THEN over
                                            ELSE Cardinality(may)}
Additions(kept) ==
    LET room == IF MaxCatalog > Cardinality(kept) THEN MaxCatalog - Cardinality(kept) ELSE 0
        new == Found \ kept
    IN {a \in SUBSET new : Cardinality(a) = IF room < Cardinality(new) THEN room
                                            ELSE Cardinality(new)}
Discover ==
    /\ loop = "discover" /\ loop' = "workers"
    /\ \E victims \in Evictions : \E added \in Additions(Known \ victims) :
           entries' = [k \in (Known \ victims) \cup added |->
                          IF k \in added THEN New(Supported(k))
                          ELSE IF k \in Found THEN Sighted(entries[k], Supported(k))
                          ELSE Absent(entries[k])]
    /\ UNCHANGED <<attached, threads, events, failed>>

\* Discovery fails, or it is not its time yet: the catalog stays as it is.
NoDiscovery ==
    /\ loop = "discover" /\ loop' = "workers"
    /\ UNCHANGED <<attached, entries, threads, events, failed>>

-----------------------------------------------------------------------------
(* The rest of the loop: stop, hear of the ready ones, join the ended ones. *)

Ended(e, reason) ==
    [e EXCEPT !.running = FALSE, !.stopping = FALSE, !.pipe = FALSE, !.started = FALSE,
              !.retry = IF ~e.online THEN "never"
                        ELSE IF e.stopping THEN "now"
                        ELSE IF reason = "transient" THEN "later" ELSE "never"]
Ready(e) ==
    IF ~e.stopping /\ e.online THEN [e EXCEPT !.pipe = TRUE, !.started = TRUE] ELSE e
HasEnded(k) == threads[k].step = "ended"
Workers ==
    /\ loop = "workers" /\ loop' = "start"
    /\ entries' = [k \in Known |->
           IF k \notin DOMAIN threads THEN entries[k]
           ELSE IF HasEnded(k) THEN Ended(entries[k], threads[k].reason)
           ELSE IF threads[k].step = "ready" THEN Ready(entries[k])
           ELSE entries[k]]
    /\ threads' = [k \in {x \in DOMAIN threads : ~HasEnded(x)} |->
           [threads[k] EXCEPT !.stop = @ \/ entries[k].stopping,
                              !.step = IF @ = "ready" THEN "working" ELSE @]]
    /\ UNCHANGED <<attached, events, failed>>

\* Catalog::starts, and a thread for each key it names.
Running == {k \in Known : entries[k].running}
Wanting(k) == /\ entries[k].online /\ ~entries[k].running /\ ~entries[k].stopping
              /\ entries[k].retry = "now"
Free(k) == \A r \in Running : r[1] # k[1]
Starts ==
    LET may == {k \in Known : Wanting(k) /\ Free(k)}
        first == {s \in SUBSET may : \A a, b \in s : a[1] = b[1] => a = b}
        free == IF MaxWorkers > Cardinality(Running)
                THEN MaxWorkers - Cardinality(Running) ELSE 0
        fit == {s \in first : Cardinality(s) <= free}
    IN {s \in fit : \A t \in fit : s \subseteq t => t = s}
Start ==
    /\ loop = "start" /\ loop' = "discover"
    /\ \E s \in Starts :
           /\ entries' = [k \in Known |-> IF k \in s
                  THEN [entries[k] EXCEPT !.running = TRUE, !.retry = "never"]
                  ELSE entries[k]]
           /\ threads' = [k \in DOMAIN threads \cup s |->
                  IF k \in s THEN Opened ELSE threads[k]]
    /\ UNCHANGED <<attached, events, failed>>

\* The wait of a retry is over.
Wait(k) ==
    /\ k \in Known /\ entries[k].retry = "later"
    /\ entries' = [entries EXCEPT ![k].retry = "now"]
    /\ UNCHANGED <<attached, threads, loop, events, failed>>

\* The service is stopped: every worker is asked to stop, and is waited for.
Shutdown ==
    /\ loop \in {"discover", "workers", "start"} /\ loop' = "stopping"
    /\ entries' = [k \in Known |-> [entries[k] EXCEPT !.stopping = @ \/ entries[k].running]]
    /\ threads' = [k \in DOMAIN threads |-> [threads[k] EXCEPT !.stop = TRUE]]
    /\ UNCHANGED <<attached, events, failed>>
Join ==
    /\ loop = "stopping" /\ \A k \in DOMAIN threads : HasEnded(k)
    /\ loop' = "stopped" /\ threads' = [k \in {} |-> 0]
    /\ UNCHANGED <<attached, entries, events, failed>>

-----------------------------------------------------------------------------
(* The threads and the volumes. *)

\* The worker opens its volume, and finds another one, or none.
Open(k) ==
    /\ k \in DOMAIN threads /\ threads[k].step = "opening"
    /\ threads' = [threads EXCEPT
           ![k].step = IF attached[k[1]] = k[2] THEN "ready" ELSE "ended",
           ![k].reason = IF attached[k[1]] \in {"none", "unreadable"} THEN "transient"
                         ELSE "other"]
    /\ failed' = IF attached[k[1]] \in {k[2], "none", "unreadable"} THEN failed
                 ELSE failed \cup {k}
    /\ UNCHANGED <<attached, entries, loop, events>>

\* It ends when it is told to, or fails.
End(k) ==
    /\ k \in DOMAIN threads /\ threads[k].stop /\ threads[k].step # "ended"
    /\ threads' = [threads EXCEPT ![k].step = "ended", ![k].reason = "stopped"]
    /\ UNCHANGED <<attached, entries, loop, events, failed>>
Event == events < MaxEvents /\ events' = events + 1
Fail(k, reason) ==
    /\ k \in DOMAIN threads /\ threads[k].step # "ended" /\ Event
    /\ threads' = [threads EXCEPT ![k].step = "ended", ![k].reason = reason]
    /\ failed' = IF reason = "other" THEN failed \cup {k} ELSE failed
    /\ UNCHANGED <<attached, entries, loop>>
Change(g, to) ==
    /\ attached[g] # to /\ Event /\ attached' = [attached EXCEPT ![g] = to]
    /\ UNCHANGED <<entries, threads, loop, failed>>

Loop == Discover \/ NoDiscovery \/ Workers \/ Start
Next ==
    \/ Loop \/ Shutdown \/ Join
    \/ \E k \in Keys : Wait(k) \/ Open(k) \/ End(k)
    \/ \E k \in Keys, reason \in {"transient", "other"} : Fail(k, reason)
    \/ \E g \in Guids, to \in Serials \cup {"unreadable", "none"} : Change(g, to)

Spec == Init /\ [][Next]_vars

\* The loop goes on, discovery works again and again, waits end and threads run.
Fairness ==
    /\ WF_vars(Loop) /\ SF_vars(Discover) /\ WF_vars(Join)
    /\ \A k \in Keys : WF_vars(Wait(k)) /\ WF_vars(Open(k)) /\ WF_vars(End(k))
FairSpec == Spec /\ Fairness

-----------------------------------------------------------------------------
TypeOK ==
    /\ attached \in [Guids -> Serials \cup {"unreadable", "none"}]
    /\ Known \subseteq Keys /\ \A k \in Known : entries[k] \in Entry
    /\ DOMAIN threads \subseteq Keys /\ \A k \in DOMAIN threads : threads[k] \in Thread
    /\ failed \subseteq Keys /\ loop \in {"discover", "workers", "start", "stopping", "stopped"}
    /\ events \in 0 .. MaxEvents

\* Two workers never have the same volume, not even the old and the new
\* identity of one that was formatted while its worker ran; every thread has
\* an entry that says so (the loop indexes the catalog by it), at the limit of
\* the catalog too; and no more threads run than the service allows.
OneWorkerPerVolume ==
    /\ \A a, b \in DOMAIN threads : a[1] = b[1] => a = b
    /\ \A k \in DOMAIN threads : k \in Known /\ entries[k].running
    /\ Cardinality(DOMAIN threads) <= MaxWorkers

\* A volume that came to stay is served, after all that happened to it, unless
\* its own worker gave up for a reason that is not passing: a worker that was
\* stopped for a volume that went away is started again when it is back.  And a
\* service that is told to stop has no worker left in the end, whatever it was
\* doing: opening, working, or being replaced.
Serves(k) ==
    /\ k \in DOMAIN threads /\ threads[k].step = "working"
    /\ entries[k].pipe /\ entries[k].started
Stays(k) == attached[k[1]] = k[2] /\ loop \notin {"stopping", "stopped"}
ServedInTheEnd ==
    /\ \A k \in Guids \X Serials : <>[]Stays(k) => <>[](Serves(k) \/ k \in failed)
    /\ loop = "stopping" ~> loop = "stopped"

\* The catalog says of every thread that it runs, until the service has joined
\* them all.
ThreadsKnown ==
    /\ DOMAIN threads \subseteq Running
    /\ loop # "stopped" => DOMAIN threads = Running

\* The inductive invariant.
Inductive ==
    /\ Known \subseteq Keys /\ entries \in [Known -> Entry]
    /\ threads \in [DOMAIN threads -> Thread]
    /\ ThreadsKnown /\ OneWorkerPerVolume
=============================================================================
