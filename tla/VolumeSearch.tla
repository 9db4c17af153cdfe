---------------------------- MODULE VolumeSearch ----------------------------
(***************************************************************************)
(* A search over all volumes: src/search_index/windows.rs asks the index   *)
(* service for its catalogue and then one worker after the other, and      *)
(* src/files.rs looks every candidate up before it becomes an object.      *)
(* Volumes are remounted, files come and go, the service is replaced and   *)
(* the time of the query runs out at any point in between.                 *)
(*                                                                         *)
(* What an index holds, and whether it is complete, is the subject of      *)
(* module FileIndex; which volumes have a worker, of VolumeCatalog; what   *)
(* is done with an object later, of FileCandidates.  Here they are given.  *)
(*                                                                         *)
(* Bounds: PageSize stands for 50 hits, Limit for the 20 of a result;      *)
(* MaxTroubles limits what happens around a search.                        *)
(***************************************************************************)
EXTENDS Naturals, FiniteSets

CONSTANTS Volumes, Letters, Files, PageSize, Limit, MaxTroubles,
          NoVolume

VARIABLES
    mounts,     \* the volume behind each drive letter
    there,      \* per volume: the files it has
    index,      \* per volume: what its worker would answer
    service,    \* "fitting" build, "other" build, or "down"
    listing,    \* the service's catalogue: per volume its letters, and
                \* whether it has a worker
    step,       \* of the search: "idle", "health", "volumes", "checking"
    expired,    \* its three seconds are over
    catalog,    \* the listing it works with
    todo,       \* volumes it has still to ask
    mapping,    \* hits of the volume last asked, not mapped yet
    candidates, \* mapped, not looked up yet
    looked,     \* the candidate whose identity was just compared
    items,      \* objects of the result
    complete, more,     \* what the result says of itself
    asked,      \* history: per volume the answer of its worker, if any
    troubles

world == <<mounts, there, index, service, listing>>
query == <<expired, catalog, todo, mapping, candidates, looked, items, complete, more, asked>>
vars == <<world, step, query, troubles>>

Hits == Volumes \X Files
Candidates == [letter : Letters, volume : Volumes, file : Files]
Answers == [records : SUBSET Files, complete : BOOLEAN]
NoAnswer == [records |-> {}, complete |-> FALSE]
Entries == [letters : SUBSET Letters, worker : BOOLEAN]
NoCandidate == [letter |-> NoVolume]

TypeOK ==
    /\ mounts \in [Letters -> Volumes \cup {NoVolume}]
    /\ there \in [Volumes -> SUBSET Files]
    /\ index \in [Volumes -> Answers] /\ asked \in [Volumes -> Answers]
    /\ service \in {"fitting", "other", "down"}
    /\ listing \in [Volumes -> Entries] /\ catalog \in [Volumes -> Entries]
    /\ step \in {"idle", "health", "volumes", "checking"}
    /\ {expired, complete, more} \subseteq BOOLEAN
    /\ todo \subseteq Volumes
    /\ mapping \subseteq Hits
    /\ candidates \cup items \subseteq Candidates
    /\ looked \in Candidates \cup {NoCandidate}
    /\ Cardinality(items) <= Limit
    /\ troubles \in 0 .. MaxTroubles

LettersOf(v) == {l \in Letters : mounts[l] = v}
Listed == [v \in Volumes |-> [letters |-> LettersOf(v), worker |-> TRUE]]

Init ==
    /\ mounts \in {m \in [Letters -> Volumes \cup {NoVolume}] :
                     \A v \in Volumes : Cardinality({l \in Letters : m[l] = v}) = 1}
    /\ there = [v \in Volumes |-> Files]
    /\ index \in [Volumes -> {[records |-> r, complete |-> r = Files] : r \in SUBSET Files}]
    /\ service = "fitting" /\ listing = Listed
    /\ step = "idle" /\ expired = FALSE /\ catalog = Listed
    /\ todo = {} /\ mapping = {} /\ candidates = {} /\ looked = NoCandidate
    /\ items = {} /\ complete = FALSE /\ more = FALSE
    /\ asked = [v \in Volumes |-> NoAnswer]
    /\ troubles = 0

-----------------------------------------------------------------------------
(* What happens around a search. *)

Trouble == troubles < MaxTroubles /\ troubles' = troubles + 1

\* A volume gets another letter, takes one over from another, or loses it.
Remount ==
    /\ Trouble
    /\ \E l \in Letters, v \in Volumes \cup {NoVolume} :
         /\ mounts[l] # v
         /\ mounts' = [mounts EXCEPT ![l] = v]
    /\ UNCHANGED <<there, index, service, listing, step, query>>

FileMoves ==
    /\ Trouble
    /\ \E v \in Volumes, f \in Files :
         there' = [there EXCEPT ![v] = IF f \in @ THEN @ \ {f} ELSE @ \cup {f}]
    /\ UNCHANGED <<mounts, index, service, listing, step, query>>

\* The worker publishes another generation.
Publish ==
    /\ Trouble
    /\ \E v \in Volumes, known \in BOOLEAN :
         index' = [index EXCEPT ![v] = [records |-> there[v], complete |-> known]]
    /\ UNCHANGED <<mounts, there, service, listing, step, query>>

\* The service finds the volumes again; a worker may have ended or not begun.
Discover ==
    /\ Trouble
    /\ \E running \in SUBSET Volumes :
         listing' = [v \in Volumes |-> [letters |-> LettersOf(v), worker |-> v \in running]]
    /\ UNCHANGED <<mounts, there, index, service, step, query>>

\* Stopped, or replaced by another build.
ServiceChanges ==
    /\ Trouble
    /\ service' \in {"fitting", "other", "down"} \ {service}
    /\ UNCHANGED <<mounts, there, index, listing, step, query>>

World == Remount \/ FileMoves \/ Publish \/ Discover \/ ServiceChanges

-----------------------------------------------------------------------------
(* The query (search_index/windows.rs). *)

Begin ==
    /\ step = "idle" /\ step' = "health"
    /\ expired' = FALSE /\ items' = {} /\ candidates' = {} /\ mapping' = {}
    /\ complete' = TRUE /\ more' = FALSE
    /\ asked' = [v \in Volumes |-> NoAnswer]
    /\ UNCHANGED <<world, catalog, todo, looked, troubles>>

\* No answer, another build, the user's cancellation: no result of the
\* service, and files.rs goes on without it or gives up.
GiveUp ==
    /\ step # "idle" /\ step' = "idle"
    /\ complete' = FALSE /\ items' = {} /\ candidates' = {} /\ mapping' = {}
    /\ looked' = NoCandidate /\ todo' = {}
    /\ UNCHANGED <<world, expired, catalog, more, asked, troubles>>

Health ==
    /\ step = "health" /\ ~expired /\ service = "fitting"
    /\ step' = "volumes" /\ catalog' = listing /\ todo' = Volumes
    /\ UNCHANGED <<world, expired, mapping, candidates, looked, items, complete, more,
                   asked, troubles>>

\* controlled(): the query's own cancellation after three seconds.
Expire ==
    /\ step \in {"health", "volumes"} /\ ~expired /\ expired' = TRUE
    /\ UNCHANGED <<world, step, catalog, todo, mapping, candidates, looked, items,
                   complete, more, asked, troubles>>

\* Mutant: a volume that could not be asked is told, and no more.
PassedOver == complete

\* The receipt of a volume that could not be asked makes the result partial.
Partial == FALSE

Done(v) == todo' = todo \ {v}

\* No worker, no time left, or no answer that can be used: the pipe is not
\* there, the peer is not the installed service, the time runs out.
Unanswered(v) ==
    /\ step = "volumes" /\ v \in todo /\ mapping = {} /\ Done(v)
    /\ complete' = Partial
    /\ UNCHANGED <<world, step, expired, catalog, mapping, candidates, looked, items,
                   more, asked, troubles>>

\* The worker's first page, and whether there are others.
Answered(v) ==
    /\ step = "volumes" /\ v \in todo /\ mapping = {} /\ Done(v)
    /\ catalog[v].worker /\ ~expired /\ service # "down"
    /\ \E page \in SUBSET index[v].records :
         /\ Cardinality(page) <= PageSize
         /\ page # index[v].records => Cardinality(page) = PageSize
         /\ mapping' = {<<v, f>> : f \in page}
         /\ more' = (more \/ page # index[v].records)
    \* Any error, or a reason the catalogue gives, makes it partial too.
    /\ complete' \in {Partial, complete /\ index[v].complete}
    /\ asked' = [asked EXCEPT ![v] = index[v]]
    /\ UNCHANGED <<world, step, expired, catalog, candidates, looked, items, troubles>>

\* map_hit: the first listed letter that is the volume's now.
MapHit(hit) ==
    /\ hit \in mapping /\ mapping' = mapping \ {hit}
    /\ IF LettersOf(hit[1]) \cap catalog[hit[1]].letters # {}
       THEN /\ \E l \in LettersOf(hit[1]) \cap catalog[hit[1]].letters :
                 candidates' = candidates \cup
                   {[letter |-> l, volume |-> hit[1], file |-> hit[2]]}
            /\ UNCHANGED complete
       ELSE complete' = FALSE /\ UNCHANGED candidates
    /\ UNCHANGED <<world, step, expired, catalog, todo, looked, items, more, asked, troubles>>

QueryEnds ==
    /\ step = "volumes" /\ todo = {} /\ mapping = {} /\ step' = "checking"
    /\ more' = (more \/ Cardinality(candidates) > Limit)
    /\ UNCHANGED <<world, expired, catalog, todo, mapping, candidates, looked, items,
                   complete, asked, troubles>>

-----------------------------------------------------------------------------
(* The look at each candidate (files.rs). *)

Same(c) == mounts[c.letter] = c.volume /\ c.file \in there[c.volume]

Skip(c) ==
    /\ candidates' = candidates \ {c} /\ looked' = NoCandidate
    /\ complete' = FALSE
    /\ UNCHANGED <<world, step, expired, catalog, todo, mapping, items, more, asked,
                   troubles>>

\* The mapping and the identity agree with the hit, or it is skipped.
Look(c) ==
    /\ step = "checking" /\ looked = NoCandidate /\ Cardinality(items) < Limit
    /\ c \in candidates
    /\ \/ /\ Same(c) /\ looked' = c
          /\ UNCHANGED <<world, step, expired, catalog, todo, mapping, candidates, items,
                         complete, more, asked, troubles>>
       \/ ~Same(c) /\ Skip(c)

\* insert takes the identity again, and the mapping is checked again.
Insert ==
    /\ looked # NoCandidate
    /\ \/ /\ Same(looked)
          /\ items' = items \cup {looked} /\ candidates' = candidates \ {looked}
          /\ looked' = NoCandidate
          /\ UNCHANGED <<world, step, expired, catalog, todo, mapping, complete, more,
                         asked, troubles>>
       \/ ~Same(looked) /\ Skip(looked)

Show ==
    /\ step = "checking" /\ looked = NoCandidate
    /\ candidates = {} \/ Cardinality(items) = Limit
    /\ step' = "idle" /\ candidates' = {}
    /\ UNCHANGED <<world, expired, catalog, todo, mapping, looked, items, complete, more,
                   asked, troubles>>

Search ==
    \/ Begin \/ GiveUp \/ Health \/ Expire
    \/ \E v \in Volumes : Unanswered(v) \/ Answered(v)
    \/ \E hit \in mapping : MapHit(hit)
    \/ QueryEnds
    \/ \E c \in candidates : Look(c)
    \/ Insert \/ Show

Next == World \/ Search

Spec == Init /\ [][Next]_vars

-----------------------------------------------------------------------------

(* A result that is shown as complete, with nothing more to show, has every *)
(* file that any index of the catalogue answered with, and every volume of  *)
(* the catalogue did answer from a complete index: no volume without a      *)
(* worker, no timeout, no letter that moved after the catalogue was read,   *)
(* no candidate that changed is left out silently                           *)
(* (src/search_index/windows.rs:266-385, src/files.rs:366-417).             *)
CompleteMeansAll ==
    (step = "idle" /\ complete /\ ~more) =>
        \A v \in Volumes :
            /\ asked[v].complete
            /\ \A f \in asked[v].records :
                 \E item \in items : item.volume = v /\ item.file = f

\* Why: a hit that was answered is still to be mapped, still to be looked up,
\* or an object of the result, unless the result is known to be partial; and
\* more candidates than the result may have are more to show.
Covered(v, f) ==
    \/ <<v, f>> \in mapping
    \/ \E c \in candidates \cup items : c.volume = v /\ c.file = f
Inductive ==
    /\ TypeOK /\ CompleteMeansAll
    /\ IsFiniteSet(candidates) /\ IsFiniteSet(items)
    /\ step # "volumes" => mapping = {}
    /\ step \in {"health", "volumes"} => items = {}
    /\ step \in {"idle", "health"} => candidates = {}
    /\ looked # NoCandidate =>
          step = "checking" /\ looked \in candidates /\ Cardinality(items) < Limit
    /\ step \in {"volumes", "checking"} /\ complete =>
          \A v \in Volumes \ todo :
              /\ asked[v].complete
              /\ ~more => \A f \in asked[v].records : Covered(v, f)
    /\ step = "checking" =>
          todo = {} /\ (~more => Cardinality(candidates \cup items) <= Limit)
=============================================================================
