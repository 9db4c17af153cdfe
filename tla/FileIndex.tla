------------------------------ MODULE FileIndex ------------------------------
(***************************************************************************)
(* The index of one NTFS volume (src/file_index): a store that publishes    *)
(* generations (store.rs) and a source that reads the master file table,    *)
(* the change journal and the metadata of one object at a time              *)
(* (windows.rs), with directories it leaves out (windows/exclusions.rs).    *)
(* Other programs change the volume between any two reads.                  *)
(*                                                                         *)
(* A name is its parent: Root, the excluded directory Bin (which stays      *)
(* where it is), or a directory of Dirs.  The policy is the default one: the *)
(* other one, and changing it, is IndexWorker's.  A rename is one record of  *)
(* the journal (the code reads its two halves and takes a page with one of  *)
(* them for a change of the policy).                                        *)
(* Bounds: MaxRecords in the first journal and one less in each made anew,  *)
(* MaxJournals journals, PageSize records in a page, MaxTroubles attempts   *)
(* that fail and restarts.                                                  *)
(***************************************************************************)
EXTENDS Naturals, Sequences, FiniteSets, SequencesExt

CONSTANTS Dirs, Files, Root, Bin, PageSize, MaxRecords, MaxJournals, MaxTroubles

VARIABLES
    names,      \* the volume: the parents each object has a name in
    born,       \* the objects made so far: an id is never used again
    journal,    \* [id, first, log]: the change journal, and what it still holds
    published,  \* the committed tables and state, read by every search
    observed,   \* IndexStore.observed: how far the journal was read since
    work,       \* the update under way and its transaction
    troubles

vars == <<names, born, journal, published, observed, work, troubles>>

Objects == Dirs \cup Files
Places == Dirs \cup {Root, Bin}
NoRows == [o \in Objects |-> {}]
NoPoint == [journal |-> 0, next |-> 0]
Here == [journal |-> journal.id, next |-> Len(journal.log)]
Nothing == [exists |-> FALSE, rows |-> NoRows,
            unavailable |-> {}, complete |-> FALSE, point |-> NoPoint, twice |-> FALSE]
Rest == [step |-> "idle", rebuild |-> FALSE, changed |-> FALSE, rows |-> NoRows,
         unavailable |-> {}, point |-> NoPoint, todo |-> {}, seen |-> {},
         caught |-> FALSE, twice |-> FALSE]

\* A place and everything above it, in a table of names.
Line(table, p) ==
    LET above[n \in 0 .. Cardinality(Dirs) + 1] ==
            IF n = 0 THEN {p}
            ELSE above[n - 1] \cup UNION {table[q] : q \in above[n - 1] \cap Dirs}
    IN above[Cardinality(Dirs) + 1]

Init ==
    /\ names \in [Objects -> {{p} : p \in Places} \cup {{}}]
    /\ \A d \in Dirs : names[d] \subseteq {Root, Bin}
    /\ \A f \in Files : names[f] = {} \/ \E d \in Dirs : names[f] = {d} /\ names[d] # {}
    /\ born = {o \in Objects : names[o] # {}}
    /\ journal = [id |-> 1, first |-> 0, log |-> <<>>]
    /\ published = Nothing /\ observed = NoPoint
    /\ work = Rest /\ troubles = 0

-----------------------------------------------------------------------------
(* What other programs do to the volume, and what is left in the journal. *)

\* `across` is of the model: the move led into or out of the excluded directory.
Record(o, kind, from, to) ==
    [id |-> o, kind |-> IF o \in Dirs THEN kind ELSE "other",
     from |-> IF o \in Dirs THEN from ELSE Root, to |-> IF o \in Dirs THEN to ELSE Root,
     across |-> kind = "moved" /\ o \in Dirs
                /\ (Bin \in Line(names, from)) # (Bin \in Line(names, to))]

\* The bound of the model on what is written.
Room == Len(journal.log) + journal.id - 1 < MaxRecords
Write(record) == journal' = [journal EXCEPT !.log = Append(@, record)]

Exists(p) == p \in Dirs => names[p] # {}
Trouble == troubles < MaxTroubles /\ troubles' = troubles + 1
Elsewhere == UNCHANGED <<published, observed, work, troubles>>

Create(o, p) ==
    /\ o \notin born /\ Exists(p) /\ Write(Record(o, "other", p, p))
    /\ names' = [names EXCEPT ![o] = {p}] /\ born' = born \cup {o} /\ Elsewhere

Delete(o) ==
    /\ names[o] # {} /\ \A x \in Objects : o \notin names[x]
    /\ Write(Record(o, "other", Root, Root)) /\ names' = [names EXCEPT ![o] = {}]
    /\ UNCHANGED born /\ Elsewhere

\* Also within one directory, under another name.
Move(o, p, q) ==
    /\ p \in names[o] /\ Exists(q) /\ o \notin Line(names, q)
    /\ q = p \/ q \notin names[o]
    /\ Write(Record(o, "moved", p, q))
    /\ names' = [names EXCEPT ![o] = (@ \ {p}) \cup {q}] /\ UNCHANGED born /\ Elsewhere

\* A hard link, of a file only.
Link(f, q) ==
    /\ names[f] # {} /\ Exists(q) /\ q \notin names[f] /\ Cardinality(names[f]) < 2
    /\ Write(Record(f, "other", q, q)) /\ names' = [names EXCEPT ![f] = @ \cup {q}]
    /\ UNCHANGED born /\ Elsewhere

\* The oldest records go, or the journal is made anew.
Truncate ==
    /\ journal.first < Len(journal.log) /\ journal' = [journal EXCEPT !.first = @ + 1]
    /\ UNCHANGED <<names, born>> /\ Elsewhere
Recreate ==
    /\ journal.id < MaxJournals
    /\ journal' = [id |-> journal.id + 1, first |-> 0, log |-> <<>>]
    /\ UNCHANGED <<names, born>> /\ Elsewhere

-----------------------------------------------------------------------------
(* WindowsVolumeSource: what it says of a checkpoint, a page and an object. *)

Validate(point) ==
    /\ point.journal = journal.id
    /\ point.next \in journal.first .. Len(journal.log)

\* The names it would have the index hold.
Wanted(o) == {p \in names[o] : Bin \notin Line(names, p)}

\* A page: the records moved directories across the edge of the policy, as
\* far as its last record of each directory tells.
LastMove(page, d) ==
    page[SelectLastInSeq(page, LAMBDA r : r.id = d /\ r.kind = "moved")]
Moved(page) == {r.id : r \in {x \in Range(page) : x.kind = "moved" /\ x.id \in Dirs}}
OnlyWhereTo(page) ==
    \E d \in Moved(page) :
        LET last == LastMove(page, d) IN ~Exists(last.to) \/ Bin \in Line(names, last.to)
Crosses(from, to) == (Bin \in Line(names, from)) # (Bin \in Line(names, to))
BoundaryChanged(page) ==
    \E d \in Moved(page) :
        LET last == LastMove(page, d) IN
        \/ {last.from, last.to} \cap Moved(page) # {}
        \/ ~Exists(last.from) \/ ~Exists(last.to)
        \/ Crosses(last.from, last.to)

-----------------------------------------------------------------------------
(* IndexStore::update: one transaction, of which a search sees all or none. *)

Outside == UNCHANGED <<names, born, journal>>
Fresh == [Rest EXCEPT !.step = "enumerate", !.rebuild = TRUE, !.changed = TRUE,
                      !.point = Here]
InUse == IF observed # NoPoint THEN observed ELSE published.point
Again == [Rest EXCEPT !.step = "changes", !.rows = published.rows, !.point = InUse,
                      !.unavailable = published.unavailable]

Update(rebuild) ==
    /\ work.step = "idle"
    /\ rebuild \/ (published.exists /\ Validate(InUse))
    /\ work' = IF rebuild THEN Fresh ELSE Again
    /\ Outside /\ UNCHANGED <<published, observed, troubles>>

Keep == Outside /\ UNCHANGED <<published, observed, troubles>>

\* The master file table, whose pages hold a thousand objects.
Enumerate ==
    /\ work.step = "enumerate"
    /\ work' = [work EXCEPT !.step = "changes", !.todo = {o \in Objects : names[o] # {}}]
    /\ Keep

\* reconcile, of one object: deleted, excluded, present, or not to be told.
Found(o, known) == IF known THEN Wanted(o) ELSE {}
Untold(o, known) ==
    IF known THEN work.unavailable \ {o} ELSE work.unavailable \cup {o}
Resolve(o, known) ==
    LET want == Found(o, known)
        lost == Untold(o, known)
    IN
    /\ o \in work.todo
    /\ work' = [work EXCEPT !.todo = @ \ {o}, !.rows[o] = want, !.unavailable = lost,
                            !.changed = @ \/ want # work.rows[o]
                                          \/ lost # work.unavailable]
    /\ IF known THEN UNCHANGED troubles ELSE Trouble
    /\ Outside /\ UNCHANGED <<published, observed>>

\* Of the model: what the page tells of one directory hides a move before.
MovesTwice(page) ==
    \E i, j \in DOMAIN page : /\ i < j /\ page[i].id = page[j].id
                             /\ page[i].kind = "moved" /\ page[j].kind = "moved"

\* One page; the end of the journal is read before it.
Page == SubSeq(journal.log, work.point.next + 1,
               Min({work.point.next + PageSize, Len(journal.log)}))
Changes ==
    LET page == Page IN
    /\ work.step = "changes" /\ work.todo = {} /\ ~work.caught
    /\ Validate(work.point) /\ ~BoundaryChanged(page)
    /\ work' = [work EXCEPT !.todo = {r.id : r \in Range(page)},
                            !.point.next = @ + Len(page),
                            !.caught = work.point.next + Len(page) = Len(journal.log),
                            !.twice = @ \/ MovesTwice(page)]
    /\ Keep

\* Nothing of meaning: only the place in the journal is remembered.
Unchanged ==
    /\ work.step = "changes" /\ work.todo = {} /\ work.caught /\ ~work.changed
    /\ Validate(work.point) /\ observed' = work.point /\ work' = Rest
    /\ published' = [published EXCEPT !.twice = @ \/ work.twice]
    /\ Outside /\ UNCHANGED troubles

\* What could not be told is tried again, once.
Retry ==
    /\ work.step = "changes" /\ work.todo = {} /\ work.caught /\ work.changed
    /\ work' = [work EXCEPT !.step = "parents", !.todo = work.unavailable] /\ Keep

\* hydrate_parents: the directories that names hang on and no row tells of.
Orphans == (UNION {work.rows[o] : o \in Objects})
               \ ({Root} \cup work.seen \cup {o \in Objects : work.rows[o] # {}})
Hydrate ==
    /\ work.step = "parents" /\ work.todo = {} /\ Orphans # {}
    /\ work' = [work EXCEPT !.todo = Orphans, !.seen = @ \cup Orphans] /\ Keep

\* Nothing untold, and every name leads up to the root.
Whole == /\ work.unavailable = {}
         /\ \A o \in Objects : \A p \in work.rows[o] : Root \in Line(work.rows, p)
Publish ==
    /\ work.step = "parents" /\ work.todo = {} /\ Orphans = {} /\ Validate(work.point)
    /\ published' = [exists |-> TRUE, rows |-> work.rows,
                     unavailable |-> work.unavailable, point |-> work.point,
                     twice |-> work.twice \/ (~work.rebuild /\ published.twice),
                     complete |-> Whole]
    /\ observed' = work.point /\ work' = Rest
    /\ Outside /\ UNCHANGED troubles

\* The budget, a cancellation, an object that keeps changing, the policy: the
\* transaction is rolled back.  The worker may end as well.
Fail ==
    /\ work.step # "idle" /\ work' = Rest
    /\ \/ Trouble
       \/ /\ work.step # "enumerate" /\ work.todo = {} /\ UNCHANGED troubles
          /\ ~Validate(work.point) \/ (work.step = "changes" /\ BoundaryChanged(Page))
    /\ Outside /\ UNCHANGED <<published, observed>>
Restart ==
    /\ Trouble /\ work' = Rest /\ observed' = NoPoint
    /\ Outside /\ UNCHANGED published

Environment ==
    \/ /\ Room
       /\ \/ \E o \in Objects, p \in Places : Create(o, p)
          \/ \E o \in Objects : Delete(o)
          \/ \E o \in Objects, p, q \in Places : Move(o, p, q)
          \/ \E f \in Files, q \in Places : Link(f, q)
    \/ Truncate \/ Recreate

Store ==
    \/ \E rebuild \in BOOLEAN : Update(rebuild)
    \/ Enumerate
    \/ \E o \in Objects, known \in BOOLEAN : Resolve(o, known)
    \/ Changes \/ Unchanged \/ Retry \/ Hydrate \/ Publish

Next == Environment \/ Store \/ Fail \/ Restart

Spec == Init /\ [][Next]_vars

-----------------------------------------------------------------------------
TypeOK ==
    /\ names \in [Objects -> SUBSET Places] /\ born \subseteq Objects
    /\ journal.first \in 0 .. Len(journal.log) /\ journal.id \in 1 .. MaxJournals
    /\ published.rows \in [Objects -> SUBSET Places]
    /\ published.point.journal \in 0 .. MaxJournals
    /\ work.step \in {"idle", "enumerate", "changes", "parents"}
    /\ work.todo \subseteq Objects /\ troubles \in 0 .. MaxTroubles

\* The journal will still tell of this object, or of a move that has the
\* index built again.
Told(o) ==
    \E i \in InUse.next + 1 .. Len(journal.log) :
        journal.log[i].id = o \/ journal.log[i].across

\* As long as the journal reaches back to the place it was read to, an object
\* whose names are not the ones of the index, or that the index says it could
\* not tell of, is one the journal will still tell of: nothing is passed over
\* for good, whatever happens to the volume while it is read (update takes its
\* checkpoint before it enumerates and rolls back what it cannot finish).
\* Except after a page that moves one directory twice: see NeverSilent.
NothingPassedOver ==
    /\ published.exists /\ ~published.twice
    /\ InUse.journal = journal.id /\ InUse.next >= journal.first
    => \A o \in Objects : \/ published.rows[o] = Wanted(o)
                          \/ o \in published.unavailable \/ Told(o)

\* docs/plans/2026-10-20-p16-windows-index-exclusions.md: what the rules cannot
\* tell is recovered from, never silently lost.  A complete index that has read
\* the whole journal knows every object outside the excluded directories.
NeverSilent ==
    published.exists /\ published.complete /\ work.step = "idle" /\ InUse = Here
    => published.rows = [o \in Objects |-> Wanted(o)]
=============================================================================
