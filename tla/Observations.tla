----------------------------- MODULE Observations -----------------------------
(***************************************************************************)
(* The observations of a session (Store::query and its helpers in          *)
(* src/observation.rs): what was collected is kept for a while, answers    *)
(* are pages of it, a cursor continues a page, and some kinds are answered *)
(* from a recent observation instead of collecting again.                  *)
(*                                                                         *)
(* Time is counted in ticks, and the world is another one at every tick:   *)
(* what an observation holds is known by the tick it was collected at,     *)
(* the observed_at of its answers.  Some kinds also have readings that are *)
(* made anew when the rest is reused: power, architecture and uptime of a  *)
(* computer_profile.  Their tick is current; only the uptime tells it, in  *)
(* uptime_observed_at.                                                     *)
(*                                                                         *)
(* A list of running applications is neither reused nor made of a reused   *)
(* one: it is a kind of its own here, that may be reused for no time.      *)
(* A signature stands for the filter, order and page size of a query;      *)
(* Matched says how many rows it selects.                                  *)
(*                                                                         *)
(* Bounds: MaxTime ticks, MaxQueries answers, CursorCap cursors.           *)
(***************************************************************************)
EXTENDS Integers, FiniteSetsExt

CONSTANTS
    Kinds, CacheFor,     \* the kinds, and for how long each may be reused
    Renewed,             \* those with readings that are never reused
    Paged,               \* those with rows, answered page by page
    Signatures, Matched, \* the queries, and the rows each selects
    PageSize, Life, MaxEntries, MaxBytes, CursorCap, MaxTime, MaxQueries

VARIABLES
    time,
    entries,    \* the observations kept; they were put in as their ids grow
    cursors,    \* cursor -> observation, signature, offset; seen is history:
                \* the rows its reader has had before it
    answers,    \* how many answers were given; it names what they create
    answer,     \* the last one
    whole       \* history: the last reading that came to its end

vars == <<time, entries, cursors, answers, answer, whole>>

QueryIds == 1 .. MaxQueries
FirstRows(data, n) == {<<data, i>> : i \in 1 .. n}
Rows(data, signature) == FirstRows(data, Matched[signature])
Entry == [id : Nat, kind : Kinds, data : Nat, current : Nat, created : Nat,
          bytes : 1 .. MaxBytes]
NoAnswer == [kind |-> "none", data |-> 0, current |-> 0, at |-> 0, recalled |-> TRUE]
NotWhole == [data |-> 0, signature |-> CHOOSE s \in Signatures : TRUE, rows |-> {}]

NoCursors == [c \in {} |-> NotWhole]

Init ==
    /\ time = 0 /\ entries = {} /\ cursors = NoCursors /\ answers = 0
    /\ answer = NoAnswer /\ whole = NotWhole

-----------------------------------------------------------------------------
Bytes(es) == MapThenSumSet(LAMBDA e : e.bytes, es)
Fits(es) == Cardinality(es) <= MaxEntries /\ Bytes(es) <= MaxBytes
From(es, k) == {e \in es : e.id >= k}

\* What is left of es when its first goes until the rest fits.
WithinBudget(es) ==
    From(es, CHOOSE k \in 1 .. MaxQueries + 1 :
                 Fits(From(es, k)) /\ \A j \in 1 .. k - 1 : ~Fits(From(es, j)))

\* prune: the old observations go, then the first until the rest fits, and
\* with an observation its cursors.
Kept(es) == WithinBudget({e \in es : time - e.created < Life})
Known(es) == {e.id : e \in es}
Usable(es) == {c \in DOMAIN cursors : cursors[c].id \in Known(es)}

TypeOK ==
    /\ time \in 0 .. MaxTime /\ answers \in 0 .. MaxQueries
    /\ entries \subseteq Entry /\ Known(entries) \subseteq QueryIds
    /\ DOMAIN cursors \subseteq QueryIds /\ Cardinality(DOMAIN cursors) <= CursorCap
    /\ \A c \in DOMAIN cursors : cursors[c].id \in QueryIds /\ cursors[c].offset \in Nat

Tick ==
    /\ time < MaxTime /\ time' = time + 1
    /\ UNCHANGED <<entries, cursors, answers, answer, whole>>

\* Observation e as it is, or one page of it under a signature, read after seen;
\* new is what the answer is called, and the cursor it hands out.
Page(e, signature, offset, seen, es, recalled) ==
    LET new == answers + 1
        next == IF offset + PageSize < Matched[signature] THEN offset + PageSize
                                                          ELSE Matched[signature]
        rows == {<<e.data, n>> : n \in offset + 1 .. next}
        full == Cardinality(Usable(es)) = CursorCap
        kept == [c \in Usable(es) |-> cursors[c]]
        cursor == [id |-> e.id, signature |-> signature, offset |-> next, seen |-> seen \cup rows]
        given == [kind |-> e.kind, data |-> e.data, current |-> e.current, at |-> time,
                  recalled |-> recalled]
    IN  /\ answers' = new /\ entries' = es
        /\ \/ /\ e.kind \notin Paged
              /\ cursors' = kept /\ answer' = given /\ UNCHANGED whole
           \/ /\ e.kind \in Paged /\ next = Matched[signature]
              /\ cursors' = kept /\ answer' = given
              /\ whole' = [data |-> e.data, signature |-> signature, rows |-> seen \cup rows]
           \/ /\ e.kind \in Paged /\ next < Matched[signature] /\ ~full
              /\ cursors' = [c \in Usable(es) \cup {new} |->
                                IF c = new THEN cursor ELSE cursors[c]]
              /\ answer' = given /\ UNCHANGED whole
           \/ /\ e.kind \in Paged /\ next < Matched[signature] /\ full
              /\ cursors' = kept /\ UNCHANGED <<answer, whole>>
        /\ UNCHANGED time

\* Mutant: a reused observation counts as new.
CollectedNow(e) == time

\* An observation made of a recent one is as old as that one.
Collected(e) == e.created

\* Mutant: what is reused is reused as a whole.
CurrentAsItWas(e) == e.current

\* What a reused observation says of now.
CurrentOf(e) == IF e.kind \in Renewed THEN time ELSE e.current

Located(es, id) == CHOOSE e \in es : e.id = id

\* The last observation of the kind that may stand in for a new one.
Young(es, kind) == {e \in es : e.kind = kind /\ time - e.created < CacheFor[kind]}
Recent(es, kind) ==
    {e \in Young(es, kind) : \A d \in Young(es, kind) : d.id <= e.id}

\* A query that names no observation: collect, or reuse, and keep the result.
Collect(kind, signature, refresh, bytes) ==
    /\ answers < MaxQueries
    /\ LET es == Kept(entries)
           reused == IF refresh THEN {} ELSE Recent(es, kind)
           old == CHOOSE d \in reused : TRUE
           e == [id |-> answers + 1, kind |-> kind, bytes |-> bytes,
                 data |-> IF reused = {} THEN time ELSE old.data,
                 current |-> IF reused = {} THEN time ELSE CurrentOf(old),
                 created |-> IF reused = {} THEN time ELSE Collected(old)]
       IN  Page(e, signature, 0, {}, Kept(es \cup {e}), FALSE)

\* A query of an observation the caller names.
Recall(id, signature) ==
    /\ answers < MaxQueries /\ id \in Known(Kept(entries))
    /\ LET es == Kept(entries)
       IN  Page(Located(es, id), signature, 0, {}, es, TRUE)

\* A cursor goes on with its own observation, and only for its own query.
Continue(c) ==
    /\ answers < MaxQueries /\ c \in Usable(Kept(entries))
    /\ LET es == Kept(entries)
       IN  Page(Located(es, cursors[c].id), cursors[c].signature, cursors[c].offset,
                cursors[c].seen, es, TRUE)

\* A query that fails, is cancelled or refused has pruned all the same.
Refused ==
    /\ entries' = Kept(entries) /\ cursors' = [c \in Usable(Kept(entries)) |-> cursors[c]]
    /\ UNCHANGED <<time, answers, answer, whole>>

\* invalidate_app_cache: after a change of the installed software.
Invalidate(kind) ==
    /\ entries' = {e \in entries : e.kind # kind}
    /\ UNCHANGED <<time, cursors, answers, answer, whole>>

Reset ==
    /\ entries' = {} /\ cursors' = NoCursors
    /\ UNCHANGED <<time, answers, answer, whole>>

Next ==
    \/ Tick \/ Refused \/ Reset
    \/ \E kind \in Kinds, s \in Signatures, refresh \in BOOLEAN, bytes \in 1 .. MaxBytes :
          Collect(kind, s, refresh, bytes)
    \/ \E id \in Known(entries), s \in Signatures : Recall(id, s)
    \/ \E c \in DOMAIN cursors : Continue(c)
    \/ \E kind \in Kinds : Invalidate(kind)

Spec == Init /\ [][Next]_vars

-----------------------------------------------------------------------------
\* Nothing that is answered is older than it may be.  What a query that did not
\* ask for an older observation gets was collected within the time its kind may
\* be reused for, however often it was reused in between, and the readings that
\* may not be reused are made for that query; nothing is answered from an
\* observation that is past its life.  All of an answer is of the time it claims,
\* except for those readings: where the rest is reused they are younger, and the
\* power of a computer_profile does not say so.  Whoever follows the cursors to
\* the end has read every row of one observation, and no row of another.
NothingStaleAnswered ==
    /\ answer.at - answer.data < Life
    /\ answer.recalled \/ answer.at = answer.data
         \/ answer.at - answer.data < CacheFor[answer.kind]
    /\ answer.data <= answer.current /\ answer.current <= answer.at
    /\ answer.kind \notin Renewed => answer.current = answer.data
    /\ answer.kind \in Renewed => answer.recalled \/ answer.current = answer.at
    /\ whole.rows \in {{}, Rows(whole.data, whole.signature)}

\* Why: an observation is as old as what it holds apart from the readings that
\* are made anew, which are of its kind only, each has its own id, and
\* the reader of a cursor has had the rows before it of the observation it is
\* for, and no others.
Inductive ==
    /\ NothingStaleAnswered
    /\ time \in Nat /\ answers \in Nat /\ entries \subseteq Entry
    /\ \A e \in entries :
          /\ e.data = e.created /\ e.id <= answers
          /\ e.created <= e.current /\ e.current <= time
          /\ e.kind \notin Renewed => e.current = e.data
    /\ \A d, e \in entries : d.id = e.id => d = e
    /\ \A c \in DOMAIN cursors :
          LET k == cursors[c] IN
          /\ k.id <= answers /\ k.id \in Nat
          /\ k.signature \in Signatures /\ k.offset \in 0 .. Matched[k.signature]
          /\ \A e \in entries : e.id = k.id => k.seen = FirstRows(e.data, k.offset)
=============================================================================
