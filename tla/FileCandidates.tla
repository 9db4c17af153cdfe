---------------------------- MODULE FileCandidates ----------------------------
(***************************************************************************)
(* Files a user picks (src/files.rs, the opening in src/runtime.rs): a     *)
(* search fills a table of objects, an id stands for a path with the       *)
(* identity it had, and opening it hands the path to a helper process      *)
(* (src/shell_handoff.rs) that asks Windows.  The programs of the overview *)
(* (app_actions.rs of the desktop) go the same way.  Other programs use    *)
(* the same files all the time.                                            *)
(*                                                                         *)
(* Bounds: MaxObjects stands for the 2000 objects of a session,            *)
(* MaxTroubles limits what other programs do and what fails.               *)
(***************************************************************************)
EXTENDS Naturals, Sequences, FiniteSets

CONSTANTS NumPaths, Readable, MaxObjects, MaxTroubles

VARIABLES
    at,        \* the file at each path: which object, in which version
    objects,   \* Objects: an id is a position, its value an entry
    byPath,    \* path -> id, 0 for none
    search,    \* the search under way: its source, and the name it looks at
    found,     \* ids it has found
    results,   \* last_results: the ids the user and the model may name
    programs,  \* Catalog: entries bound at the last refresh of the overview
    request,   \* the opening: how far it is, and of what
    child,     \* the helper process: "none", "started", "checked", "exited"
    code, reply,   \* its exit code, and what was made of it
    stopped, troubles,
    effect         \* history: what this request has opened

table == <<objects, byPath, search, found, results, programs>>
opening == <<request, child, code, reply>>
vars == <<at, table, opening, stopped, troubles, effect>>

Paths == 1 .. NumPaths
Absent == [object |-> 0, version |-> 0]
File(n) == [object |-> n, version |-> 0]
NoEntry == [path |-> 0, file |-> Absent]
Entry(p) == [path |-> p, file |-> at[p]]
Idle == [step |-> "idle", kind |-> "file", entry |-> NoEntry]
NoSearch == [source |-> "none", entry |-> NoEntry]
Codes == {"ACCEPTED", "CANCELLED", "REJECTED", "NO_ASSOCIATION", "INVALID", "died"}

Init ==
    /\ at = [p \in Paths |-> File(p)]
    /\ objects = <<>> /\ byPath = [p \in Paths |-> 0]
    /\ search = NoSearch /\ found = {} /\ results = {} /\ programs = {}
    /\ request = Idle /\ child = "none" /\ code = "none" /\ reply = "none"
    /\ stopped = FALSE /\ troubles = 0 /\ effect = Absent

TypeOK ==
    /\ Len(objects) <= MaxObjects /\ byPath \in [Paths -> 0 .. Len(objects)]
    /\ found \cup results \subseteq DOMAIN objects
    /\ search.source \in {"none", "index", "inventory", "scan"}
    /\ request.step \in {"idle", "asking", "holding", "waiting"}
    /\ child \in {"none", "started", "checked", "exited"}
    /\ code \in Codes \cup {"none"}
    /\ reply \in {"none", "accepted", "cancelled", "refused", "unknown"}
    /\ stopped \in BOOLEAN /\ troubles \in 0 .. MaxTroubles

Trouble == troubles < MaxTroubles /\ troubles' = troubles + 1
Calm == UNCHANGED troubles
Quiet == request.step = "idle" /\ search = NoSearch

-----------------------------------------------------------------------------
(* Searching: the old candidates are gone before anything can fail. *)

BeginSearch(source) ==
    /\ Quiet /\ search' = [source |-> source, entry |-> NoEntry]
    /\ found' = {} /\ results' = {}
    /\ UNCHANGED <<at, objects, byPath, programs, opening, stopped, troubles, effect>>

\* A name: the service names files anywhere, with the identity it knows; a
\* walk and the records of the inventory stay in scope, and the records have
\* an identity to agree with.
Look(p) ==
    /\ search.source # "none" /\ search.entry = NoEntry /\ at[p] # Absent
    /\ search.source # "index" => p \in Readable
    /\ search' = [search EXCEPT !.entry = Entry(p)]
    /\ UNCHANGED <<at, objects, byPath, found, results, programs, opening, stopped,
                   troubles, effect>>

\* Objects::insert, with the identity of this moment.
Inserted(p) ==
    IF byPath[p] # 0 /\ objects[byPath[p]] = Entry(p)
    THEN [objects |-> objects, id |-> byPath[p]]
    ELSE [objects |-> Append(objects, Entry(p)), id |-> Len(objects) + 1]

\* The candidate of the index must still be what was compared.
Discover ==
    LET p == search.entry.path
        after == Inserted(p)
    IN
    /\ search.entry # NoEntry /\ search' = [search EXCEPT !.entry = NoEntry]
    /\ IF at[p] = Absent \/ Len(after.objects) > MaxObjects
       THEN UNCHANGED <<objects, byPath, found>>
       ELSE /\ objects' = after.objects /\ byPath' = [byPath EXCEPT ![p] = after.id]
            /\ found' = IF search.source = "index" /\ at[p] # search.entry.file
                        THEN found ELSE found \cup {after.id}
    /\ UNCHANGED <<at, results, programs, opening, stopped, troubles, effect>>

EndSearch ==
    /\ search.source # "none" /\ search.entry = NoEntry /\ search' = NoSearch
    /\ (~stopped /\ results' = found) \/ UNCHANGED results
    /\ found' = {}
    /\ UNCHANGED <<at, objects, byPath, programs, opening, stopped, troubles, effect>>

Reset ==
    /\ Quiet /\ objects # <<>> /\ objects' = <<>> /\ byPath' = [p \in Paths |-> 0]
    /\ results' = {}
    /\ UNCHANGED <<at, search, found, programs, opening, stopped, troubles, effect>>

\* Catalog::bind, with new ids for all: old ones are void.
Refresh ==
    /\ Quiet /\ programs' = {Entry(p) : p \in {q \in Paths : at[q] # Absent}}
    /\ UNCHANGED <<at, objects, byPath, search, found, results, opening, stopped,
                   troubles, effect>>

-----------------------------------------------------------------------------
(* Opening. *)

\* Objects::checked.
Checked(entry) == entry.path \in Readable /\ at[entry.path] = entry.file

Start(step, kind, entry) ==
    /\ request' = [step |-> step, kind |-> kind, entry |-> entry]
    /\ reply' = "none" /\ effect' = Absent /\ stopped' = FALSE
    /\ UNCHANGED <<at, table, child, code, troubles>>

\* file_open of the model shows the object and asks; what the user picks
\* from the last results is not asked again.
Open(id) ==
    /\ Quiet /\ Checked(objects[id])
    /\ \/ Start("asking", "file", objects[id])
       \/ id \in results /\ Start("holding", "file", objects[id])

\* Catalog::execute.
Run(entry) == Quiet /\ Start("holding", "program", entry)

Return(answer) ==
    /\ request' = Idle /\ reply' = answer
    /\ child' = "none" /\ code' = "none"

Answer ==
    /\ request.step = "asking"
    /\ \/ ~stopped /\ request' = [request EXCEPT !.step = "holding"]
          /\ UNCHANGED <<child, code, reply>>
       \/ Return("cancelled")
    /\ UNCHANGED <<at, table, stopped, troubles, effect>>

\* Mutant: the name is enough.
SameName(entry) == at[entry.path] # Absent

Same(entry) == at[entry.path] = entry.file

\* The parent holds the file while the helper runs.
Hold ==
    /\ request.step = "holding"
    /\ IF Same(request.entry) /\ ~stopped
       THEN \/ /\ request' = [request EXCEPT !.step = "waiting"]
               /\ child' = "started" /\ Calm /\ UNCHANGED <<code, reply>>
            \/ Trouble /\ Return("refused")
       ELSE Return("refused") /\ Calm
    /\ UNCHANGED <<at, table, stopped, effect>>

Exit(c) == child' = "exited" /\ code' = c
Helper == UNCHANGED <<at, table, request, reply, stopped>>

\* The helper compares the identity once more, and holds the file.
Compare ==
    /\ child = "started" /\ Helper /\ Calm /\ UNCHANGED effect
    /\ IF Same(request.entry) THEN child' = "checked" /\ UNCHANGED code
                              ELSE Exit("INVALID")

\* ShellExecute: a refusal of a document is reported as invalid, only
\* programs can be cancelled in the prompt of Windows.
Execute ==
    /\ child = "checked" /\ Helper /\ Calm
    /\ \/ effect' = at[request.entry.path] /\ Exit("ACCEPTED")
       \/ /\ UNCHANGED effect
          /\ \E c \in IF request.kind = "file" THEN {"INVALID", "NO_ASSOCIATION"}
                                              ELSE {"CANCELLED", "REJECTED"} : Exit(c)

\* What a helper that ends in the middle may have done.
Unfinished == IF child = "checked" THEN {effect, at[request.entry.path]} ELSE {effect}

Die ==
    /\ child \in {"started", "checked"} /\ Trouble /\ Helper /\ Exit("died")
    /\ effect' \in Unfinished

\* Mutant: any exit that is not a known refusal is a success.
MeaningByDefault(c) ==
    CASE c = "CANCELLED" -> "cancelled"
      [] c \in {"REJECTED", "NO_ASSOCIATION", "INVALID"} -> "refused"
      [] OTHER -> "accepted"

Meaning(c) ==
    CASE c = "ACCEPTED" -> "accepted"
      [] c = "CANCELLED" -> "cancelled"
      [] c = "died" -> "unknown"
      [] OTHER -> "refused"

\* Nor is the code of a helper believed that did not read its request.
Collect ==
    /\ child = "exited"
    /\ Return(Meaning(code)) \/ (code = "INVALID" /\ Return("unknown"))
    /\ UNCHANGED <<at, table, stopped, troubles, effect>>

\* 90 seconds have passed or the turn is cancelled: the helper is killed and
\* has ended before the caller hears of it.
GiveUp ==
    /\ child \in {"started", "checked"} /\ Return("unknown")
    /\ effect' \in Unfinished
    /\ UNCHANGED <<at, table, stopped, troubles>>

Cancel ==
    /\ ~stopped /\ stopped' = TRUE
    /\ UNCHANGED <<at, table, opening, troubles, effect>>

-----------------------------------------------------------------------------
(* Other programs: a file that is held is not replaced or moved, but a     *)
(* document may be written.                                                *)

Held(p) == request.step = "waiting" /\ request.entry.path = p

Write(p) ==
    /\ Trouble /\ at[p] # Absent /\ ~(Held(p) /\ request.kind = "program")
    /\ at' = [at EXCEPT ![p].version = @ + 1]
    /\ UNCHANGED <<table, opening, stopped, effect>>

Replace(p) ==
    /\ Trouble /\ ~Held(p)
    /\ at' \in {[at EXCEPT ![p] = File(NumPaths + troubles')], [at EXCEPT ![p] = Absent]}
    /\ UNCHANGED <<table, opening, stopped, effect>>

Swap(p, q) ==
    /\ Trouble /\ p # q /\ ~Held(p) /\ ~Held(q)
    /\ at' = [at EXCEPT ![p] = at[q], ![q] = at[p]]
    /\ UNCHANGED <<table, opening, stopped, effect>>

Next ==
    \/ \E source \in {"index", "inventory", "scan"} : BeginSearch(source)
    \/ \E p \in Paths : Look(p) \/ Write(p) \/ Replace(p) \/ \E q \in Paths : Swap(p, q)
    \/ Discover \/ EndSearch \/ Reset
    \/ Refresh
    \/ \E id \in DOMAIN objects : Open(id)
    \/ \E entry \in programs : Run(entry)
    \/ Answer \/ Hold \/ Compare \/ Execute \/ Die \/ Collect \/ GiveUp \/ Cancel

Spec == Init /\ [][Next]_vars

-----------------------------------------------------------------------------
(* Properties *)

\* Whatever is done to files between the search, the question and the call of
\* Windows, in three processes: only the object that was shown under its path
\* is opened, once, in a place the scope allows, and while its caller still
\* waits for it.
OpenedAsShown ==
    effect' \notin {effect, Absent} =>
       /\ effect = Absent /\ request.step = "waiting"
       /\ effect'.object = request.entry.file.object
       /\ effect' = at[request.entry.path]
       /\ request.kind = "file" => request.entry.path \in Readable
OpensWhatWasShown == [][OpenedAsShown]_vars

\* What the caller is told is true: accepted was handed to Windows, refused
\* and cancelled were not; only "unknown" leaves it open, and is final.
HandoffTruthful ==
    /\ reply = "accepted" => effect # Absent
    /\ reply \in {"refused", "cancelled"} => effect = Absent
    /\ request.step = "idle" => child = "none"

\* Why: whatever an id, a program or a request stands for was a file when it
\* was entered; the helper only runs while its request waits and holds the
\* object; and nothing is opened before the helper exits.
FileIds == [object : Nat, version : Nat]
Known == [path : Paths, file : {f \in FileIds : f.object # 0}]
Refusals == {"CANCELLED", "REJECTED", "NO_ASSOCIATION", "INVALID"}
Inductive ==
    /\ HandoffTruthful
    /\ at \in [Paths -> FileIds] /\ troubles \in Nat
    /\ \A p \in Paths : at[p].object = 0 => at[p] = Absent
    /\ objects \in Seq(Known) /\ programs \subseteq Known
    /\ search \in [source : {"none", "index", "inventory", "scan"}, entry : Known \cup {NoEntry}]
    /\ request \in [step : {"idle", "asking", "holding", "waiting"}, kind : {"file", "program"},
                    entry : Known \cup {NoEntry}]
    /\ request.step # "idle" =>
          /\ request.entry \in Known /\ reply = "none"
          /\ request.kind = "file" => request.entry.path \in Readable
    /\ request.step = "waiting" <=> child # "none"
    /\ request.step = "waiting" =>
          at[request.entry.path].object = request.entry.file.object
    /\ request.step \in {"asking", "holding"} \/ child \in {"started", "checked"} =>
          effect = Absent
    /\ child \in {"none", "started", "checked", "exited"}
    /\ child = "exited" =>
          /\ code \in Codes /\ (code = "ACCEPTED" => effect # Absent)
          /\ code \in Refusals => effect = Absent
=============================================================================
