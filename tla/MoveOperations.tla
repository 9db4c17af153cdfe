---------------------------- MODULE MoveOperations ----------------------------
(***************************************************************************)
(* Moving files (src/operations.rs) with the operation journal             *)
(* (src/storage.rs): a batch is prepared, shown, confirmed, checked again  *)
(* and executed item by item, each effect between two saves; a restart     *)
(* only observes what happened.  Other programs use the same files.        *)
(*                                                                         *)
(* Every batch moves files from their source to one target directory,      *)
(* which may have to be created.  One action is one save, one effect or    *)
(* one observation.  A save can fail, the process can die anywhere.        *)
(*                                                                         *)
(* Bound: MaxTroubles meddlings, failed saves, failed calls and crashes.   *)
(***************************************************************************)
EXTENDS Naturals, FiniteSets

CONSTANTS Ops, Files, NoOp, MaxTroubles

VARIABLES
    rows,       \* the operations table; status "none" before, "deleted" after
    mem,        \* the Operation the process works on
    pc, cur, cancelled,
    place,      \* where each file is: "source", "target" or "away"
    version,    \* its size and time, as part of a FileIdentity
    squat,      \* the paths another file has taken
    folder,     \* identity of the target directory, 0 when there is none
    parent,     \* identity of the directory it is in, or will be in
    reads,      \* operations a restart has still to reconcile
    troubles,
    moved, made, agreed, touched  \* history: effects, consent, meddling

disk    == <<place, version, squat, folder, parent>>
process == <<mem, pc, cur, cancelled, reads>>
history == <<moved, made, agreed, touched>>
vars == <<rows, process, disk, troubles, history>>

Doubtful   == {"Executing", "Verifying", "Unknown"}
Unresolved == Doubtful \cup {"AwaitingConfirmation"}
Terminal   == {"Succeeded", "Partial", "Failed", "Cancelled", "Invalidated"}

\* An Operation: status, items with the identity they were shown with, and
\* the directory to create ("None" when the target exists).
Batches == (SUBSET Files) \ {{}}
Blank == [status |-> "none", items |-> [f \in {} |-> "NotStarted"],
          shown |-> [f \in {} |-> 0], dir |-> [status |-> "None", id |-> 0], anchor |-> <<0, 0>>]
Deleted == [Blank EXCEPT !.status = "deleted"]
Kept == {o \in Ops : rows[o].status \notin {"none", "deleted"}}

TypeOK ==
    /\ DOMAIN rows = Ops /\ cur \in Ops \cup {NoOp} /\ reads \subseteq Ops
    /\ \A o \in Kept : rows[o].status \in Unresolved \cup Terminal
    /\ pc \in {"off", "starting", "idle", "asking", "checking", "pinning", "mkdir",
               "making", "made", "items", "moving", "moved", "observing", "ending"}
    /\ cancelled \in BOOLEAN /\ parent \in Nat
    /\ place \in [Files -> {"source", "target", "away"}]
    /\ version \in [Files -> Nat] /\ folder \in Nat
    /\ squat \subseteq Files \X {"source", "target"}
    /\ moved \subseteq Ops \X Files /\ made \cup agreed \subseteq Ops
    /\ touched \subseteq Files

Init ==
    /\ rows = [o \in Ops |-> Blank] /\ mem = Blank
    /\ pc = "off" /\ cur = NoOp /\ cancelled = FALSE /\ reads = {}
    /\ place = [f \in Files |-> "source"] /\ version = [f \in Files |-> 0]
    /\ squat = {} /\ folder \in {0, 1} /\ parent = 1
    /\ troubles = 0
    /\ moved = {} /\ made = {} /\ agreed = {} /\ touched = {}

Trouble == troubles < MaxTroubles /\ troubles' = troubles + 1
Calm == UNCHANGED troubles

Save(operation) == rows' = [rows EXCEPT ![cur] = operation]

\* aggregate: what the statuses of items and directory amount to.
Statuses(op) ==
    {op.items[f] : f \in DOMAIN op.items} \cup ({op.dir.status} \ {"None"})
Aggregate(op, stopped) ==
    CASE Statuses(op) \cap Doubtful # {} -> "Unknown"
      [] Statuses(op) = {"Succeeded"} -> "Succeeded"
      [] "Succeeded" \in Statuses(op) -> "Partial"
      [] OTHER -> IF stopped THEN "Cancelled" ELSE "Failed"

-----------------------------------------------------------------------------
(* The process: opening the journal and reconciling it. *)

\* The lock admits one process; rows of old finished operations are pruned.
Open(old) ==
    /\ pc = "off" /\ \A o \in old : rows[o].status \in Terminal
    /\ rows' = [o \in Ops |-> IF o \in old THEN Deleted ELSE rows[o]]
    /\ pc' = "starting" /\ reads' = Kept \ old
    /\ UNCHANGED <<mem, cur, cancelled, disk, troubles, history>>

\* observe_move: the object at its target and not at its source, or the
\* object as it was shown still at its source, and not at its target.
Observed(f, shown) ==
    CASE place[f] = "target" /\ <<f, "source">> \notin squat -> "Succeeded"
      [] place[f] = "source" /\ version[f] = shown -> "Failed"
      [] OTHER -> "Unknown"

\* An observation that fails leaves the outcome unknown.
Reconciled(op, seen) ==
    LET after == [op EXCEPT
          !.items = [f \in DOMAIN op.items |->
              IF op.items[f] \in Doubtful THEN seen[f] ELSE op.items[f]],
          !.dir.status =
              CASE op.dir.status \notin {"Executing", "Unknown"} -> op.dir.status
                [] folder = 0 -> "Failed"
                [] op.dir.id = folder -> "Succeeded"
                [] OTHER -> "Unknown"]
    IN  [after EXCEPT !.status = Aggregate(after, FALSE)]

Reconcile(o, seen) ==
    /\ pc = "starting" /\ o \in reads /\ reads' = reads \ {o}
    /\ \/ /\ \A f \in Files : f \in DOMAIN rows[o].items =>
                seen[f] \in {Observed(f, rows[o].shown[f]), "Unknown"}
          /\ rows[o].status \in Doubtful
          /\ rows' = [rows EXCEPT ![o] = Reconciled(@, seen)]
       \/ /\ rows[o].status = "AwaitingConfirmation"
          /\ rows' = [rows EXCEPT ![o].status = "Cancelled"]
       \/ rows[o].status \in Terminal /\ UNCHANGED rows
    /\ UNCHANGED <<mem, pc, cur, cancelled, disk, troubles, history>>

Started ==
    /\ pc = "starting" /\ reads = {} /\ pc' = "idle"
    /\ UNCHANGED <<rows, mem, cur, cancelled, reads, disk, troubles, history>>

\* clear_completed of the history command, which ends the process.
ClearCompleted ==
    /\ pc = "idle" /\ pc' = "off"
    /\ rows' = [o \in Ops |-> IF o \in Kept /\ rows[o].status \in Terminal
                              THEN Deleted ELSE rows[o]]
    /\ UNCHANGED <<mem, cur, cancelled, reads, disk, troubles, history>>

Crash ==
    /\ pc # "off" /\ Trouble
    /\ pc' = "off" /\ mem' = Blank /\ cur' = NoOp /\ reads' = {}
    /\ UNCHANGED <<rows, cancelled, disk, history>>

-----------------------------------------------------------------------------
(* One operation, from its plan to its receipt. *)

\* The nearest directory that exists, with what is missing below it.
Anchor == <<parent, folder>>

Free(f) == <<f, "target">> \notin squat /\ place[f] # "target"

\* move_blockers: an operation in doubt holds its files and its targets.
InDoubt(f) ==
    \E o \in Kept : rows[o].status \in Unresolved /\ f \in DOMAIN rows[o].items

Prepare(o, batch) ==
    LET op == [status |-> "AwaitingConfirmation",
               items |-> [f \in batch |-> "NotStarted"],
               shown |-> [f \in batch |-> version[f]],
               dir |-> [status |-> IF folder = 0 THEN "NotStarted" ELSE "None",
                        id |-> 0],
               anchor |-> Anchor]
    IN
    /\ pc = "idle" /\ rows[o].status = "none"
    /\ \A f \in batch : place[f] = "source" /\ Free(f) /\ ~InDoubt(f)
    /\ rows' = [rows EXCEPT ![o] = op] /\ mem' = op
    /\ pc' = "asking" /\ cur' = o /\ cancelled' = FALSE
    /\ UNCHANGED <<reads, disk, troubles, history>>

Return == pc' = "idle" /\ cur' = NoOp /\ mem' = Blank

\* An early end: the status is saved, or the error of the save is returned.
EndWith(status) ==
    /\ \/ Save([mem EXCEPT !.status = status]) /\ Calm
       \/ Trouble /\ UNCHANGED rows
    /\ Return

\* The dialog answers, refuses or fails; a cancelled turn counts as refusal.
Answer(yes) ==
    /\ pc = "asking"
    /\ IF yes /\ ~cancelled
       THEN /\ pc' = "checking" /\ agreed' = agreed \cup {cur}
            /\ UNCHANGED <<rows, mem, cur, troubles>>
       ELSE EndWith("Cancelled") /\ UNCHANGED agreed
    /\ UNCHANGED <<cancelled, reads, disk, moved, made, touched>>

Cancel ==
    /\ cur # NoOp /\ ~cancelled /\ cancelled' = TRUE
    /\ UNCHANGED <<rows, mem, pc, cur, reads, disk, troubles, history>>

\* preflight: the whole plan once more, before the first effect.
AsShown ==
    /\ mem.anchor = Anchor
    /\ \A f \in DOMAIN mem.items :
          place[f] = "source" /\ version[f] = mem.shown[f] /\ Free(f)

Preflight ==
    /\ pc = "checking"
    /\ IF AsShown
       THEN LET op == [mem EXCEPT !.status = "Executing"] IN
            \/ Save(op) /\ mem' = op /\ pc' = "pinning" /\ Calm /\ UNCHANGED cur
            \/ Trouble /\ Return /\ UNCHANGED rows
       ELSE EndWith("Invalidated")
    /\ UNCHANGED <<cancelled, reads, disk, history>>

\* An error inside execute: Unknown, saved once more if that works.
Interrupted(op) ==
    /\ Trouble /\ Return
    /\ \/ Save([op EXCEPT !.status = "Unknown"])
       \/ UNCHANGED rows

\* Step(op, next): one save inside execute.
Step(op, next) ==
    \/ Save(op) /\ mem' = op /\ pc' = next /\ Calm /\ UNCHANGED cur
    \/ Interrupted(op)

\* The anchor is pinned, and must be the one that was confirmed.
Pin ==
    /\ pc = "pinning"
    /\ IF IF mem.dir.status = "None" THEN mem.anchor = Anchor
                                     ELSE mem.anchor[1] = parent
       THEN /\ pc' = IF mem.dir.status = "None" THEN "items" ELSE "mkdir"
            /\ UNCHANGED <<rows, mem, cur>>
       ELSE /\ Return
            /\ UNCHANGED rows \/ Save([mem EXCEPT !.status = "Unknown"])
    /\ UNCHANGED <<cancelled, reads, disk, troubles, history>>

NotePlannedDirectory ==
    /\ pc = "mkdir"
    /\ IF cancelled
       THEN pc' = "ending" /\ UNCHANGED <<rows, mem, cur, troubles>>
       ELSE Step([mem EXCEPT !.dir.status = "Executing"], "making")
    /\ UNCHANGED <<cancelled, reads, disk, history>>

\* create_dir; the identity of the new directory may be unreadable.
CreateDirectory ==
    /\ pc = "making"
    /\ \/ /\ folder = 0 /\ folder' = 1 /\ made' = made \cup {cur}
          /\ \/ /\ mem' = [mem EXCEPT !.dir = [status |-> "Unknown", id |-> 1]]
                /\ pc' = "made" /\ UNCHANGED <<rows, cur, troubles>>
             \/ Interrupted([mem EXCEPT !.dir.status = "Unknown"])
       \/ /\ \/ folder # 0 /\ Step([mem EXCEPT !.dir.status = "Failed"], "ending")
             \/ folder = 0 /\ Trouble /\ UNCHANGED cur
                /\ Save([mem EXCEPT !.dir.status = "Failed"])
                /\ mem' = [mem EXCEPT !.dir.status = "Failed"] /\ pc' = "ending"
          /\ UNCHANGED <<folder, made>>
    /\ UNCHANGED <<cancelled, reads, place, version, squat, parent, moved,
                   agreed, touched>>

NoteDirectory ==
    /\ pc = "made"
    /\ Step([mem EXCEPT !.dir.status = "Succeeded"], "items")
    /\ UNCHANGED <<cancelled, reads, disk, history>>

Working == {f \in DOMAIN mem.items : mem.items[f] \in {"Executing", "Verifying"}}

\* Mutant: the item is renamed before the journal says so.
StartItemUnsaved(f) ==
    /\ pc = "items" /\ ~cancelled
    /\ f \in DOMAIN mem.items /\ mem.items[f] = "NotStarted"
    /\ place[f] = "source" /\ version[f] = mem.shown[f] /\ Free(f)
    /\ mem' = [mem EXCEPT !.items[f] = "Executing"] /\ pc' = "moving"
    /\ UNCHANGED <<rows, cur, cancelled, reads, disk, troubles, history>>

\* The next item in the order of the batch, after its own check.
StartItem(f) ==
    /\ pc = "items" /\ ~cancelled
    /\ f \in DOMAIN mem.items /\ mem.items[f] = "NotStarted"
    /\ IF place[f] = "source" /\ version[f] = mem.shown[f] /\ Free(f)
       THEN Step([mem EXCEPT !.items[f] = "Executing"], "moving")
       ELSE Step([mem EXCEPT !.items[f] = "Failed"], "ending")
    /\ UNCHANGED <<cancelled, reads, disk, history>>

NoItemLeft ==
    /\ pc = "items" /\ pc' = "ending"
    /\ cancelled \/ \A f \in DOMAIN mem.items : mem.items[f] # "NotStarted"
    /\ UNCHANGED <<rows, mem, cur, cancelled, reads, disk, troubles, history>>

\* Mutant: the identity is not compared again when the file is renamed.
RenameWhateverIsThere(f) ==
    /\ pc = "moving" /\ f \in Working /\ pc' = "moved"
    /\ mem' = [mem EXCEPT !.items[f] = "Verifying"]
    /\ place[f] = "source" /\ Free(f)
    /\ place' = [place EXCEPT ![f] = "target"]
    /\ moved' = moved \cup {<<cur, f>>}
    /\ UNCHANGED <<rows, cur, cancelled, reads, version, squat, folder,
                   parent, made, agreed, touched, troubles>>

\* move_file: one handle for the identity and for the rename, which never
\* replaces a file.  What it returns is only noted as evidence.
Rename(f) ==
    /\ pc = "moving" /\ f \in Working /\ pc' = "moved"
    /\ mem' = [mem EXCEPT !.items[f] = "Verifying"]
    /\ \/ /\ place[f] = "source" /\ version[f] = mem.shown[f] /\ Free(f)
          /\ place' = [place EXCEPT ![f] = "target"]
          /\ moved' = moved \cup {<<cur, f>>} /\ Calm
       \/ /\ IF place[f] = "source" /\ version[f] = mem.shown[f] /\ Free(f)
             THEN Trouble ELSE Calm
          /\ UNCHANGED <<place, moved>>
    /\ UNCHANGED <<rows, cur, cancelled, reads, version, squat, folder,
                   parent, made, agreed, touched>>

NoteCall ==
    /\ pc = "moved" /\ Step(mem, "observing")
    /\ UNCHANGED <<cancelled, reads, disk, history>>

Observe(f) ==
    /\ pc = "observing" /\ f \in Working
    /\ \E seen \in {Observed(f, mem.shown[f]), "Unknown"} :
          Step([mem EXCEPT !.items[f] = seen],
               IF seen = "Succeeded" THEN "items" ELSE "ending")
    /\ UNCHANGED <<cancelled, reads, disk, history>>

Finish ==
    /\ pc = "ending" /\ EndWith(Aggregate(mem, cancelled))
    /\ UNCHANGED <<cancelled, reads, disk, history>>

-----------------------------------------------------------------------------
(* Other programs.  Directories are pinned while an operation executes. *)

Executing == pc \in {"items", "moving", "moved", "observing", "ending"}

Relocate(f, where) ==
    /\ Trouble /\ place[f] # where
    /\ where # "away" => <<f, where>> \notin squat
    /\ where = "target" => folder # 0
    /\ place' = [place EXCEPT ![f] = where] /\ touched' = touched \cup {f}
    /\ UNCHANGED <<rows, process, version, squat, folder, parent, moved, made,
                   agreed>>

Write(f) ==
    /\ Trouble /\ version' = [version EXCEPT ![f] = @ + 1]
    /\ UNCHANGED <<rows, process, place, squat, folder, parent, history>>

Squat(f, where) ==
    /\ Trouble /\ place[f] # where /\ <<f, where>> \notin squat
    /\ where = "target" => folder # 0
    /\ squat' = squat \cup {<<f, where>>}
    /\ UNCHANGED <<rows, process, place, version, folder, parent, history>>

\* The target directory is made, replaced or removed by someone else, or the
\* directory it would be made in is replaced; not while a handle pins it.
Rebuild ==
    /\ Trouble
    /\ \/ /\ \A f \in Files : Free(f)
          /\ ~Executing /\ pc \in {"mkdir", "making"} => folder = 0
          /\ folder' \in {0, 2} \ {folder} /\ UNCHANGED parent
       \/ /\ folder = 0 /\ pc \notin {"mkdir", "making", "made"} /\ ~Executing
          /\ parent' = parent + 1 /\ UNCHANGED folder
    /\ UNCHANGED <<rows, process, place, version, squat, history>>

Life ==
    \/ \E old \in SUBSET Kept : Open(old)
    \/ \E o \in Ops : \E seen \in [Files -> {"Succeeded", "Failed", "Unknown"}] :
          Reconcile(o, seen)
    \/ Started \/ ClearCompleted \/ Crash

Operate ==
    \/ \E o \in Ops, batch \in Batches : Prepare(o, batch)
    \/ \E yes \in BOOLEAN : Answer(yes)
    \/ Cancel \/ Preflight \/ Pin \/ NotePlannedDirectory \/ CreateDirectory
    \/ NoteDirectory \/ NoItemLeft \/ NoteCall \/ Finish
    \/ \E f \in Files : StartItem(f) \/ Rename(f) \/ Observe(f)

Others ==
    \/ Rebuild
    \/ \E f \in Files :
          \/ Write(f)
          \/ \E where \in {"source", "target", "away"} : Relocate(f, where)
          \/ \E where \in {"source", "target"} : Squat(f, where)

Next == Life \/ Operate \/ Others

Spec == Init /\ [][Next]_vars

-----------------------------------------------------------------------------
(* Properties *)

\* The journal tells the truth about a file that no other program has moved,
\* at every moment, after any crash and any failed save: an item it calls
\* done was renamed by that operation, one it calls failed or not started
\* was not; an operation it calls cancelled, failed or invalidated has moved
\* nothing, and one it calls succeeded has moved everything.
JournalTruthful ==
    \A o \in Kept : \A f \in DOMAIN rows[o].items \ touched :
        /\ rows[o].items[f] = "Succeeded" => <<o, f>> \in moved
        /\ rows[o].items[f] \in {"Failed", "NotStarted"} => <<o, f>> \notin moved
        /\ rows[o].status \in {"Cancelled", "Failed", "Invalidated"}
              => <<o, f>> \notin moved
        /\ rows[o].status = "Succeeded" => <<o, f>> \in moved

\* A file is part of at most one operation whose outcome is open, whatever
\* process started it: the next plan for the file waits for a reconciliation.
OneInDoubt ==
    \A f \in Files :
        Cardinality({o \in Kept : /\ rows[o].status \in Unresolved
                                  /\ f \in DOMAIN rows[o].items}) <= 1

\* A file is only renamed by an operation the user has agreed to, once, when
\* the journal already says so, as the version that was shown, and never
\* onto another file; restarts and reconciliations rename nothing.
MoveConfirmed ==
    \A o \in Ops, f \in Files :
       /\ <<o, f>> \in moved' \ moved =>
             /\ o \in agreed /\ o = cur
             /\ rows[o].status = "Executing" /\ rows[o].items[f] = "Executing"
             /\ version[f] = rows[o].shown[f] /\ <<f, "target">> \notin squat
       /\ place'[f] # place[f] /\ f \notin touched' => <<cur, f>> \in moved' \ moved
MovesAsConfirmed == [][MoveConfirmed]_vars
=============================================================================
