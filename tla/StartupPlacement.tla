--------------------------- MODULE StartupPlacement ---------------------------
(***************************************************************************)
(* Startup entries: disabling moves a shortcut out of the user's Startup   *)
(* folder into a directory of its own, restoring moves it back             *)
(* (src/software/startup.rs, startup_targets and startup_change in         *)
(* store.rs, local_transition and check_startup in engine.rs).  Receipts   *)
(* are those of ActionJournal; each carries the proof of the move: where   *)
(* the shortcut was, where it is kept, which file it is.                   *)
(*                                                                         *)
(* A file of Files stands for an identity with a content: a rewritten      *)
(* shortcut is another file.  The place a disabled shortcut is kept at is  *)
(* named after the operation that disables it.  Other programs create,     *)
(* rewrite and delete shortcuts, and people put them back by hand.         *)
(*                                                                         *)
(* Bounds: MaxOps operations; MaxTroubles meddlings, failed reads, failed  *)
(* saves, failed calls and crashes.                                        *)
(***************************************************************************)
EXTENDS ActionJournal

CONSTANTS Names, Files, Nobody, MaxOps, MaxTroubles

VARIABLES
    startup,    \* name -> the file in the Startup folder, or Nobody
    retained,   \* operation -> the file kept for it, or Nobody
    folder,     \* DaoShellDisabledStartup: "none", "bare" or "owned"
    rows,       \* the receipts
    refs,       \* the shortcuts startup_targets has shown
    step, work, current,   \* the call: where it stands, on what, its number
    troubles

disk == <<startup, retained, folder>>
call == <<step, work, current>>
vars == <<disk, rows, refs, call, troubles>>

Slots == 1 .. MaxOps

\* saved is the operation whose place keeps the file, 0 for a shortcut that
\* is still to be disabled.
Proofs == [name : Names, saved : 0 .. MaxOps, file : Files]
Lives == {"none", "dispatching", "unknown", "verified", "cancelled_before_dispatch",
          "startup_checked_retained", "startup_checked_original"}
Receipts == [life : Lives, aged : BOOLEAN, proof : Proofs,
             kind : {"startup_disable", "startup_restore"}]
SomeProof == CHOOSE p \in Proofs : TRUE
NoRow == [life |-> "none", aged |-> FALSE, kind |-> "startup_disable", proof |-> SomeProof]

TypeOK ==
    /\ startup \in [Names -> Files \cup {Nobody}]
    /\ retained \in [Slots -> Files \cup {Nobody}]
    /\ folder \in {"none", "bare", "owned"}
    /\ rows \in [Slots -> Receipts]
    /\ refs \subseteq Proofs /\ work \in Proofs /\ current \in 0 .. MaxOps
    /\ step \in {"idle", "asking", "recorded", "marking", "ready", "moved", "failed"}

Init ==
    /\ startup \in [Names -> Files \cup {Nobody}]
    /\ \A n, m \in Names : startup[n] = startup[m] /\ n # m => startup[n] = Nobody
    /\ retained = [o \in Slots |-> Nobody] /\ folder = "none"
    /\ rows = [o \in Slots |-> NoRow] /\ refs = {}
    /\ step = "idle" /\ work = SomeProof /\ current = 0 /\ troubles = 0

Trouble == troubles < MaxTroubles /\ troubles' = troubles + 1
Calm == UNCHANGED troubles

\* Every entry opens the journal anew, which recovers and prunes it.
AsOpened == Opened(rows, [o \in Slots |-> rows[o].kind])

-----------------------------------------------------------------------------
(* startup_targets: check every receipt, then show what can be changed. *)

\* observe: the file of the proof at one end, and nothing at the other.  The
\* end it is kept at is read only while the marker says whose it is.
Observed(p) ==
    CASE folder = "bare" -> "conflict_or_unknown"
      [] startup[p.name] = p.file /\ retained[p.saved] = Nobody -> "original"
      [] startup[p.name] = Nobody /\ retained[p.saved] = p.file -> "retained"
      [] OTHER -> "conflict_or_unknown"

\* check_startup passes over a receipt once its file was seen back at its
\* place, and never changes one that was cancelled.
ToCheck(row) == row.life \in {"unknown", "verified", "startup_checked_retained"}

\* A failed read is not an absence.
Checked(row, unread) ==
    IF ~ToCheck(row) THEN row
    ELSE [row EXCEPT !.life =
            CASE unread \/ Observed(row.proof) = "conflict_or_unknown" -> "unknown"
              [] Observed(row.proof) = "retained" -> "startup_checked_retained"
              [] OTHER -> "startup_checked_original"]

\* What is shown: every shortcut to disable, every kept one to restore.
Shown(j) ==
    {[name |-> n, saved |-> 0, file |-> startup[n]] : n \in {m \in Names : startup[m] # Nobody}}
      \cup {j[o].proof : o \in {p \in Slots : /\ j[p].life = "startup_checked_retained"
                                            /\ retained[j[p].proof.saved] = j[p].proof.file}}

\* Receipts are saved newest first; a save that fails ends the listing.
List(unread, done) ==
    /\ step = "idle"
    /\ (unread = {} /\ done = 0 /\ Calm) \/ Trouble
    /\ LET j == [o \in Slots |-> IF o > done THEN Checked(AsOpened[o], o \in unread)
                                          ELSE AsOpened[o]]
       IN  rows' = j /\ refs' = IF done = 0 THEN Shown(j) ELSE {}
    /\ UNCHANGED <<disk, call>>

-----------------------------------------------------------------------------
(* startup_change and local_transition. *)

\* blocks: an unsettled receipt about the same Startup entry.
Blocked(name) ==
    \E o \in Slots : AsOpened[o].life \in Pending /\ AsOpened[o].proof.name = name

Disabling == work.saved = current

Ask(ref) ==
    /\ step = "idle" /\ current < MaxOps /\ ref \in refs
    /\ rows' = AsOpened
    /\ \/ Blocked(ref.name) /\ UNCHANGED call
       \/ /\ ~Blocked(ref.name)
          /\ step' = "asking" /\ current' = current + 1
          /\ work' = IF ref.saved = 0 THEN [ref EXCEPT !.saved = current + 1] ELSE ref
    /\ UNCHANGED <<disk, refs>> /\ Calm

Decline ==
    /\ step = "asking" /\ step' = "idle"
    /\ UNCHANGED <<disk, rows, refs, work, current>> /\ Calm

Receipt(life) ==
    [life |-> life, aged |-> FALSE, proof |-> work,
     kind |-> IF Disabling THEN "startup_disable" ELSE "startup_restore"]

\* The proof is on record before anything moves.
Record ==
    /\ step = "asking"
    /\ \/ /\ rows' = [rows EXCEPT ![current] = Receipt("dispatching")]
          /\ step' = "recorded" /\ Calm
       \/ Trouble /\ step' = "idle" /\ UNCHANGED rows
    /\ UNCHANGED <<disk, refs, work, current>>

\* Cancelled, or 90 seconds after the question.
Withdraw ==
    /\ step = "recorded" /\ step' = "idle"
    /\ \/ rows' = [rows EXCEPT ![current] = Receipt("cancelled_before_dispatch")] /\ Calm
       \/ Trouble /\ UNCHANGED rows
    /\ UNCHANGED <<disk, refs, work, current>>

\* with_retention: a directory without its marker belongs to somebody else.
MakeFolder ==
    /\ step = "recorded" /\ Disabling /\ folder = "none"
    /\ folder' = "bare" /\ step' = "marking"
    /\ UNCHANGED <<startup, retained, rows, refs, work, current>> /\ Calm

MarkFolder ==
    /\ step = "marking"
    /\ \/ folder' = "owned" /\ step' = "ready" /\ Calm
       \/ Trouble /\ step' = "failed" /\ UNCHANGED folder
    /\ UNCHANGED <<startup, retained, rows, refs, work, current>>

EnterFolder ==
    /\ step = "recorded" /\ (folder # "none" \/ ~Disabling)
    /\ step' = IF folder = "owned" THEN "ready" ELSE "failed"
    /\ UNCHANGED <<disk, rows, refs, work, current>> /\ Calm

\* move_file_checked: the file of the proof, to a place nobody has taken.
Movable ==
    IF Disabling THEN startup[work.name] = work.file /\ retained[current] = Nobody
                 ELSE retained[work.saved] = work.file /\ startup[work.name] = Nobody

\* The rename can fail, and so can the look at the moved file after it.
Relocate ==
    /\ step = "ready"
    /\ \/ /\ Movable
          /\ startup' = [startup EXCEPT ![work.name] = IF Disabling THEN Nobody
                                                       ELSE retained[work.saved]]
          /\ retained' = [retained EXCEPT ![work.saved] = IF Disabling THEN startup[work.name]
                                                          ELSE Nobody]
          /\ (step' = "moved" /\ Calm) \/ (step' = "failed" /\ Trouble)
       \/ ~Movable /\ step' = "failed" /\ UNCHANGED disk /\ Calm
       \/ step' = "failed" /\ UNCHANGED disk /\ Trouble
    /\ UNCHANGED <<folder, rows, refs, work, current>>

\* finish: the outcome of a failed call is unknown, and so is one whose save
\* fails, which leaves "dispatching" behind.
Finish ==
    /\ step \in {"moved", "failed"} /\ step' = "idle"
    /\ \/ /\ rows' = [rows EXCEPT ![current] =
                        Receipt(IF step = "moved" THEN "verified" ELSE "unknown")]
          /\ Calm
       \/ Trouble /\ UNCHANGED rows
    /\ UNCHANGED <<disk, refs, work, current>>

Crash ==
    /\ Trouble /\ step' = "idle" /\ refs' = {}
    /\ UNCHANGED <<disk, rows, work, current>>

-----------------------------------------------------------------------------
(* The world. *)

Nowhere(f) == (\A n \in Names : startup[n] # f) /\ (\A o \in Slots : retained[o] # f)

\* A program writes its shortcut, or rewrites it.
OthersWrite(n, f) ==
    /\ Trouble /\ Nowhere(f)
    /\ startup' = [startup EXCEPT ![n] = f]
    /\ UNCHANGED <<retained, folder, rows, refs, call>>

OthersDelete(n) ==
    /\ Trouble /\ startup[n] # Nobody
    /\ startup' = [startup EXCEPT ![n] = Nobody]
    /\ UNCHANGED <<retained, folder, rows, refs, call>>

\* A kept shortcut is deleted, or put back by hand.
OthersTake(o, n) ==
    /\ Trouble /\ retained[o] # Nobody
    /\ retained' = [retained EXCEPT ![o] = Nobody]
    /\ \/ UNCHANGED startup
       \/ startup[n] = Nobody /\ startup' = [startup EXCEPT ![n] = retained[o]]
    /\ UNCHANGED <<folder, rows, refs, call>>

\* A receipt becomes older than seven days.
Age(o) ==
    /\ rows[o].life # "none" /\ ~rows[o].aged
    /\ rows' = [rows EXCEPT ![o].aged = TRUE]
    /\ UNCHANGED <<disk, refs, call>> /\ Calm

Next ==
    \/ \E unread \in SUBSET Slots, done \in 0 .. MaxOps : List(unread, done)
    \/ \E ref \in refs : Ask(ref)
    \/ Decline \/ Record \/ Withdraw \/ MakeFolder \/ MarkFolder \/ EnterFolder
    \/ Relocate \/ Finish \/ Crash
    \/ \E n \in Names, f \in Files : OthersWrite(n, f)
    \/ \E n \in Names : OthersDelete(n)
    \/ \E o \in Slots, n \in Names : OthersTake(o, n)
    \/ \E o \in Slots : Age(o)

Spec == Init /\ [][Next]_vars

\* A shortcut the shell keeps is never forgotten: as long as it lies where
\* the shell put it, a receipt that is neither settled nor pruned proves
\* which file it is and where it belongs, so that a later check can offer to
\* restore it.  A crash or a failed save after the move, a check that fails,
\* old age and another file in its place must not lose that receipt.
KeptIsOnRecord ==
    \A o \in Slots : retained[o] # Nobody =>
        \E p \in Slots :
            /\ rows[p].life \in {"dispatching", "unknown", "verified", "startup_checked_retained"}
            /\ rows[p].proof.saved = o /\ rows[p].proof.file = retained[o]
=============================================================================
