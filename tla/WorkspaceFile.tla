--------------------------- MODULE WorkspaceFile ---------------------------
(***************************************************************************)
(* The file the desktop keeps its visible history in, src/workspace.rs, as *)
(* several desktop processes and other programs see it.  A process takes a *)
(* lock for its life when it first loads the file, remembers the bytes it  *)
(* loaded or last wrote, and refuses to write over any others.  Which      *)
(* sessions a saved value may name is the bridge's concern and is in       *)
(* module BridgeAdmission; a value here is one of Texts, whatever is in    *)
(* it.                                                                     *)
(***************************************************************************)

CONSTANTS Desktops,     \* desktop processes, one after the other or at once
          Texts,        \* the values that pass Workspace::validate
          Missing,      \* no file
          Damaged,      \* bytes that do not parse, or do not validate
          NoText,       \* nothing pending
          Nobody        \* the lock file is not locked

VARIABLES disk,         \* what the file holds
          lockHolder,   \* who has the lock file locked
          process,      \* per desktop: "down", "up", or "writing"
          loaded,       \* per desktop: the file was read and understood
          expected,     \* per desktop: the comparison baseline
          pending,      \* per desktop: the value of the save under way
          slipped       \* per desktop: another program wrote the file after
                        \* the comparison of the save under way

vars == <<disk, lockHolder, process, loaded, expected, pending, slipped>>

Contents == Texts \union {Missing, Damaged}

TypeOK ==
  /\ disk \in Contents
  /\ lockHolder \in Desktops \union {Nobody}
  /\ process \in [Desktops -> {"down", "up", "writing"}]
  /\ loaded \in [Desktops -> BOOLEAN]
  /\ expected \in [Desktops -> Texts \union {Missing}]
  /\ pending \in [Desktops -> Texts \union {NoText}]
  /\ slipped \in [Desktops -> BOOLEAN]

Init ==
  /\ disk \in Contents
  /\ lockHolder = Nobody
  /\ process = [p \in Desktops |-> "down"]
  /\ loaded = [p \in Desktops |-> FALSE]
  /\ expected = [p \in Desktops |-> Missing]
  /\ pending = [p \in Desktops |-> NoText]
  /\ slipped = [p \in Desktops |-> FALSE]

(* A process starts with a store that has loaded nothing. *)
Start(p) ==
  /\ process[p] = "down"
  /\ process' = [process EXCEPT ![p] = "up"]
  /\ UNCHANGED <<disk, lockHolder, loaded, expected, pending, slipped>>

\* Mutant: the answer of try_lock is ignored.
LockForAnyone(p) == TRUE

(* try_lock: the lock is there to take, or already this process's. *)
LockFor(p) == lockHolder \in {Nobody, p}

(* The load of a process that gets the lock.  The lock is kept to the end   *)
(* of the process, whether or not what was read can be used; the baseline   *)
(* and the permission to save need a file that was read and understood.     *)
Load(p) ==
  /\ process[p] = "up"
  /\ LockFor(p)
  /\ lockHolder' = p
  /\ \/ /\ disk # Damaged
        /\ expected' = [expected EXCEPT ![p] = disk]
        /\ loaded' = [loaded EXCEPT ![p] = TRUE]
     \/ UNCHANGED <<expected, loaded>>      \* damaged, or the read failed
  /\ UNCHANGED <<disk, process, pending, slipped>>

(* The first half of save: only after a load, only over the bytes that were *)
(* loaded or last written.  A save that is refused here changes nothing.    *)
Compare(p) ==
  /\ process[p] = "up"
  /\ loaded[p]
  /\ disk = expected[p]
  /\ \E text \in Texts : pending' = [pending EXCEPT ![p] = text]
  /\ process' = [process EXCEPT ![p] = "writing"]
  /\ UNCHANGED <<disk, lockHolder, loaded, expected, slipped>>

SaveOver(p) ==
  /\ process' = [process EXCEPT ![p] = "up"]
  /\ pending' = [pending EXCEPT ![p] = NoText]
  /\ slipped' = [slipped EXCEPT ![p] = FALSE]

(* The second half: a temporary file renamed over the workspace in one step *)
(* of the file system.                                                      *)
Persist(p) ==
  /\ process[p] = "writing"
  /\ disk' = pending[p]
  /\ expected' = [expected EXCEPT ![p] = pending[p]]
  /\ SaveOver(p)
  /\ UNCHANGED <<lockHolder, loaded>>

(* The temporary file cannot be written or renamed: the file is as before,  *)
(* and so is the baseline.                                                  *)
PersistFails(p) ==
  /\ process[p] = "writing"
  /\ SaveOver(p)
  /\ UNCHANGED <<disk, lockHolder, loaded, expected>>

(* A process ends, at any point; the system releases its lock. *)
Exit(p) ==
  /\ process[p] # "down"
  /\ process' = [process EXCEPT ![p] = "down"]
  /\ lockHolder' = IF lockHolder = p THEN Nobody ELSE lockHolder
  /\ loaded' = [loaded EXCEPT ![p] = FALSE]
  /\ expected' = [expected EXCEPT ![p] = Missing]
  /\ pending' = [pending EXCEPT ![p] = NoText]
  /\ slipped' = [slipped EXCEPT ![p] = FALSE]
  /\ UNCHANGED disk

(* A program that knows nothing of the lock edits, damages or removes the   *)
(* file.                                                                    *)
Outside ==
  /\ disk' \in Contents \ {disk}
  /\ slipped' = [p \in Desktops |-> slipped[p] \/ process[p] = "writing"]
  /\ UNCHANGED <<lockHolder, process, loaded, expected, pending>>

Next ==
  \/ \E p \in Desktops :
       Start(p) \/ Load(p) \/ Compare(p) \/ Persist(p) \/ PersistFails(p) \/ Exit(p)
  \/ Outside

Spec == Init /\ [][Next]_vars

(***************************************************************************)
(* Properties                                                              *)
(***************************************************************************)

(* WorkspaceStore::save (src/workspace.rs:152-180) says that the lifetime   *)
(* lock serializes cooperating processes and that the comparison detects    *)
(* outside edits.  The comparison and the rename are two steps, so together *)
(* they mean: what a process writes over is what it last loaded or wrote    *)
(* itself, unless another program changed the file between the two steps.   *)
(* No desktop ever writes over the history another desktop saved, nor over  *)
(* a damaged file a user may still want to repair.                          *)
WritesOverSeen ==
  \A p \in Desktops :
    (process[p] = "writing" /\ process'[p] = "up" /\ expected'[p] # expected[p])
      => disk = expected[p] \/ slipped[p]
NothingOverwrittenUnseen == [][WritesOverSeen]_vars

(* Who may save holds the lock, and nobody else has written what it is      *)
(* about to write over.                                                     *)
MayWrite(p) ==
  /\ loaded[p] => lockHolder = p
  /\ process[p] = "writing" =>
       loaded[p] /\ pending[p] \in Texts /\ (disk = expected[p] \/ slipped[p])

(* The inductive invariant. *)
Inductive == TypeOK /\ \A p \in Desktops : MayWrite(p)
=============================================================================
