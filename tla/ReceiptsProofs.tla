---------------------------- MODULE ReceiptsProofs ----------------------------
(***************************************************************************)
(* Proofs about Receipts: the startup entries, the moving of files, and    *)
(* the sum of the parts.                                                   *)
(*                                                                         *)
(* A shortcut that is kept lies where the operation that disabled it put   *)
(* it, so the receipt that accounts for it is that operation's own: it has *)
(* the proof of the file that lies there, and no check, no old age and no  *)
(* later operation settles it before the shortcut is gone (KeptOwn).  Why  *)
(* this is so while the operation is under way, StartupCallInv says: until *)
(* the move nothing lies at its place, and from the first save to the last *)
(* its receipt is the one it saved.                                        *)
(*                                                                         *)
(* That the journal of MoveOperations tells the truth is not inductive     *)
(* either: what a restart writes about an item in doubt it only reads off  *)
(* the disk.  Two facts make this sound.  A file no other program has      *)
(* moved is at its target exactly when some operation has renamed it       *)
(* (MovePlaceInv); and a file is held by one operation whose outcome is    *)
(* open, which alone has renamed it since (MoveRowsInv).  MoveMemInv says  *)
(* how far the operation in memory is ahead of its row: only between the   *)
(* rename and the next save.                                               *)
(*                                                                         *)
(* The proofs about the engine are those of MaintenanceEngineProofs.       *)
(***************************************************************************)
EXTENDS Receipts, FiniteSetTheorems, TLAPS

-----------------------------------------------------------------------------
(* StartupPlacement: v1 is startup, v2 retained, v3 folder, v4 rows, v5     *)
(* refs, v6 step, v7 work, v8 current, v9 troubles.                         *)

Underway == {"recorded", "marking", "ready", "moved", "failed"}
Unmoved == {"asking", "recorded", "marking", "ready"}
Accounted == {"dispatching", "unknown", "verified", "startup_checked_retained"}

\* The row of operation o accounts for the file kept for it.
Accounts(o, row, file) ==
    /\ row.life \in Accounted /\ row.kind = "startup_disable"
    /\ row.proof.saved = o /\ row.proof.file = file

KeptOwn ==
    \A o \in Startup!Slots : v2[o] # NoHost => o <= v8 /\ Accounts(o, v4[o], v2[o])

StartupCallInv ==
    /\ v6 # "idle" => v8 \in Startup!Slots
    /\ v6 \in Unmoved => v2[v8] = NoHost
    /\ v6 \in Underway => /\ v4[v8].life = "dispatching" /\ v4[v8].proof = v7
                          /\ Startup!Disabling => v4[v8].kind = "startup_disable"

StartupInv == Startup!TypeOK /\ KeptOwn /\ StartupCallInv

\* The first receipts, and what the operation at hand writes, are receipts.
LEMMA StartupStart ==
    ASSUME Startup!Init
    PROVE  StartupInv
<1> USE DEF Startup!Init
<1>1. Startup!SomeProof \in Startup!Proofs
  <2>1. PICK n \in Names, f \in Files : TRUE
    BY StartupAssumption
  <2>2. [name |-> n, saved |-> 0, file |-> f] \in Startup!Proofs
    BY StartupAssumption DEF Startup!Proofs
  <2> QED
    BY <2>2 DEF Startup!SomeProof
<1>2. Startup!NoRow \in Startup!Receipts
  BY <1>1 DEF Startup!NoRow, Startup!Receipts, Startup!Lives
<1>3. Startup!TypeOK
  BY <1>1, <1>2, StartupAssumption DEF Startup!TypeOK, Startup!Slots
<1>4. KeptOwn /\ StartupCallInv
  BY DEF KeptOwn, StartupCallInv, Unmoved, Underway
<1> QED
  BY <1>3, <1>4 DEF StartupInv

\* What the types say of the variables.
LEMMA StartupFacts ==
    ASSUME Startup!TypeOK
    PROVE  /\ v1 \in [Names -> Files \cup {NoHost}]
           /\ v2 \in [Startup!Slots -> Files \cup {NoHost}]
           /\ v4 \in [Startup!Slots -> Startup!Receipts]
           /\ v5 \subseteq Startup!Proofs /\ v7 \in Startup!Proofs
           /\ v8 \in Nat /\ v8 <= MaxStartupOps /\ MaxStartupOps \in Nat
           /\ \A o : o \in Startup!Slots <=> o \in Nat /\ 1 <= o /\ o <= MaxStartupOps
  BY StartupAssumption DEF Startup!TypeOK, Startup!Slots

\* Opening the journal keeps who did what to which file, and what accounts for
\* a kept shortcut goes on to do so, however old it is.
LEMMA OpenedAccounts ==
    ASSUME Startup!TypeOK, NEW o \in Startup!Slots
    PROVE  /\ Startup!AsOpened[o] \in Startup!Receipts
           /\ Startup!AsOpened[o].proof = v4[o].proof
           /\ \A file : Accounts(o, v4[o], file) => Accounts(o, Startup!AsOpened[o], file)
<1> DEFINE row == v4[o]
           now == Startup!Recovered(row)
           new == Startup!Pruned(row.kind, now, FALSE)
<1>1. row \in Startup!Receipts
  BY StartupFacts
<1>2. Startup!AsOpened[o] = new
  BY StartupFacts DEF Startup!AsOpened, Startup!Opened
<1>3. now \in {row, [row EXCEPT !.life = "unknown"]}
  BY DEF Startup!Recovered
<1>4. new \in {now, [now EXCEPT !.life = "none"]}
  BY DEF Startup!Pruned
<1>5. now \in Startup!Receipts /\ now.proof = row.proof /\ now.kind = row.kind
  BY <1>1, <1>3 DEF Startup!Receipts, Startup!Lives
<1>6. new \in Startup!Receipts /\ new.proof = now.proof /\ new.kind = now.kind
  BY <1>4, <1>5 DEF Startup!Receipts, Startup!Lives
<1>7. ASSUME row.life \in Accounted, row.kind = "startup_disable"
      PROVE  new.life \in Accounted
  <2>1. now.life \in Accounted
    BY <1>1, <1>3, <1>7 DEF Startup!Receipts, Accounted
  <2>2. Startup!Retained(row.kind, now)
    BY <1>7, <2>1 DEF Startup!Retained, Startup!Pending, Accounted
  <2> QED
    BY <2>1, <2>2 DEF Startup!Pruned
<1> HIDE DEF now, new
<1> QED
  BY <1>2, <1>5, <1>6, <1>7 DEF Accounts

\* A check of a receipt settles it only once the file is back and its place
\* empty.
LEMMA CheckedAccounts ==
    ASSUME NEW row \in Startup!Receipts, NEW unread \in BOOLEAN
    PROVE  /\ Startup!Checked(row, unread) \in Startup!Receipts
           /\ Startup!Checked(row, unread).proof = row.proof
           /\ \A o, file : Accounts(o, row, file) /\ v2[o] # NoHost
                             => Accounts(o, Startup!Checked(row, unread), file)
<1> DEFINE new == Startup!Checked(row, unread)
<1>1. \/ new = row
      \/ new = [row EXCEPT !.life = "unknown"]
      \/ new = [row EXCEPT !.life = "startup_checked_retained"]
      \/ /\ new = [row EXCEPT !.life = "startup_checked_original"]
         /\ Startup!Observed(row.proof) \notin {"conflict_or_unknown", "retained"}
  BY DEF Startup!Checked
<1>2. Startup!Observed(row.proof) \in {"conflict_or_unknown", "retained"}
        \/ v2[row.proof.saved] = NoHost
  BY DEF Startup!Observed
<1>3. new \in Startup!Receipts /\ new.proof = row.proof /\ new.kind = row.kind
  BY <1>1 DEF Startup!Receipts, Startup!Lives
<1>4. v2[row.proof.saved] # NoHost /\ row.life \in Accounted => new.life \in Accounted
  BY <1>1, <1>2 DEF Startup!Receipts, Accounted
<1> HIDE DEF new
<1>5. \A o, file : Accounts(o, row, file) /\ v2[o] # NoHost => Accounts(o, new, file)
  BY <1>3, <1>4 DEF Accounts
<1> QED
  BY <1>3, <1>5 DEF new

\* A step that only changes what receipts say keeps the invariant, when no
\* operation is under way and every receipt accounts for what it did.
LEMMA RowsKeep ==
    ASSUME StartupInv, v6' \in {"idle", "asking"}, v6' = "asking" => v8' = v8 + 1,
           UNCHANGED <<v1, v2, v3>>, v4' \in [Startup!Slots -> Startup!Receipts],
           \A o \in Startup!Slots :
               v2[o] # NoHost /\ Accounts(o, v4[o], v2[o]) => Accounts(o, v4'[o], v2[o]),
           v5' \subseteq Startup!Proofs, v7' \in Startup!Proofs,
           v8' \in {v8, v8 + 1}, v8' <= MaxStartupOps
    PROVE  StartupInv'
<1>1. Startup!TypeOK'
  BY StartupFacts DEF StartupInv, Startup!TypeOK, Startup!Slots
<1>2. v8 \in Nat
  BY StartupFacts DEF StartupInv
<1>3. KeptOwn'
  <2>1. ASSUME NEW o \in Startup!Slots, v2'[o] # NoHost
        PROVE  o <= v8' /\ Accounts(o, v4'[o], v2'[o])
    <3>1. o <= v8 /\ Accounts(o, v4[o], v2[o]) /\ o \in Nat
      BY <2>1, StartupFacts DEF StartupInv, KeptOwn
    <3> QED
      BY <1>2, <2>1, <3>1
  <2> QED
    BY <2>1 DEF KeptOwn, Startup!Slots
<1>4. StartupCallInv'
  <2>1. v6' = "asking" => v8' \in Startup!Slots /\ v2[v8'] = NoHost
    <3>1. v6' = "asking" => v8' \in Startup!Slots /\ ~(v8' <= v8)
      BY <1>2, StartupFacts DEF StartupInv
    <3> QED
      BY <3>1 DEF StartupInv, KeptOwn
  <2> QED
    BY <2>1 DEF StartupCallInv, Unmoved, Underway, Startup!Slots
<1> QED
  BY <1>1, <1>3, <1>4 DEF StartupInv

LEMMA ListKeeps ==
    ASSUME StartupInv, NEW unread \in SUBSET Startup!Slots, NEW done \in 0 .. MaxStartupOps,
           Startup!List(unread, done)
    PROVE  StartupInv'
<1> DEFINE j == [o \in Startup!Slots |->
                    IF o > done THEN Startup!Checked(Startup!AsOpened[o], o \in unread)
                                ELSE Startup!AsOpened[o]]
<1>1. /\ v6 = "idle" /\ v4' = j /\ v5' \in {Startup!Shown(j), {}}
      /\ UNCHANGED <<v1, v2, v3, v6, v7, v8>>
  BY DEF Startup!List, Startup!disk, Startup!call
<1>2. Startup!TypeOK
  BY DEF StartupInv
<1>3. ASSUME NEW o \in Startup!Slots
      PROVE  /\ j[o] \in Startup!Receipts
             /\ Accounts(o, v4[o], v2[o]) /\ v2[o] # NoHost => Accounts(o, j[o], v2[o])
  <2>1. /\ Startup!AsOpened[o] \in Startup!Receipts
        /\ Accounts(o, v4[o], v2[o]) => Accounts(o, Startup!AsOpened[o], v2[o])
    BY <1>2, OpenedAccounts
  <2> DEFINE now == Startup!AsOpened[o]
             read == o \in unread
             new == Startup!Checked(now, read)
  <2>2. read \in BOOLEAN
    OBVIOUS
  <2>3. j[o] \in {now, new}
    OBVIOUS
  <2> HIDE DEF now, read, j
  <2>4. /\ new \in Startup!Receipts
        /\ Accounts(o, now, v2[o]) /\ v2[o] # NoHost => Accounts(o, new, v2[o])
    BY <2>1, <2>2, CheckedAccounts DEF now
  <2> HIDE DEF new
  <2> QED
    BY <2>1, <2>3, <2>4 DEF now
<1>4. j \in [Startup!Slots -> Startup!Receipts]
  BY <1>3
<1> HIDE DEF j
<1>5. Startup!Shown(j) \subseteq Startup!Proofs
  <2>1. \A n \in Names : v1[n] # NoHost =>
            [name |-> n, saved |-> 0, file |-> v1[n]] \in Startup!Proofs
    BY <1>2, StartupFacts DEF Startup!Proofs
  <2>2. \A o \in Startup!Slots : j[o].proof \in Startup!Proofs
    BY <1>4 DEF Startup!Receipts
  <2> QED
    BY <2>1, <2>2 DEF Startup!Shown
<1>6. v7 \in Startup!Proofs /\ v8 <= MaxStartupOps
  BY <1>2, StartupFacts
<1> QED
  BY <1>1, <1>3, <1>4, <1>5, <1>6, RowsKeep

LEMMA AskKeeps ==
    ASSUME StartupInv, NEW ref \in v5, Startup!Ask(ref)
    PROVE  StartupInv'
<1>1. Startup!TypeOK
  BY DEF StartupInv
<1>2. /\ v6 = "idle" /\ v8 < MaxStartupOps /\ v4' = Startup!AsOpened
      /\ UNCHANGED <<v1, v2, v3, v5>>
      /\ \/ UNCHANGED <<v6, v7, v8>>
         \/ /\ v6' = "asking" /\ v8' = v8 + 1
            /\ v7' \in {ref, [ref EXCEPT !.saved = v8 + 1]}
  BY DEF Startup!Ask, Startup!disk, Startup!call
<1>3. ref \in Startup!Proofs /\ [ref EXCEPT !.saved = v8 + 1] \in Startup!Proofs
  BY <1>1, <1>2, StartupFacts DEF Startup!Proofs
<1>4. Startup!AsOpened \in [Startup!Slots -> Startup!Receipts]
  <2>1. Startup!AsOpened = [o \in Startup!Slots |-> Startup!AsOpened[o]]
    BY <1>1, StartupFacts DEF Startup!AsOpened, Startup!Opened
  <2> QED
    BY <1>1, <2>1, OpenedAccounts
<1>5. \A o \in Startup!Slots : Accounts(o, v4[o], v2[o]) => Accounts(o, v4'[o], v2[o])
  BY <1>1, <1>2, OpenedAccounts
<1>6. v5' \subseteq Startup!Proofs /\ v7 \in Startup!Proofs /\ v8 \in Nat /\ MaxStartupOps \in Nat
  BY <1>1, <1>2, StartupFacts
<1> QED
  BY <1>2, <1>3, <1>4, <1>5, <1>6, RowsKeep

\* A step of a call, or of other programs, that writes no receipt and keeps no
\* other shortcut than before.
LEMMA QuietKeeps ==
    ASSUME StartupInv, UNCHANGED <<v4, v7, v8>>,
           v1' \in [Names -> Files \cup {NoHost}], v3' \in {"none", "bare", "owned"},
           v2' \in [Startup!Slots -> Files \cup {NoHost}], v5' \subseteq v5,
           \A o \in Startup!Slots : v2'[o] \in {v2[o], NoHost},
           \/ v6' = "idle" \/ v6' = v6
           \/ v6 \in Underway /\ v6' \in Underway /\ (v6' \in Unmoved => v6 \in Unmoved)
    PROVE  StartupInv'
<1>1. Startup!TypeOK'
  BY DEF StartupInv, Startup!TypeOK, Startup!Slots, Underway
<1>2. KeptOwn'
  <2>1. \A o \in Startup!Slots : v2'[o] # NoHost => v2'[o] = v2[o]
    OBVIOUS
  <2> QED
    BY <2>1 DEF StartupInv, KeptOwn, Startup!Slots
<1>3. StartupCallInv'
  <2>1. CASE v6' = "idle"
    BY <2>1 DEF StartupCallInv, Unmoved, Underway
  <2>2. CASE v6' # "idle"
    <3>1. v6 # "idle" /\ (v6' \in Unmoved => v6 \in Unmoved) /\ (v6' \in Underway => v6 \in Underway)
      BY <2>2 DEF Underway
    <3>2. v8 \in Startup!Slots /\ v2'[v8] \in {v2[v8], NoHost}
      BY <3>1 DEF StartupInv, StartupCallInv
    <3>3. Startup!Disabling' <=> Startup!Disabling
      BY DEF Startup!Disabling
    <3> QED
      BY <3>1, <3>2, <3>3 DEF StartupInv, StartupCallInv, Startup!Slots
  <2> QED
    BY <2>1, <2>2
<1> QED
  BY <1>1, <1>2, <1>3 DEF StartupInv

LEMMA QuietSteps ==
    ASSUME StartupInv,
           \/ Startup!Decline \/ Startup!MakeFolder \/ Startup!MarkFolder
           \/ Startup!EnterFolder \/ Startup!Crash \/ UNCHANGED Startup!vars
           \/ \E n \in Names, f \in Files : Startup!OthersWrite(n, f)
           \/ \E n \in Names : Startup!OthersDelete(n)
    PROVE  StartupInv'
<1>1. Startup!TypeOK
  BY DEF StartupInv
<1>2. UNCHANGED <<v2, v4, v7, v8>> /\ v5' \subseteq v5
  BY DEF Startup!Decline, Startup!MakeFolder, Startup!MarkFolder, Startup!EnterFolder,
         Startup!Crash, Startup!OthersWrite, Startup!OthersDelete, Startup!vars, Startup!disk,
         Startup!call
<1>3. \/ v6' = "idle" \/ v6' = v6
      \/ v6 \in Underway /\ v6' \in Underway /\ (v6' \in Unmoved => v6 \in Unmoved)
  BY DEF Startup!Decline, Startup!MakeFolder, Startup!MarkFolder, Startup!EnterFolder,
         Startup!Crash, Startup!OthersWrite, Startup!OthersDelete, Startup!vars, Startup!disk,
         Startup!call, Underway, Unmoved
<1>4. v3' \in {"none", "bare", "owned"}
  BY <1>1
  DEF Startup!Decline, Startup!MakeFolder, Startup!MarkFolder, Startup!EnterFolder,
      Startup!Crash, Startup!OthersWrite, Startup!OthersDelete, Startup!vars, Startup!disk,
      Startup!call, Startup!TypeOK
<1>5. \/ v1' = v1
      \/ \E n \in Names, file \in Files \cup {NoHost} : v1' = [v1 EXCEPT ![n] = file]
  BY DEF Startup!Decline, Startup!MakeFolder, Startup!MarkFolder, Startup!EnterFolder,
         Startup!Crash, Startup!OthersWrite, Startup!OthersDelete, Startup!vars, Startup!disk,
         Startup!call
<1>6. v1' \in [Names -> Files \cup {NoHost}]
  BY <1>1, <1>5, StartupFacts
<1>7. v2 \in [Startup!Slots -> Files \cup {NoHost}]
  BY <1>1, StartupFacts
<1> QED
  BY <1>2, <1>3, <1>4, <1>6, <1>7, QuietKeeps

\* A kept shortcut is taken away.
LEMMA TakenKeeps ==
    ASSUME StartupInv, NEW o \in Startup!Slots, NEW n \in Names, Startup!OthersTake(o, n)
    PROVE  StartupInv'
<1>1. Startup!TypeOK
  BY DEF StartupInv
<1>2. /\ v2' = [v2 EXCEPT ![o] = NoHost] /\ v1' \in {v1, [v1 EXCEPT ![n] = v2[o]]}
      /\ UNCHANGED <<v3, v4, v5, v6, v7, v8>>
  BY DEF Startup!OthersTake, Startup!call
<1>3. v1' \in [Names -> Files \cup {NoHost}] /\ v2' \in [Startup!Slots -> Files \cup {NoHost}]
  BY <1>1, <1>2, StartupFacts
<1>4. \A p \in Startup!Slots : v2'[p] \in {v2[p], NoHost}
  BY <1>1, <1>2, StartupFacts
<1>5. v3' \in {"none", "bare", "owned"}
  BY <1>1, <1>2 DEF Startup!TypeOK
<1> QED
  BY <1>2, <1>3, <1>4, <1>5, QuietKeeps

\* A receipt grows old.
LEMMA AgeKeeps ==
    ASSUME StartupInv, NEW o \in Startup!Slots, Startup!Age(o)
    PROVE  StartupInv'
<1>1. Startup!TypeOK
  BY DEF StartupInv
<1>2. v4' = [v4 EXCEPT ![o].aged = TRUE] /\ UNCHANGED <<v1, v2, v3, v5, v6, v7, v8>>
  BY DEF Startup!Age, Startup!disk, Startup!call
<1>3. \A p \in Startup!Slots :
         /\ v4'[p] \in Startup!Receipts
         /\ v4'[p].life = v4[p].life /\ v4'[p].kind = v4[p].kind /\ v4'[p].proof = v4[p].proof
  BY <1>1, <1>2, StartupFacts DEF Startup!Receipts
<1>4. v4' \in [Startup!Slots -> Startup!Receipts]
  BY <1>1, <1>2, <1>3, StartupFacts
<1>5. Startup!TypeOK'
  BY <1>1, <1>2, <1>4 DEF Startup!TypeOK, Startup!Slots
<1>6. KeptOwn'
  BY <1>2, <1>3 DEF StartupInv, KeptOwn, Accounts, Startup!Slots
<1>7. StartupCallInv'
  <2>1. Startup!Disabling' <=> Startup!Disabling
    BY <1>2 DEF Startup!Disabling
  <2> QED
    BY <1>2, <1>3, <2>1 DEF StartupInv, StartupCallInv, Startup!Slots, Underway
<1> QED
  BY <1>5, <1>6, <1>7 DEF StartupInv

\* What the call at hand saves about itself.
LEMMA SavedRow ==
    ASSUME Startup!TypeOK, NEW life \in Startup!Lives
    PROVE  LET row == Startup!Receipt(life) IN
           /\ row \in Startup!Receipts /\ row.life = life /\ row.proof = v7
           /\ Startup!Disabling => row.kind = "startup_disable"
  BY StartupFacts DEF Startup!Receipt, Startup!Receipts

\* A save of the call at hand: before the move nothing lies at its place, and
\* after it the receipt goes on to account for what does.
LEMMA SaveKeeps ==
    ASSUME StartupInv, v6 # "idle", NEW life \in Startup!Lives,
           v4' = [v4 EXCEPT ![v8] = Startup!Receipt(life)],
           \/ v6' = "recorded" /\ v6 = "asking" /\ life = "dispatching"
           \/ v6' = "idle" /\ v6 \in Unmoved
           \/ v6' = "idle" /\ v6 \in Underway /\ life \in Accounted,
           UNCHANGED <<v1, v2, v3, v5, v7, v8>>
    PROVE  StartupInv'
<1> DEFINE row == Startup!Receipt(life)
<1>1. Startup!TypeOK
  BY DEF StartupInv
<1>2. /\ row \in Startup!Receipts /\ row.life = life /\ row.proof = v7
      /\ Startup!Disabling => row.kind = "startup_disable"
  BY <1>1, SavedRow
<1> HIDE DEF row
<1>3. v8 \in Startup!Slots
  BY DEF StartupInv, StartupCallInv
<1>4. /\ v4' \in [Startup!Slots -> Startup!Receipts] /\ v4'[v8] = row
      /\ \A o \in Startup!Slots : o # v8 => v4'[o] = v4[o]
  BY <1>1, <1>2, <1>3, StartupFacts DEF row
<1>5. Startup!TypeOK'
  BY <1>1, <1>4 DEF Startup!TypeOK, Startup!Slots
<1>6. ASSUME v2[v8] # NoHost
      PROVE  Accounts(v8, row, v2[v8])
  <2>1. v6 \in Underway /\ life \in Accounted
    BY <1>6 DEF StartupInv, StartupCallInv, Unmoved
  <2>2. Accounts(v8, v4[v8], v2[v8]) /\ v4[v8].proof = v7
    BY <1>3, <1>6, <2>1 DEF StartupInv, StartupCallInv, KeptOwn
  <2>3. v7.saved = v8
    BY <2>2 DEF Accounts
  <2> QED
    BY <1>2, <2>1, <2>2, <2>3 DEF Accounts, Startup!Disabling
<1>7. KeptOwn'
  BY <1>3, <1>4, <1>6 DEF StartupInv, KeptOwn, Startup!Slots
<1>8. StartupCallInv'
  <2>1. Startup!Disabling' <=> Startup!Disabling
    BY DEF Startup!Disabling
  <2>2. v6' = "recorded" => v2[v8] = NoHost /\ row.life = "dispatching"
    BY <1>2 DEF StartupInv, StartupCallInv, Unmoved
  <2> QED
    BY <1>2, <1>3, <1>4, <2>1, <2>2 DEF StartupCallInv, Startup!Slots, Unmoved, Underway
<1> QED
  BY <1>5, <1>7, <1>8 DEF StartupInv

LEMMA SavesKeep ==
    ASSUME StartupInv, Startup!Record \/ Startup!Withdraw \/ Startup!Finish
    PROVE  StartupInv'
<1>1. /\ UNCHANGED <<v1, v2, v3, v5, v7, v8>> /\ v6 # "idle"
      /\ \/ UNCHANGED v4 /\ v6' = "idle"
         \/ /\ v6 = "asking" /\ v6' = "recorded"
            /\ v4' = [v4 EXCEPT ![v8] = Startup!Receipt("dispatching")]
         \/ /\ v6 = "recorded" /\ v6' = "idle"
            /\ v4' = [v4 EXCEPT ![v8] = Startup!Receipt("cancelled_before_dispatch")]
         \/ /\ v6 \in {"moved", "failed"} /\ v6' = "idle"
            /\ \E life \in {"verified", "unknown"} :
                  v4' = [v4 EXCEPT ![v8] = Startup!Receipt(life)]
  BY DEF Startup!Record, Startup!Withdraw, Startup!Finish, Startup!disk
<1>2. CASE UNCHANGED v4 /\ v6' = "idle"
  <2>1. /\ v1 \in [Names -> Files \cup {NoHost}] /\ v3 \in {"none", "bare", "owned"}
        /\ v2 \in [Startup!Slots -> Files \cup {NoHost}]
    BY StartupFacts DEF StartupInv, Startup!TypeOK
  <2> QED
    BY <1>1, <1>2, <2>1, QuietKeeps
<1>3. {"dispatching", "cancelled_before_dispatch", "verified", "unknown"} \subseteq Startup!Lives
  BY DEF Startup!Lives
<1>4. /\ "recorded" \in Unmoved /\ {"moved", "failed"} \subseteq Underway
      /\ {"verified", "unknown"} \subseteq Accounted
  BY DEF Unmoved, Underway, Accounted
<1>5. CASE /\ v6 = "asking" /\ v6' = "recorded"
           /\ v4' = [v4 EXCEPT ![v8] = Startup!Receipt("dispatching")]
  BY <1>1, <1>3, <1>5, SaveKeeps
<1>6. CASE /\ v6 = "recorded" /\ v6' = "idle"
           /\ v4' = [v4 EXCEPT ![v8] = Startup!Receipt("cancelled_before_dispatch")]
  BY <1>1, <1>3, <1>4, <1>6, SaveKeeps
<1>7. ASSUME NEW life \in {"verified", "unknown"}, v6 \in {"moved", "failed"}, v6' = "idle",
             v4' = [v4 EXCEPT ![v8] = Startup!Receipt(life)]
      PROVE  StartupInv'
  <2>1. life \in Startup!Lives /\ life \in Accounted /\ v6 \in Underway
    BY <1>3, <1>4, <1>7
  <2> QED
    BY <1>1, <1>7, <2>1, SaveKeeps
<1> QED
  BY <1>1, <1>2, <1>5, <1>6, <1>7

\* The move: a disabled shortcut comes to lie at the place of its operation,
\* whose receipt has the proof of it; a restored one is gone from its own.
LEMMA RelocateKeeps ==
    ASSUME StartupInv, Startup!Relocate
    PROVE  StartupInv'
<1>1. Startup!TypeOK
  BY DEF StartupInv
<1>2. /\ v6 = "ready" /\ v6' \in {"moved", "failed"} /\ UNCHANGED <<v3, v4, v5, v7, v8>>
      /\ \/ UNCHANGED <<v1, v2>>
         \/ /\ Startup!Movable
            /\ v1' = [v1 EXCEPT ![v7.name] = IF Startup!Disabling THEN NoHost ELSE v2[v7.saved]]
            /\ v2' = [v2 EXCEPT ![v7.saved] = IF Startup!Disabling THEN v1[v7.name]
                                                                   ELSE NoHost]
  BY DEF Startup!Relocate, Startup!disk
<1>3. v8 \in Startup!Slots /\ v4[v8].life = "dispatching" /\ v4[v8].proof = v7
  BY <1>2 DEF StartupInv, StartupCallInv, Underway
<1>4. /\ v1 \in [Names -> Files \cup {NoHost}] /\ v3 \in {"none", "bare", "owned"}
      /\ v2 \in [Startup!Slots -> Files \cup {NoHost}]
      /\ v7.file \in Files /\ v7.name \in Names
  BY <1>1, StartupFacts DEF Startup!TypeOK, Startup!Proofs
<1>5. v6 \in Underway /\ v6' \in Underway /\ v6' \notin Unmoved
  BY <1>2 DEF Underway, Unmoved
<1>6. CASE UNCHANGED <<v1, v2>>
  BY <1>2, <1>4, <1>5, <1>6, QuietKeeps
<1>7. CASE /\ Startup!Movable /\ ~Startup!Disabling
           /\ v1' = [v1 EXCEPT ![v7.name] = v2[v7.saved]]
           /\ v2' = [v2 EXCEPT ![v7.saved] = NoHost]
  <2>1. v2[v7.saved] = v7.file
    BY <1>7 DEF Startup!Movable
  <2>2. /\ v1' \in [Names -> Files \cup {NoHost}]
        /\ v2' \in [Startup!Slots -> Files \cup {NoHost}]
        /\ \A o \in Startup!Slots : v2'[o] \in {v2[o], NoHost}
    BY <1>4, <1>7, <2>1
  <2> QED
    BY <1>2, <1>4, <1>5, <2>2, QuietKeeps
<1>8. CASE /\ Startup!Movable /\ Startup!Disabling
           /\ v1' = [v1 EXCEPT ![v7.name] = NoHost]
           /\ v2' = [v2 EXCEPT ![v7.saved] = v1[v7.name]]
  <2>1. v7.saved = v8 /\ v1[v7.name] = v7.file
    BY <1>8 DEF Startup!Movable, Startup!Disabling
  <2>2. /\ v1' \in [Names -> Files \cup {NoHost}]
        /\ v2' \in [Startup!Slots -> Files \cup {NoHost}]
        /\ v2'[v8] = v7.file /\ \A o \in Startup!Slots : o # v8 => v2'[o] = v2[o]
    BY <1>3, <1>4, <1>8, <2>1
  <2>3. Startup!TypeOK'
    BY <1>1, <1>2, <2>2 DEF Startup!TypeOK, Startup!Slots
  <2>4. v4[v8].kind = "startup_disable"
    BY <1>5, <1>8 DEF StartupInv, StartupCallInv
  <2>5. Accounts(v8, v4[v8], v7.file)
    BY <1>3, <2>1, <2>4 DEF Accounts, Accounted
  <2>6. v8 <= v8
    BY <1>1, StartupFacts
  <2>7. KeptOwn'
    BY <1>2, <2>2, <2>5, <2>6 DEF StartupInv, KeptOwn, Startup!Slots
  <2>8. StartupCallInv'
    BY <1>2, <1>3, <1>5, <2>4 DEF StartupCallInv, Startup!Slots
  <2> QED
    BY <2>3, <2>7, <2>8 DEF StartupInv
<1> QED
  BY <1>2, <1>6, <1>7, <1>8

LEMMA StartupStep ==
    ASSUME StartupInv, [Startup!Next]_(Startup!vars)
    PROVE  StartupInv'
  BY ListKeeps, AskKeeps, QuietSteps, TakenKeeps, AgeKeeps, SavesKeep, RelocateKeeps
  DEF Startup!Next

\* The receipt that accounts for a kept shortcut is that of its own operation.
LEMMA StartupTells == StartupInv => Startup!TypeOK /\ Startup!KeptIsOnRecord
  BY DEF StartupInv, KeptOwn, Accounts, Accounted, Startup!KeptIsOnRecord

-----------------------------------------------------------------------------
(* MoveOperations: v1 is rows, v2 mem, v3 pc, v4 cur, v5 cancelled, v6      *)
(* place, v7 version, v8 squat, v9 folder, v10 parent, v11 reads, v12       *)
(* troubles, v13 moved, v14 made, v15 agreed, v16 touched.                  *)

ItemStates == {"NotStarted", "Executing", "Verifying", "Unknown", "Succeeded", "Failed"}
Partial(S) == UNION {[D -> S] : D \in SUBSET MoveFiles}
Operation ==
    [status : Moves!Unresolved \cup Moves!Terminal \cup {"none", "deleted"},
     items : Partial(ItemStates), shown : Partial(Nat),
     dir : [status : ItemStates \cup {"None"}, id : Nat], anchor : Nat \X Nat]

Active == {"asking", "checking", "pinning", "mkdir", "making", "made", "items",
           "moving", "moved", "observing", "ending"}

Busy(op) == {f \in DOMAIN op.items : op.items[f] \in {"Executing", "Verifying"}}

\* What a record says of a file of operation o is true.
Says(o, op, f) ==
    /\ op.items[f] = "Succeeded" => <<o, f>> \in v13
    /\ op.items[f] \in {"Failed", "NotStarted"} => <<o, f>> \notin v13
    /\ op.status \in {"Cancelled", "Failed", "Invalidated"} => <<o, f>> \notin v13
    /\ op.status = "Succeeded" => <<o, f>> \in v13
Truth(o, op) == \A f \in DOMAIN op.items \ v16 : Says(o, op, f)

\* An operation whose outcome is open holds its files.
Holds(o, f) == v1[o].status \in Moves!Unresolved /\ f \in DOMAIN v1[o].items

MovesTyped ==
    /\ Moves!TypeOK
    /\ v1 \in [MoveOps -> Operation] /\ v2 \in Operation

MoveRowsInv ==
    /\ \A o \in MoveOps : Truth(o, v1[o])
    /\ \A o, p \in MoveOps, f \in MoveFiles : Holds(o, f) /\ Holds(p, f) => o = p
    /\ \A o, p \in MoveOps, f \in MoveFiles \ v16 :
          Holds(o, f) /\ <<p, f>> \in v13 => o = p
    /\ \A o \in MoveOps : v1[o].status = "AwaitingConfirmation" =>
          \A f \in DOMAIN v1[o].items : v1[o].items[f] = "NotStarted"

MovePlaceInv ==
    \A f \in MoveFiles \ v16 :
        /\ v6[f] # "away"
        /\ v6[f] = "target" <=> \E o \in MoveOps : <<o, f>> \in v13

\* The operation in memory, where the process is at p.
Fits(p, op) ==
    /\ op.status = IF p \in {"asking", "checking"} THEN "AwaitingConfirmation" ELSE "Executing"
    /\ p \in {"asking", "checking", "pinning", "mkdir", "making", "made"} =>
          \A f \in DOMAIN op.items : op.items[f] = "NotStarted"
    /\ p = "items" => Busy(op) = {}
    /\ p \in {"moving", "moved", "observing"} => \A f, g \in Busy(op) : f = g
    /\ p = "moving" => \A f \in Busy(op) : op.items[f] = "Executing"

MoveMemInv ==
    v3 \in Active =>
        /\ v4 \in MoveOps /\ (v3 # "asking" => v4 \in v15)
        /\ v2.status = v1[v4].status /\ v2.shown = v1[v4].shown
        /\ DOMAIN v2.items = DOMAIN v1[v4].items
        /\ \A f \in DOMAIN v2.items :
              \/ v2.items[f] = v1[v4].items[f]
              \/ /\ v3 = "moved" /\ v2.items[f] = "Verifying"
                 /\ v1[v4].items[f] = "Executing"
        /\ Fits(v3, v2)

MovesInv == MovesTyped /\ MoveRowsInv /\ MovePlaceInv /\ MoveMemInv

-----------------------------------------------------------------------------
(* The records. *)

LEMMA OperationIs ==
    ASSUME NEW op \in Operation
    PROVE  /\ op.items \in [DOMAIN op.items -> ItemStates] /\ DOMAIN op.items \subseteq MoveFiles
           /\ op.shown \in [DOMAIN op.shown -> Nat] /\ DOMAIN op.shown \subseteq MoveFiles
           /\ op.dir.status \in ItemStates \cup {"None"} /\ op.dir.id \in Nat
           /\ op.status \in Moves!Unresolved \cup Moves!Terminal \cup {"none", "deleted"}
<1>1. op.items \in Partial(ItemStates) /\ op.shown \in Partial(Nat)
  BY DEF Operation
<1>2. \A S : \A f \in Partial(S) : f \in [DOMAIN f -> S] /\ DOMAIN f \subseteq MoveFiles
  BY DEF Partial
<1> QED
  BY <1>1, <1>2 DEF Operation

LEMMA BlankIs ==
    /\ Moves!Blank \in Operation /\ Moves!Deleted \in Operation
    /\ DOMAIN Moves!Blank.items = {} /\ DOMAIN Moves!Deleted.items = {}
    /\ Moves!Blank.status = "none" /\ Moves!Deleted.status = "deleted"
<1>1. {} \in SUBSET MoveFiles
  OBVIOUS
<1>2. [f \in {} |-> "NotStarted"] \in [{} -> ItemStates] /\ [f \in {} |-> 0] \in [{} -> Nat]
  OBVIOUS
<1>3. [f \in {} |-> "NotStarted"] \in Partial(ItemStates) /\ [f \in {} |-> 0] \in Partial(Nat)
  BY <1>1, <1>2 DEF Partial
<1>4. Moves!Blank \in Operation
  BY <1>3 DEF Moves!Blank, Operation
<1>5. DOMAIN Moves!Blank.items = {} /\ Moves!Blank.status = "none"
  BY DEF Moves!Blank
<1> QED
  BY <1>4, <1>5 DEF Moves!Deleted, Operation

LEMMA WithStatus ==
    ASSUME NEW op \in Operation, NEW s \in Moves!Unresolved \cup Moves!Terminal
    PROVE  LET n == [op EXCEPT !.status = s]
           IN  n \in Operation /\ n.status = s /\ n.items = op.items /\ n.shown = op.shown
  BY DEF Operation

LEMMA WithItems ==
    ASSUME NEW op \in Operation, NEW new \in [DOMAIN op.items -> ItemStates]
    PROVE  LET n == [op EXCEPT !.items = new]
           IN  n \in Operation /\ n.status = op.status /\ n.items = new /\ n.shown = op.shown
<1>1. new \in Partial(ItemStates)
  BY OperationIs DEF Partial
<1> QED
  BY <1>1 DEF Operation

LEMMA WithItem ==
    ASSUME NEW op \in Operation, NEW f \in DOMAIN op.items, NEW s \in ItemStates
    PROVE  LET n == [op EXCEPT !.items[f] = s]
           IN  /\ n \in Operation /\ n.status = op.status /\ n.shown = op.shown
               /\ DOMAIN n.items = DOMAIN op.items /\ n.items[f] = s
               /\ \A g \in DOMAIN op.items \ {f} : n.items[g] = op.items[g]
<1> DEFINE new == [op.items EXCEPT ![f] = s]
<1>1. /\ new \in [DOMAIN op.items -> ItemStates] /\ new[f] = s
      /\ \A g \in DOMAIN op.items \ {f} : new[g] = op.items[g]
  BY OperationIs
<1>2. [op EXCEPT !.items[f] = s] = [op EXCEPT !.items = new]
  BY DEF Operation
<1> HIDE DEF new
<1> QED
  BY <1>1, <1>2, WithItems

LEMMA WithDir ==
    ASSUME NEW op \in Operation, NEW s \in ItemStates \cup {"None"}, NEW i \in Nat
    PROVE  LET n == [op EXCEPT !.dir = [status |-> s, id |-> i]]
               m == [op EXCEPT !.dir.status = s]
           IN  /\ n \in Operation /\ n.status = op.status /\ n.items = op.items
               /\ n.shown = op.shown
               /\ m \in Operation /\ m.status = op.status /\ m.items = op.items
               /\ m.shown = op.shown
  BY DEF Operation

\* What the status of the whole says of its items.
LEMMA AggregateIs ==
    ASSUME NEW op \in Operation, NEW stopped \in BOOLEAN
    PROVE  /\ Moves!Aggregate(op, stopped)
                \in {"Unknown", "Succeeded", "Partial", "Cancelled", "Failed"}
           /\ Moves!Aggregate(op, stopped) = "Succeeded" =>
                 \A f \in DOMAIN op.items : op.items[f] = "Succeeded"
           /\ Moves!Aggregate(op, stopped) \in {"Cancelled", "Failed"} =>
                 \A f \in DOMAIN op.items : op.items[f] \in {"NotStarted", "Failed"}
<1>1. \A f \in DOMAIN op.items : op.items[f] \in Moves!Statuses(op) /\ op.items[f] \in ItemStates
  BY OperationIs DEF Moves!Statuses
<1>2. CASE Moves!Statuses(op) \cap Moves!Doubtful # {}
  BY <1>2 DEF Moves!Aggregate
<1>3. CASE Moves!Statuses(op) \cap Moves!Doubtful = {} /\ Moves!Statuses(op) = {"Succeeded"}
  BY <1>1, <1>3 DEF Moves!Aggregate
<1>4. CASE /\ Moves!Statuses(op) \cap Moves!Doubtful = {} /\ Moves!Statuses(op) # {"Succeeded"}
           /\ "Succeeded" \in Moves!Statuses(op)
  BY <1>4 DEF Moves!Aggregate
<1>5. CASE Moves!Statuses(op) \cap Moves!Doubtful = {} /\ "Succeeded" \notin Moves!Statuses(op)
  <2>1. Moves!Aggregate(op, stopped) \in {"Cancelled", "Failed"}
    BY <1>5 DEF Moves!Aggregate
  <2>2. \A f \in DOMAIN op.items : op.items[f] \in {"NotStarted", "Failed"}
    BY <1>1, <1>5 DEF ItemStates, Moves!Doubtful
  <2> QED
    BY <2>1, <2>2
<1> QED
  BY <1>2, <1>3, <1>4, <1>5

-----------------------------------------------------------------------------
(* A save of the operation in memory. *)

\* What the row says of its files, memory knows, too.
LEMMA MemKnows ==
    ASSUME MovesInv, v3 \in Active, NEW f \in DOMAIN v2.items \ v16
    PROVE  /\ v2.items[f] = "Succeeded" => <<v4, f>> \in v13
           /\ v2.items[f] \in {"Failed", "NotStarted"} => <<v4, f>> \notin v13
  BY DEF MovesInv, MoveMemInv, MoveRowsInv, Truth, Says

LEMMA OneSaveKeeps ==
    ASSUME MovesInv, v3 \in Active, NEW op \in Operation, Moves!Save(op),
           DOMAIN op.items = DOMAIN v2.items, op.status \in Moves!Unresolved \cup Moves!Terminal,
           op.status = "AwaitingConfirmation" => op = v2,
           Truth(v4, op), UNCHANGED <<v13, v16, v6>>
    PROVE  MoveRowsInv' /\ MovePlaceInv' /\ v1' \in [MoveOps -> Operation]
<1>1. v4 \in MoveOps /\ v1[v4].status \in Moves!Unresolved /\ DOMAIN op.items = DOMAIN v1[v4].items
  BY DEF MovesInv, MoveMemInv, Fits, Moves!Unresolved, Moves!Doubtful
<1>2. /\ v1' \in [MoveOps -> Operation] /\ v1'[v4] = op
      /\ \A o \in MoveOps \ {v4} : v1'[o] = v1[o]
  BY <1>1 DEF Moves!Save, MovesInv, MovesTyped
<1>3. \A o \in MoveOps, f \in MoveFiles : Holds(o, f)' => Holds(o, f)
  BY <1>1, <1>2 DEF Holds
<1>4. \A o \in MoveOps : Truth(o, v1[o])'
  BY ZenonT(60), <1>2 DEF MovesInv, MoveRowsInv, Truth, Says
<1>5. \A o \in MoveOps : v1'[o].status = "AwaitingConfirmation" =>
          \A f \in DOMAIN v1'[o].items : v1'[o].items[f] = "NotStarted"
  <2>1. op = v2 /\ op.status = "AwaitingConfirmation" =>
            \A f \in DOMAIN op.items : op.items[f] = "NotStarted"
    BY DEF MovesInv, MoveMemInv, Fits
  <2> QED
    BY <1>2, <2>1 DEF MovesInv, MoveRowsInv
<1>6. MoveRowsInv'
  BY <1>3, <1>4, <1>5 DEF MovesInv, MoveRowsInv
<1>7. MovePlaceInv'
  BY DEF MovesInv, MovePlaceInv
<1> QED
  BY <1>2, <1>6, <1>7

LEMMA NoSaveKeeps ==
    ASSUME MovesInv, UNCHANGED <<v1, v13, v16, v6>>
    PROVE  MoveRowsInv' /\ MovePlaceInv' /\ v1' \in [MoveOps -> Operation]
  BY DEF MovesInv, MovesTyped, MoveRowsInv, MovePlaceInv, Truth, Says, Holds

\* The type of what a step of the process may change.
LEMMA ProcessTyped ==
    ASSUME MovesInv, v1' \in [MoveOps -> Operation], v2' \in Operation,
           v3' \in Active \cup {"off", "starting", "idle"}, v4' \in MoveOps \cup {NoOp},
           v5' \in BOOLEAN, v11' \subseteq MoveOps, v15' \subseteq MoveOps,
           v14' \subseteq MoveOps, v9' \in Nat, UNCHANGED <<v6, v7, v8, v10, v13, v16>>
    PROVE  MovesTyped'
<1>1. \A o \in Moves!Kept' : v1'[o].status \in Moves!Unresolved \cup Moves!Terminal
  BY OperationIs DEF Moves!Kept
<1> QED
  BY <1>1 DEF MovesInv, MovesTyped, Moves!TypeOK, Active

\* The operation ends with a status, or the error of the save is returned.
LEMMA EndKeeps ==
    ASSUME MovesInv, v3 \in Active,
           NEW status \in Moves!Terminal \cup {"Unknown"}, Moves!EndWith(status),
           \A f \in DOMAIN v2.items \ v16 :
               /\ status \in {"Cancelled", "Failed", "Invalidated"} => <<v4, f>> \notin v13
               /\ status = "Succeeded" => <<v4, f>> \in v13,
           UNCHANGED <<v5, v11, Moves!disk, Moves!history>>
    PROVE  MovesInv'
<1> DEFINE op == [v2 EXCEPT !.status = status]
<1>1. op \in Operation /\ op.status = status /\ op.items = v2.items
  BY WithStatus DEF MovesInv, MovesTyped, Moves!Unresolved, Moves!Doubtful
<1> HIDE DEF op
<1>2. Truth(v4, op)
  BY <1>1, MemKnows DEF Truth, Says
<1>3. MoveRowsInv' /\ MovePlaceInv' /\ v1' \in [MoveOps -> Operation]
  <2>1. CASE Moves!Save(op)
    BY <1>1, <1>2, <2>1, OneSaveKeeps
    DEF Moves!Terminal, Moves!Unresolved, Moves!Doubtful, Moves!disk, Moves!history
  <2>2. CASE UNCHANGED v1
    BY <2>2, NoSaveKeeps DEF Moves!disk, Moves!history
  <2> QED
    BY <2>1, <2>2 DEF Moves!EndWith, op
<1>4. Moves!Blank \in Operation
  BY BlankIs
<1>5. v3' = "idle" /\ v4' = NoOp /\ v2' = Moves!Blank
  BY DEF Moves!EndWith, Moves!Return
<1>6. MovesTyped'
  BY <1>3, <1>4, <1>5, ProcessTyped
  DEF MovesInv, MovesTyped, Moves!TypeOK, Moves!disk, Moves!history
<1> QED
  BY <1>3, <1>5, <1>6 DEF MovesInv, MoveMemInv, Active

\* A save inside execute that works.
LEMMA SavedKeeps ==
    ASSUME MovesInv, v3 \in Active, NEW op \in Operation, NEW next \in Active,
           Moves!Save(op), v2' = op, v3' = next, UNCHANGED v4,
           DOMAIN op.items = DOMAIN v2.items, op.shown = v2.shown, op.status = "Executing",
           \A f \in DOMAIN v2.items \ v16 :
               /\ op.items[f] = "Succeeded" => <<v4, f>> \in v13
               /\ op.items[f] \in {"Failed", "NotStarted"} => <<v4, f>> \notin v13,
           Fits(next, op), v4 \in v15, v9' \in Nat, v14' \subseteq MoveOps,
           UNCHANGED <<v5, v11, v6, v7, v8, v10, v13, v15, v16>>
    PROVE  MovesInv'
<1>1. v4 \in MoveOps /\ next \notin {"asking", "checking"}
  BY DEF MovesInv, MoveMemInv, Fits
<1>2. Truth(v4, op)
  BY DEF Truth, Says
<1>3. MoveRowsInv' /\ MovePlaceInv' /\ v1' \in [MoveOps -> Operation]
  BY <1>2, OneSaveKeeps DEF Moves!Unresolved, Moves!Doubtful
<1>4. MovesTyped'
  BY <1>1, <1>3, ProcessTyped DEF MovesInv, MovesTyped, Moves!TypeOK
<1>5. v1'[v4'] = op
  BY <1>1 DEF Moves!Save, MovesInv, MovesTyped
<1>6. Fits(v3', v2')
  OBVIOUS
<1>7. MoveMemInv'
  BY <1>1, <1>5, <1>6 DEF MoveMemInv
<1> QED
  BY <1>3, <1>4, <1>7 DEF MovesInv

\* An error that ends the operation: its outcome is unknown.
LEMMA LostKeeps ==
    ASSUME MovesInv, v3 \in Active, NEW op \in Operation,
           DOMAIN op.items = DOMAIN v2.items,
           \A f \in DOMAIN v2.items \ v16 :
               /\ op.items[f] = "Succeeded" => <<v4, f>> \in v13
               /\ op.items[f] \in {"Failed", "NotStarted"} => <<v4, f>> \notin v13,
           Moves!Save([op EXCEPT !.status = "Unknown"]) \/ UNCHANGED v1, Moves!Return,
           v9' \in Nat, v14' \subseteq MoveOps,
           UNCHANGED <<v5, v11, v6, v7, v8, v10, v13, v15, v16>>
    PROVE  MovesInv'
<1> DEFINE lost == [op EXCEPT !.status = "Unknown"]
<1>1. lost \in Operation /\ lost.status = "Unknown" /\ lost.items = op.items
  BY WithStatus DEF Moves!Unresolved, Moves!Doubtful
<1> HIDE DEF lost
<1>2. Truth(v4, lost)
  BY <1>1 DEF Truth, Says
<1>3. MoveRowsInv' /\ MovePlaceInv' /\ v1' \in [MoveOps -> Operation]
  <2>1. CASE Moves!Save(lost)
    BY <1>1, <1>2, <2>1, OneSaveKeeps DEF Moves!Unresolved, Moves!Doubtful
  <2>2. CASE UNCHANGED v1
    BY <2>2, NoSaveKeeps
  <2> QED
    BY <2>1, <2>2 DEF lost
<1>4. Moves!Blank \in Operation
  BY BlankIs
<1>5. v3' = "idle" /\ v4' = NoOp /\ v2' = Moves!Blank
  BY DEF Moves!Return
<1>6. MovesTyped'
  BY <1>3, <1>4, <1>5, ProcessTyped DEF MovesInv, MovesTyped, Moves!TypeOK
<1> QED
  BY <1>3, <1>5, <1>6 DEF MovesInv, MoveMemInv, Active

LEMMA StepKeeps ==
    ASSUME MovesInv, v3 \in Active, NEW op \in Operation, NEW next \in Active, Moves!Step(op, next),
           DOMAIN op.items = DOMAIN v2.items, op.shown = v2.shown, op.status = "Executing",
           \A f \in DOMAIN v2.items \ v16 :
               /\ op.items[f] = "Succeeded" => <<v4, f>> \in v13
               /\ op.items[f] \in {"Failed", "NotStarted"} => <<v4, f>> \notin v13,
           Fits(next, op), v4 \in v15, v9' \in Nat, v14' \subseteq MoveOps,
           UNCHANGED <<v5, v11, v6, v7, v8, v10, v13, v15, v16>>
    PROVE  MovesInv'
<1>1. CASE Moves!Save(op) /\ v2' = op /\ v3' = next /\ Moves!Calm /\ UNCHANGED v4
  BY <1>1, SavedKeeps
<1>2. CASE Moves!Interrupted(op)
  BY <1>2, LostKeeps DEF Moves!Interrupted
<1> QED
  BY <1>1, <1>2 DEF Moves!Step

\* The process goes on without a save.
LEMMA GoesOnWith ==
    ASSUME MovesInv, v3 \in Active, v3 # "moved", NEW next \in Active, next # "asking",
           NEW op \in Operation, v2' = op, op.status = v2.status, op.items = v2.items,
           op.shown = v2.shown, v3' = next, UNCHANGED <<v1, v4>>, Fits(next, op),
           v15' \subseteq MoveOps, v4 \in v15', v9' \in Nat, v14' \subseteq MoveOps,
           UNCHANGED <<v5, v11, v6, v7, v8, v10, v13, v16>>
    PROVE  MovesInv'
<1>1. MoveRowsInv' /\ MovePlaceInv' /\ v1' \in [MoveOps -> Operation]
  BY NoSaveKeeps
<1>2. MovesTyped'
  BY <1>1, ProcessTyped DEF MovesInv, MovesTyped, Moves!TypeOK
<1>3. Fits(v3', v2')
  OBVIOUS
<1>4. MoveMemInv'
  BY <1>3 DEF MovesInv, MoveMemInv
<1> QED
  BY <1>1, <1>2, <1>4 DEF MovesInv

LEMMA GoesOn ==
    ASSUME MovesInv, v3 \in Active, v3 # "moved", NEW next \in Active, next # "asking",
           v3' = next, UNCHANGED <<v1, v2, v4>>, Fits(next, v2),
           v15' \subseteq MoveOps, v4 \in v15',
           UNCHANGED <<v5, v11, Moves!disk, v13, v14, v16>>
    PROVE  MovesInv'
<1>1. /\ v2 \in Operation /\ v9' \in Nat /\ v14' \subseteq MoveOps
      /\ UNCHANGED <<v6, v7, v8, v10>>
  BY DEF MovesInv, MovesTyped, Moves!TypeOK, Moves!disk
<1> QED
  BY <1>1, GoesOnWith

-----------------------------------------------------------------------------
(* One operation, from its plan to its receipt. *)

\* Nobody has renamed an untouched file that is still at its source, and
\* nobody who may still rename it holds a file that is free for a new plan.
LEMMA PrepareKeeps ==
    ASSUME MovesInv, NEW o \in MoveOps, NEW batch \in Moves!Batches, Moves!Prepare(o, batch)
    PROVE  MovesInv'
<1> DEFINE op == [status |-> "AwaitingConfirmation",
                  items |-> [f \in batch |-> "NotStarted"],
                  shown |-> [f \in batch |-> v7[f]],
                  dir |-> [status |-> IF v9 = 0 THEN "NotStarted" ELSE "None", id |-> 0],
                  anchor |-> Moves!Anchor]
<1>1. /\ v3 = "idle" /\ v1[o].status = "none"
      /\ \A f \in batch : v6[f] = "source" /\ ~Moves!InDoubt(f)
      /\ v1' = [v1 EXCEPT ![o] = op] /\ v2' = op
      /\ v3' = "asking" /\ v4' = o /\ v5' = FALSE
      /\ UNCHANGED <<v11, Moves!disk, v12, Moves!history>>
  BY DEF Moves!Prepare
<1>2. op \in Operation
  <2>1. /\ batch \in SUBSET MoveFiles /\ [f \in batch |-> "NotStarted"] \in [batch -> ItemStates]
        /\ [f \in batch |-> v7[f]] \in [batch -> Nat]
    BY DEF Moves!Batches, ItemStates, MovesInv, MovesTyped, Moves!TypeOK
  <2>2. /\ [f \in batch |-> "NotStarted"] \in Partial(ItemStates)
        /\ [f \in batch |-> v7[f]] \in Partial(Nat)
    BY <2>1 DEF Partial
  <2>3. Moves!Anchor \in Nat \X Nat
    BY DEF Moves!Anchor, MovesInv, MovesTyped, Moves!TypeOK
  <2> QED
    BY <2>2, <2>3 DEF Operation, Moves!Unresolved, ItemStates
<1>3. /\ op.status = "AwaitingConfirmation" /\ DOMAIN op.items = batch
      /\ \A f \in batch : op.items[f] = "NotStarted"
  OBVIOUS
<1> HIDE DEF op
<1>4. /\ v1' \in [MoveOps -> Operation] /\ v1'[o] = op /\ batch \subseteq MoveFiles
      /\ \A p \in MoveOps \ {o} : v1'[p] = v1[p]
  BY <1>1, <1>2 DEF MovesInv, MovesTyped, Moves!Batches
<1>5. \A f \in batch \ v16, p \in MoveOps : <<p, f>> \notin v13
  BY <1>1, <1>4 DEF MovesInv, MovePlaceInv
<1>6. \A f \in batch, p \in MoveOps : ~Holds(p, f)
  BY <1>1 DEF Moves!InDoubt, Holds, Moves!Kept, Moves!Unresolved, Moves!Doubtful
<1>7. MoveRowsInv'
  <2>1. \A p \in MoveOps : Truth(p, v1[p])'
    <3>1. Truth(o, v1[o])'
      BY <1>1, <1>3, <1>4, <1>5 DEF Truth, Says, Moves!history
    <3>2. \A p \in MoveOps \ {o} : Truth(p, v1[p])'
      BY <1>1, <1>4 DEF MovesInv, MoveRowsInv, Truth, Says, Moves!history
    <3> QED
      BY <3>1, <3>2
  <2>2. \A p \in MoveOps, f \in MoveFiles : Holds(p, f)' => Holds(p, f) \/ (p = o /\ f \in batch)
    BY <1>3, <1>4 DEF Holds
  <2>3. v13' = v13 /\ v16' = v16
    BY <1>1 DEF Moves!history
  <2>4. \A p, q \in MoveOps, f \in MoveFiles : Holds(p, f)' /\ Holds(q, f)' => p = q
    BY <1>6, <2>2 DEF MovesInv, MoveRowsInv
  <2>5. \A p, q \in MoveOps, f \in MoveFiles \ v16 : Holds(p, f)' /\ <<q, f>> \in v13 => p = q
    BY <1>5, <2>2 DEF MovesInv, MoveRowsInv
  <2>6. \A p \in MoveOps : v1'[p].status = "AwaitingConfirmation" =>
            \A f \in DOMAIN v1'[p].items : v1'[p].items[f] = "NotStarted"
    BY <1>3, <1>4 DEF MovesInv, MoveRowsInv
  <2> QED
    BY <2>1, <2>3, <2>4, <2>5, <2>6 DEF MoveRowsInv
<1>8. MovePlaceInv'
  BY <1>1 DEF MovesInv, MovePlaceInv, Moves!disk, Moves!history
<1>9. MovesTyped'
  BY <1>1, <1>2, <1>4, ProcessTyped
  DEF MovesInv, MovesTyped, Moves!TypeOK, Moves!disk, Moves!history, Active
<1>10. Fits("asking", op)
  BY <1>3 DEF Fits
<1>11. Fits(v3', v2')
  BY <1>1, <1>10
<1>12. MoveMemInv'
  BY <1>1, <1>4, <1>11 DEF MoveMemInv
<1> QED
  BY <1>7, <1>8, <1>9, <1>12 DEF MovesInv

LEMMA AnswerKeeps ==
    ASSUME MovesInv, NEW yes \in BOOLEAN, Moves!Answer(yes)
    PROVE  MovesInv'
<1>1. v3 = "asking" /\ v3 \in Active /\ UNCHANGED <<v5, v11, Moves!disk, v13, v14, v16>>
  BY DEF Moves!Answer, Active
<1>2. v4 \in MoveOps /\ v15 \subseteq MoveOps /\ Fits(v3, v2)
  BY <1>1 DEF MovesInv, MoveMemInv, MovesTyped, Moves!TypeOK
<1>3. CASE yes /\ ~v5
  <2>1. v3' = "checking" /\ v15' = v15 \cup {v4} /\ UNCHANGED <<v1, v2, v4, v12>>
    BY <1>3 DEF Moves!Answer
  <2>2. Fits("checking", v2) /\ "checking" \in Active
    BY <1>1, <1>2 DEF Fits, Active
  <2> QED
    BY <1>1, <1>2, <2>1, <2>2, GoesOn
<1>4. CASE ~(yes /\ ~v5)
  <2>1. Moves!EndWith("Cancelled") /\ UNCHANGED v15
    BY <1>4 DEF Moves!Answer
  <2>2. \A f \in DOMAIN v2.items \ v16 : <<v4, f>> \notin v13
    BY <1>1, <1>2, MemKnows DEF Fits
  <2> QED
    BY <1>1, <2>1, <2>2, EndKeeps DEF Moves!Terminal, Moves!history
<1> QED
  BY <1>3, <1>4

LEMMA CancelKeeps ==
    ASSUME MovesInv, Moves!Cancel
    PROVE  MovesInv'
<1>1. v5' = TRUE /\ UNCHANGED <<v1, v2, v3, v4, v11, Moves!disk, v12, Moves!history>>
  BY DEF Moves!Cancel
<1>2. MoveRowsInv' /\ MovePlaceInv' /\ v1' \in [MoveOps -> Operation]
  BY <1>1, NoSaveKeeps DEF Moves!disk, Moves!history
<1>3. MovesTyped'
  BY <1>1, <1>2, ProcessTyped
  DEF MovesInv, MovesTyped, Moves!TypeOK, Moves!disk, Moves!history, Active
<1>4. MoveMemInv'
  BY <1>1 DEF MovesInv, MoveMemInv, Moves!history, Fits, Busy
<1> QED
  BY <1>2, <1>3, <1>4 DEF MovesInv

LEMMA PreflightKeeps ==
    ASSUME MovesInv, Moves!Preflight
    PROVE  MovesInv'
<1>1. v3 = "checking" /\ v3 \in Active /\ UNCHANGED <<v5, v11, Moves!disk, Moves!history>>
  BY DEF Moves!Preflight, Active
<1>2. /\ v4 \in MoveOps /\ v4 \in v15 /\ v2 \in Operation /\ Fits(v3, v2)
      /\ \A f \in DOMAIN v2.items : v2.items[f] = "NotStarted"
  BY <1>1 DEF MovesInv, MoveMemInv, MovesTyped, Fits
<1>3. \A f \in DOMAIN v2.items \ v16 : <<v4, f>> \notin v13
  BY <1>1, <1>2, MemKnows
<1>4. CASE Moves!AsShown
  <2> DEFINE op == [v2 EXCEPT !.status = "Executing"]
  <2>1. /\ op \in Operation /\ op.status = "Executing" /\ op.items = v2.items
        /\ op.shown = v2.shown
    BY <1>2, WithStatus DEF Moves!Unresolved, Moves!Doubtful
  <2>2. \/ Moves!Save(op) /\ v2' = op /\ v3' = "pinning" /\ Moves!Calm /\ UNCHANGED v4
        \/ Moves!Trouble /\ Moves!Return /\ UNCHANGED v1
    BY <1>4 DEF Moves!Preflight
  <2> HIDE DEF op
  <2>3. Fits("pinning", op) /\ "pinning" \in Active
    BY <1>2, <2>1 DEF Fits, Active
  <2>4. CASE Moves!Save(op) /\ v2' = op /\ v3' = "pinning" /\ Moves!Calm /\ UNCHANGED v4
    BY <1>1, <1>2, <1>3, <2>1, <2>3, <2>4, StepKeeps
    DEF Moves!Step, Moves!disk, Moves!history, MovesInv, MovesTyped, Moves!TypeOK
  <2>5. CASE Moves!Trouble /\ Moves!Return /\ UNCHANGED v1
    <3>1. Moves!EndWith("Invalidated")
      BY <2>5 DEF Moves!EndWith
    <3> QED
      BY <1>1, <1>3, <3>1, EndKeeps DEF Moves!Terminal
  <2> QED
    BY <2>2, <2>4, <2>5
<1>5. CASE ~Moves!AsShown
  <2>1. Moves!EndWith("Invalidated")
    BY <1>5 DEF Moves!Preflight
  <2> QED
    BY <1>1, <1>3, <2>1, EndKeeps DEF Moves!Terminal
<1> QED
  BY <1>4, <1>5

\* What is true of the operation while it works.
LEMMA WhileWorking ==
    ASSUME MovesInv, v3 \in Active \ {"asking", "checking"}
    PROVE  /\ v2 \in Operation /\ v4 \in MoveOps /\ v4 \in v15 /\ v2.status = "Executing"
           /\ v9 \in Nat /\ v14 \subseteq MoveOps /\ Fits(v3, v2)
           /\ \A f \in DOMAIN v2.items \ v16 :
                 /\ v2.items[f] = "Succeeded" => <<v4, f>> \in v13
                 /\ v2.items[f] \in {"Failed", "NotStarted"} => <<v4, f>> \notin v13
<1>1. v3 \in Active
  OBVIOUS
<1> QED
  BY <1>1, MemKnows DEF MovesInv, MoveMemInv, MovesTyped, Moves!TypeOK, Fits

LEMMA PinKeeps ==
    ASSUME MovesInv, Moves!Pin
    PROVE  MovesInv'
<1>1. v3 = "pinning" /\ UNCHANGED <<v5, v11, Moves!disk, v12, Moves!history>>
  BY DEF Moves!Pin
<1>2. v3 \in Active /\ v3 \in Active \ {"asking", "checking"}
  BY <1>1 DEF Active
<1>3. Busy(v2) = {} /\ \A f \in DOMAIN v2.items : v2.items[f] = "NotStarted"
  BY <1>1, <1>2, WhileWorking DEF Fits, Busy
<1>4. CASE Moves!Return
  <2>1. Moves!Save([v2 EXCEPT !.status = "Unknown"]) \/ UNCHANGED v1
    BY DEF Moves!Pin
  <2> QED
    BY <1>1, <1>2, <1>4, <2>1, WhileWorking, LostKeeps DEF Moves!disk, Moves!history
<1>5. CASE /\ v3' \in {"items", "mkdir"} /\ UNCHANGED <<v1, v2, v4>>
  <2>1. Fits(v3', v2) /\ v3' \in Active
    BY <1>2, <1>3, <1>5, WhileWorking DEF Fits, Active
  <2>2. PICK next \in Active : next = v3'
    BY <2>1
  <2>3. Fits(next, v2) /\ next # "asking"
    BY <1>5, <2>1, <2>2
  <2> QED
    BY <1>1, <1>2, <1>5, <2>2, <2>3, WhileWorking, GoesOn
    DEF Moves!disk, Moves!history, MovesInv, MovesTyped, Moves!TypeOK
<1> QED
  BY <1>4, <1>5 DEF Moves!Pin

LEMMA NotePlannedDirectoryKeeps ==
    ASSUME MovesInv, Moves!NotePlannedDirectory
    PROVE  MovesInv'
<1>1. v3 = "mkdir" /\ UNCHANGED <<v5, v11, Moves!disk, Moves!history>>
  BY DEF Moves!NotePlannedDirectory
<1>2. /\ v3 \in Active /\ v3 \in Active \ {"asking", "checking"}
      /\ "ending" \in Active /\ "making" \in Active
  BY <1>1 DEF Active
<1>3. \A f \in DOMAIN v2.items : v2.items[f] = "NotStarted"
  BY <1>1, <1>2, WhileWorking DEF Fits
<1>4. CASE v5
  <2>1. v3' = "ending" /\ UNCHANGED <<v1, v2, v4, v12>>
    BY <1>4 DEF Moves!NotePlannedDirectory
  <2>2. Fits("ending", v2)
    BY <1>2, WhileWorking DEF Fits
  <2> QED
    BY <1>1, <1>2, <2>1, <2>2, WhileWorking, GoesOn
    DEF Moves!history, MovesInv, MovesTyped, Moves!TypeOK
<1>5. CASE ~v5
  <2> DEFINE op == [v2 EXCEPT !.dir.status = "Executing"]
  <2>1. Moves!Step(op, "making")
    BY <1>5 DEF Moves!NotePlannedDirectory
  <2>2. /\ op \in Operation /\ op.status = v2.status /\ op.items = v2.items
        /\ op.shown = v2.shown
    BY <1>2, WhileWorking, WithDir DEF ItemStates
  <2> HIDE DEF op
  <2>3. Fits("making", op)
    BY <1>2, <1>3, <2>2, WhileWorking DEF Fits
  <2> QED
    BY <1>1, <1>2, <2>1, <2>2, <2>3, WhileWorking, StepKeeps DEF Moves!disk, Moves!history
<1> QED
  BY <1>4, <1>5

LEMMA CreateDirectoryKeeps ==
    ASSUME MovesInv, Moves!CreateDirectory
    PROVE  MovesInv'
<1> DEFINE found == [v2 EXCEPT !.dir = [status |-> "Unknown", id |-> 1]]
           lost  == [v2 EXCEPT !.dir.status = "Unknown"]
           none  == [v2 EXCEPT !.dir.status = "Failed"]
<1>1. /\ v3 = "making"
      /\ UNCHANGED <<v5, v11, v6, v7, v8, v10, v13, v15, v16>>
  BY DEF Moves!CreateDirectory
<1>2. /\ v3 \in Active /\ v3 \in Active \ {"asking", "checking"}
      /\ "ending" \in Active /\ "made" \in Active
  BY <1>1 DEF Active
<1>3. \A f \in DOMAIN v2.items : v2.items[f] = "NotStarted"
  BY <1>1, <1>2, WhileWorking DEF Fits
<1>4. "Unknown" \in ItemStates /\ "Failed" \in ItemStates /\ v2 \in Operation
  BY <1>2, WhileWorking DEF ItemStates
<1>5. \/ /\ v9' = 1 /\ v14' = v14 \cup {v4}
         /\ \/ v2' = found /\ v3' = "made" /\ UNCHANGED <<v1, v4>>
            \/ Moves!Interrupted(lost)
      \/ /\ UNCHANGED <<v9, v14>>
         /\ \/ Moves!Step(none, "ending")
            \/ Moves!Save(none) /\ v2' = none /\ v3' = "ending" /\ UNCHANGED v4
  BY DEF Moves!CreateDirectory
<1>6. /\ found \in Operation /\ found.status = v2.status /\ found.items = v2.items
      /\ found.shown = v2.shown
  BY ZenonT(60), <1>4, WithDir
<1>7. lost \in Operation /\ lost.items = v2.items
  BY <1>4, WithDir
<1>8. /\ none \in Operation /\ none.status = v2.status /\ none.items = v2.items
      /\ none.shown = v2.shown
  BY <1>4, WithDir
<1> HIDE DEF found, lost, none
<1>9. v9' \in Nat /\ v14' \subseteq MoveOps
  BY <1>2, <1>5, WhileWorking
<1>10. Fits("made", found) /\ Fits("ending", none)
  BY <1>2, <1>3, <1>6, <1>8, WhileWorking DEF Fits
<1>11. CASE v2' = found /\ v3' = "made" /\ UNCHANGED <<v1, v4>>
  BY <1>1, <1>2, <1>6, <1>9, <1>10, <1>11, WhileWorking, GoesOnWith
  DEF MovesInv, MovesTyped, Moves!TypeOK
<1>12. CASE Moves!Interrupted(lost)
  BY <1>1, <1>2, <1>7, <1>9, <1>12, WhileWorking, LostKeeps DEF Moves!Interrupted
<1>13. CASE Moves!Step(none, "ending")
  BY <1>1, <1>2, <1>8, <1>9, <1>10, <1>13, WhileWorking, StepKeeps
<1>14. CASE Moves!Save(none) /\ v2' = none /\ v3' = "ending" /\ UNCHANGED v4
  BY <1>1, <1>2, <1>8, <1>9, <1>10, <1>14, WhileWorking, SavedKeeps
<1> QED
  BY <1>5, <1>11, <1>12, <1>13, <1>14

LEMMA NoteDirectoryKeeps ==
    ASSUME MovesInv, Moves!NoteDirectory
    PROVE  MovesInv'
<1> DEFINE op == [v2 EXCEPT !.dir.status = "Succeeded"]
<1>1. v3 = "made" /\ Moves!Step(op, "items") /\ UNCHANGED <<v5, v11, Moves!disk, Moves!history>>
  BY DEF Moves!NoteDirectory
<1>2. v3 \in Active /\ v3 \in Active \ {"asking", "checking"} /\ "items" \in Active
  BY <1>1 DEF Active
<1>3. op \in Operation /\ op.status = v2.status /\ op.items = v2.items /\ op.shown = v2.shown
  BY <1>2, WhileWorking, WithDir DEF ItemStates
<1> HIDE DEF op
<1>4. Fits("items", op)
  BY <1>1, <1>2, <1>3, WhileWorking DEF Fits, Busy
<1> QED
  BY <1>1, <1>2, <1>3, <1>4, WhileWorking, StepKeeps DEF Moves!disk, Moves!history

\* One item at a time is between its first save and its observation.
LEMMA StartItemKeeps ==
    ASSUME MovesInv, NEW f \in MoveFiles, Moves!StartItem(f)
    PROVE  MovesInv'
<1>1. /\ v3 = "items" /\ UNCHANGED <<v5, v11, Moves!disk, Moves!history>>
      /\ f \in DOMAIN v2.items /\ v2.items[f] = "NotStarted"
  BY DEF Moves!StartItem
<1>2. /\ v3 \in Active /\ v3 \in Active \ {"asking", "checking"}
      /\ "moving" \in Active /\ "ending" \in Active
  BY <1>1 DEF Active
<1>3. v2 \in Operation /\ Busy(v2) = {}
  BY <1>1, <1>2, WhileWorking DEF Fits
<1>4. CASE Moves!Step([v2 EXCEPT !.items[f] = "Executing"], "moving")
  <2> DEFINE op == [v2 EXCEPT !.items[f] = "Executing"]
  <2>1. /\ op \in Operation /\ op.status = v2.status /\ op.shown = v2.shown
        /\ DOMAIN op.items = DOMAIN v2.items /\ op.items[f] = "Executing"
        /\ \A g \in DOMAIN v2.items \ {f} : op.items[g] = v2.items[g]
    BY <1>1, <1>3, WithItem DEF ItemStates
  <2>2. Moves!Step(op, "moving")
    BY <1>4
  <2> HIDE DEF op
  <2>3. Busy(op) = {f}
    BY <1>1, <1>3, <2>1 DEF Busy
  <2>4. Fits("moving", op)
    BY <1>2, <2>1, <2>3, WhileWorking DEF Fits
  <2>5. \A g \in DOMAIN v2.items \ v16 :
           /\ op.items[g] = "Succeeded" => <<v4, g>> \in v13
           /\ op.items[g] \in {"Failed", "NotStarted"} => <<v4, g>> \notin v13
    BY <1>2, <2>1, WhileWorking
  <2> QED
    BY <1>1, <1>2, <2>1, <2>2, <2>4, <2>5, WhileWorking, StepKeeps DEF Moves!disk, Moves!history
<1>5. CASE Moves!Step([v2 EXCEPT !.items[f] = "Failed"], "ending")
  <2> DEFINE op == [v2 EXCEPT !.items[f] = "Failed"]
  <2>1. /\ op \in Operation /\ op.status = v2.status /\ op.shown = v2.shown
        /\ DOMAIN op.items = DOMAIN v2.items /\ op.items[f] = "Failed"
        /\ \A g \in DOMAIN v2.items \ {f} : op.items[g] = v2.items[g]
    BY <1>1, <1>3, WithItem DEF ItemStates
  <2>2. Moves!Step(op, "ending")
    BY <1>5
  <2> HIDE DEF op
  <2>3. Fits("ending", op)
    BY <1>2, <2>1, WhileWorking DEF Fits
  <2>4. \A g \in DOMAIN v2.items \ v16 :
           /\ op.items[g] = "Succeeded" => <<v4, g>> \in v13
           /\ op.items[g] \in {"Failed", "NotStarted"} => <<v4, g>> \notin v13
    BY <1>1, <1>2, <2>1, WhileWorking
  <2> QED
    BY <1>1, <1>2, <2>1, <2>2, <2>3, <2>4, WhileWorking, StepKeeps DEF Moves!disk, Moves!history
<1> QED
  BY <1>4, <1>5 DEF Moves!StartItem

LEMMA NoItemLeftKeeps ==
    ASSUME MovesInv, Moves!NoItemLeft
    PROVE  MovesInv'
<1>1. /\ v3 = "items" /\ v3' = "ending"
      /\ UNCHANGED <<v1, v2, v4, v5, v11, Moves!disk, v12, Moves!history>>
  BY DEF Moves!NoItemLeft
<1>2. v3 \in Active /\ v3 \in Active \ {"asking", "checking"} /\ "ending" \in Active
  BY <1>1 DEF Active
<1>3. Fits("ending", v2)
  BY <1>2, WhileWorking DEF Fits
<1> QED
  BY <1>1, <1>2, <1>3, WhileWorking, GoesOn DEF Moves!history, MovesInv, MovesTyped, Moves!TypeOK

\* The file being renamed: its row says so already.
LEMMA OnFile ==
    ASSUME MovesInv, NEW f \in Moves!Working, v3 \in {"moving", "observing"}
    PROVE  /\ f \in DOMAIN v2.items /\ f \in MoveFiles /\ Busy(v2) = {f}
           /\ v1[v4].items[f] = v2.items[f] /\ Holds(v4, f)
           /\ v1[v4].status = "Executing" /\ v1[v4].shown = v2.shown
           /\ v3 = "moving" => v2.items[f] = "Executing"
<1>1. v3 \in Active /\ v3 \in Active \ {"asking", "checking"}
  BY DEF Active
<1>2. f \in Busy(v2) /\ f \in DOMAIN v2.items
  BY DEF Moves!Working, Busy
<1>3. Busy(v2) = {f} /\ f \in MoveFiles /\ (v3 = "moving" => v2.items[f] = "Executing")
  BY <1>1, <1>2, WhileWorking, OperationIs DEF Fits
<1>4. v1[v4].status = "Executing" /\ v1[v4].shown = v2.shown
  BY <1>1, WhileWorking DEF MovesInv, MoveMemInv
<1>5. v1[v4].items[f] = v2.items[f] /\ f \in DOMAIN v1[v4].items
  BY <1>1, <1>2 DEF MovesInv, MoveMemInv
<1> QED
  BY <1>2, <1>3, <1>4, <1>5 DEF Holds, Moves!Unresolved, Moves!Doubtful

LEMMA RenameKeeps ==
    ASSUME MovesInv, NEW f \in MoveFiles, Moves!Rename(f)
    PROVE  MovesInv'
<1> DEFINE op == [v2 EXCEPT !.items[f] = "Verifying"]
<1>1. /\ v3 = "moving" /\ f \in Moves!Working /\ v3' = "moved" /\ v2' = op
      /\ UNCHANGED <<v1, v4, v5, v11, v7, v8, v9,
                     v10, v14, v15, v16>>
      /\ \/ /\ v6[f] = "source" /\ v6' = [v6 EXCEPT ![f] = "target"]
            /\ v13' = v13 \cup {<<v4, f>>}
         \/ UNCHANGED <<v6, v13>>
  BY DEF Moves!Rename
<1>2. v3 \in Active /\ v3 \in Active \ {"asking", "checking"}
  BY <1>1 DEF Active
<1>3. /\ f \in DOMAIN v2.items /\ Busy(v2) = {f} /\ v2.items[f] = "Executing"
      /\ v1[v4].items[f] = "Executing" /\ Holds(v4, f) /\ v1[v4].status = "Executing"
  BY <1>1, OnFile
<1>4. /\ op \in Operation /\ op.status = v2.status /\ op.shown = v2.shown
      /\ DOMAIN op.items = DOMAIN v2.items /\ op.items[f] = "Verifying"
      /\ \A g \in DOMAIN v2.items \ {f} : op.items[g] = v2.items[g]
  BY ZenonT(60), <1>2, <1>3, WhileWorking, WithItem DEF ItemStates
<1> HIDE DEF op
<1>5. v13 \subseteq v13' /\ v13' \subseteq v13 \cup {<<v4, f>>}
  BY <1>1
<1>6. MoveRowsInv'
  <2>1. \A o \in MoveOps : Truth(o, v1[o])'
    BY <1>1, <1>3, <1>5 DEF MovesInv, MoveRowsInv, Truth, Says
  <2>2. \A o, p \in MoveOps, g \in MoveFiles \ v16' :
            Holds(o, g)' /\ <<p, g>> \in v13' => o = p
    <3> SUFFICES ASSUME NEW o \in MoveOps, NEW p \in MoveOps, NEW g \in MoveFiles \ v16,
                        Holds(o, g), <<p, g>> \in v13'
                 PROVE  o = p
      BY <1>1 DEF Holds
    <3>1. CASE <<p, g>> \in v13
      BY <3>1 DEF MovesInv, MoveRowsInv
    <3>2. CASE <<p, g>> = <<v4, f>>
      BY <1>2, <1>3, <3>2, WhileWorking DEF MovesInv, MoveRowsInv
    <3> QED
      BY <1>5, <3>1, <3>2
  <2> QED
    BY <1>1, <2>1, <2>2 DEF MovesInv, MoveRowsInv, Holds
<1>7. MovePlaceInv'
  <2>1. CASE /\ v6[f] = "source" /\ v6' = [v6 EXCEPT ![f] = "target"]
             /\ v13' = v13 \cup {<<v4, f>>}
    <3>1. v6'[f] = "target" /\ \A g \in MoveFiles \ {f} : v6'[g] = v6[g]
      BY <2>1 DEF MovesInv, MovesTyped, Moves!TypeOK
    <3>2. \A g \in MoveFiles \ {f}, o \in MoveOps : <<o, g>> \in v13' <=> <<o, g>> \in v13
      BY <2>1
    <3>3. <<v4, f>> \in v13' /\ v4 \in MoveOps
      BY <1>2, <2>1, WhileWorking
    <3> QED
      BY <1>1, <3>1, <3>2, <3>3 DEF MovesInv, MovePlaceInv
  <2>2. CASE UNCHANGED <<v6, v13>>
    BY <1>1, <2>2 DEF MovesInv, MovePlaceInv
  <2> QED
    BY <1>1, <2>1, <2>2
<1>8. MovesTyped'
  <2>1. v6' \in [MoveFiles -> {"source", "target", "away"}]
    BY <1>1 DEF MovesInv, MovesTyped, Moves!TypeOK
  <2>2. v13' \subseteq MoveOps \X MoveFiles
    BY <1>2, <1>5, WhileWorking DEF MovesInv, MovesTyped, Moves!TypeOK
  <2>3. Moves!Kept' = Moves!Kept /\ v4' \in MoveOps \cup {NoOp} /\ v2' \in Operation
    BY <1>1, <1>2, <1>4, WhileWorking DEF Moves!Kept
  <2> QED
    BY <1>1, <2>1, <2>2, <2>3 DEF MovesInv, MovesTyped, Moves!TypeOK
<1>9. Fits("moved", op)
  <2>1. Busy(op) = {f}
    BY <1>3, <1>4 DEF Busy
  <2> QED
    BY <1>2, <1>4, <2>1, WhileWorking DEF Fits
<1>10. Fits(v3', v2')
  BY <1>1, <1>9
<1>11. MoveMemInv'
  BY <1>1, <1>2, <1>3, <1>4, <1>10 DEF MovesInv, MoveMemInv
<1> QED
  BY <1>6, <1>7, <1>8, <1>11 DEF MovesInv

LEMMA NoteCallKeeps ==
    ASSUME MovesInv, Moves!NoteCall
    PROVE  MovesInv'
<1>1. /\ v3 = "moved" /\ Moves!Step(v2, "observing")
      /\ UNCHANGED <<v5, v11, Moves!disk, Moves!history>>
  BY DEF Moves!NoteCall
<1>2. v3 \in Active /\ v3 \in Active \ {"asking", "checking"} /\ "observing" \in Active
  BY <1>1 DEF Active
<1>3. Fits("observing", v2)
  BY <1>1, <1>2, WhileWorking DEF Fits
<1> QED
  BY <1>1, <1>2, <1>3, WhileWorking, StepKeeps DEF Moves!disk, Moves!history

\* What is seen of an untouched file is what the operation did to it.
LEMMA SeenIsDone ==
    ASSUME MovesInv, NEW o \in MoveOps, NEW f \in MoveFiles \ v16, Holds(o, f), NEW shown
    PROVE  /\ Moves!Observed(f, shown) \in {"Succeeded", "Failed", "Unknown"}
           /\ Moves!Observed(f, shown) = "Succeeded" => <<o, f>> \in v13
           /\ Moves!Observed(f, shown) = "Failed" => <<o, f>> \notin v13
<1>1. Moves!Observed(f, shown) = "Succeeded" => v6[f] = "target"
  BY DEF Moves!Observed
<1>2. Moves!Observed(f, shown) = "Failed" => v6[f] = "source"
  BY DEF Moves!Observed
<1>3. Moves!Observed(f, shown) \in {"Succeeded", "Failed", "Unknown"}
  BY DEF Moves!Observed
<1> QED
  BY <1>1, <1>2, <1>3 DEF MovesInv, MovePlaceInv, MoveRowsInv

LEMMA ObserveKeeps ==
    ASSUME MovesInv, NEW f \in MoveFiles, Moves!Observe(f)
    PROVE  MovesInv'
<1>1. v3 = "observing" /\ f \in Moves!Working /\ UNCHANGED <<v5, v11, Moves!disk, Moves!history>>
  BY DEF Moves!Observe
<1>2. v3 \in Active /\ v3 \in Active \ {"asking", "checking"}
  BY <1>1 DEF Active
<1>3. f \in DOMAIN v2.items /\ Busy(v2) = {f} /\ Holds(v4, f)
  BY <1>1, OnFile
<1>4. PICK seen \in {Moves!Observed(f, v2.shown[f]), "Unknown"} :
          Moves!Step([v2 EXCEPT !.items[f] = seen],
                     IF seen = "Succeeded" THEN "items" ELSE "ending")
  BY DEF Moves!Observe
<1>5. seen \in {"Succeeded", "Failed", "Unknown"} /\ seen \in ItemStates
  BY DEF Moves!Observed, ItemStates
<1>6. f \notin v16 => /\ seen = "Succeeded" => <<v4, f>> \in v13
                      /\ seen = "Failed" => <<v4, f>> \notin v13
  <2> DEFINE shown == v2.shown[f]
  <2>1. seen \in {Moves!Observed(f, shown), "Unknown"}
    OBVIOUS
  <2> HIDE DEF shown
  <2> QED
    BY <1>2, <1>3, <2>1, WhileWorking, SeenIsDone
<1> DEFINE op == [v2 EXCEPT !.items[f] = seen]
           next == IF seen = "Succeeded" THEN "items" ELSE "ending"
<1>7. /\ op \in Operation /\ op.status = v2.status /\ op.shown = v2.shown
      /\ DOMAIN op.items = DOMAIN v2.items /\ op.items[f] = seen
      /\ \A g \in DOMAIN v2.items \ {f} : op.items[g] = v2.items[g]
  BY <1>2, <1>3, <1>5, WhileWorking, WithItem
<1>8. Moves!Step(op, next) /\ next \in Active /\ next \in {"items", "ending"}
  BY <1>4 DEF Active
<1> HIDE DEF op, next
<1>9. Busy(op) = {}
  BY <1>3, <1>5, <1>7 DEF Busy
<1>10. Fits(next, op)
  BY <1>2, <1>7, <1>8, <1>9, WhileWorking DEF Fits
<1>11. \A g \in DOMAIN v2.items \ v16 :
          /\ op.items[g] = "Succeeded" => <<v4, g>> \in v13
          /\ op.items[g] \in {"Failed", "NotStarted"} => <<v4, g>> \notin v13
  BY <1>2, <1>5, <1>6, <1>7, WhileWorking
<1> QED
  BY <1>1, <1>2, <1>7, <1>8, <1>10, <1>11, WhileWorking, StepKeeps DEF Moves!disk, Moves!history

LEMMA FinishKeeps ==
    ASSUME MovesInv, Moves!Finish
    PROVE  MovesInv'
<1> DEFINE status == Moves!Aggregate(v2, v5)
<1>1. v3 = "ending" /\ Moves!EndWith(status) /\ UNCHANGED <<v5, v11, Moves!disk, Moves!history>>
  BY DEF Moves!Finish
<1>2. v3 \in Active /\ v3 \in Active \ {"asking", "checking"} /\ v5 \in BOOLEAN
  BY <1>1 DEF Active, MovesInv, MovesTyped, Moves!TypeOK
<1>3. /\ status \in {"Unknown", "Succeeded", "Partial", "Cancelled", "Failed"}
      /\ status = "Succeeded" => \A f \in DOMAIN v2.items : v2.items[f] = "Succeeded"
      /\ status \in {"Cancelled", "Failed"} =>
            \A f \in DOMAIN v2.items : v2.items[f] \in {"NotStarted", "Failed"}
  BY <1>2, WhileWorking, AggregateIs
<1> HIDE DEF status
<1>4. \A f \in DOMAIN v2.items \ v16 :
         /\ status \in {"Cancelled", "Failed", "Invalidated"} => <<v4, f>> \notin v13
         /\ status = "Succeeded" => <<v4, f>> \in v13
  BY <1>2, <1>3, WhileWorking
<1> QED
  BY <1>1, <1>2, <1>3, <1>4, EndKeeps DEF Moves!Terminal

-----------------------------------------------------------------------------
(* The journal outside an operation: restarts, and other programs. *)

LEMMA RowsKept ==
    ASSUME MovesInv, v3' \notin Active, v1' \in [MoveOps -> Operation], v2' \in Operation,
           v3' \in {"off", "starting", "idle"}, v4' \in MoveOps \cup {NoOp}, v11' \subseteq MoveOps,
           UNCHANGED <<v5, Moves!disk, Moves!history>>,
           \A o \in MoveOps :
               \/ v1'[o] = v1[o]
               \/ v1'[o].status = "deleted" /\ DOMAIN v1'[o].items = {}
               \/ /\ v1'[o].status \in Moves!Terminal \cup {"Unknown"}
                  /\ v1[o].status \in Moves!Unresolved
                  /\ DOMAIN v1'[o].items = DOMAIN v1[o].items /\ Truth(o, v1'[o])
    PROVE  MovesInv'
<1>1. v13' = v13 /\ v16' = v16 /\ v6' = v6
  BY DEF Moves!history, Moves!disk
<1>2. \A o \in MoveOps : Truth(o, v1'[o])
  BY DEF MovesInv, MoveRowsInv, Truth, Says
<1>3. \A o \in MoveOps, f \in MoveFiles : Holds(o, f)' => Holds(o, f)
  BY DEF Holds, Moves!Unresolved, Moves!Doubtful
<1>4. MoveRowsInv'
  <2>1. \A o \in MoveOps : Truth(o, v1[o])'
    BY <1>1, <1>2 DEF Truth, Says
  <2>2. \A o \in MoveOps : v1'[o].status = "AwaitingConfirmation" => v1'[o] = v1[o]
    BY DEF Moves!Terminal
  <2> QED
    BY <1>1, <1>3, <2>1, <2>2 DEF MovesInv, MoveRowsInv
<1>5. MovePlaceInv'
  BY <1>1 DEF MovesInv, MovePlaceInv
<1>6. MovesTyped'
  BY ProcessTyped DEF MovesInv, MovesTyped, Moves!TypeOK, Moves!disk, Moves!history
<1> QED
  BY <1>4, <1>5, <1>6 DEF MovesInv, MoveMemInv

LEMMA OpenKeeps ==
    ASSUME MovesInv, NEW old \in SUBSET Moves!Kept, Moves!Open(old)
    PROVE  MovesInv'
<1>1. /\ v1' = [o \in MoveOps |-> IF o \in old THEN Moves!Deleted ELSE v1[o]]
      /\ v3' = "starting" /\ v11' = Moves!Kept \ old
      /\ UNCHANGED <<v2, v4, v5, Moves!disk, v12, Moves!history>>
  BY DEF Moves!Open
<1>2. /\ Moves!Deleted \in Operation /\ Moves!Deleted.status = "deleted"
      /\ DOMAIN Moves!Deleted.items = {}
  BY BlankIs
<1> HIDE DEF Moves!Deleted
<1>3. v1' \in [MoveOps -> Operation]
  BY <1>1, <1>2 DEF MovesInv, MovesTyped
<1>4. \A o \in MoveOps : v1'[o] = v1[o] \/ v1'[o] = Moves!Deleted
  BY <1>1
<1>5. /\ v11' \subseteq MoveOps /\ v2' \in Operation /\ v4' \in MoveOps \cup {NoOp}
      /\ v3' \notin Active
  BY <1>1 DEF Moves!Kept, MovesInv, MovesTyped, Moves!TypeOK, Active
<1> QED
  BY <1>1, <1>2, <1>3, <1>4, <1>5, RowsKept

LEMMA ClearCompletedKeeps ==
    ASSUME MovesInv, Moves!ClearCompleted
    PROVE  MovesInv'
<1>1. /\ v1' = [o \in MoveOps |-> IF o \in Moves!Kept /\ v1[o].status \in Moves!Terminal
                                  THEN Moves!Deleted ELSE v1[o]]
      /\ v3' = "off" /\ UNCHANGED <<v2, v4, v5, v11, Moves!disk, v12, Moves!history>>
  BY DEF Moves!ClearCompleted
<1>2. /\ Moves!Deleted \in Operation /\ Moves!Deleted.status = "deleted"
      /\ DOMAIN Moves!Deleted.items = {}
  BY BlankIs
<1>3. v1' \in [MoveOps -> Operation]
  BY <1>1, <1>2 DEF MovesInv, MovesTyped
<1>4. \A o \in MoveOps : v1'[o] = v1[o] \/ v1'[o] = Moves!Deleted
  BY <1>1
<1>5. /\ v11' \subseteq MoveOps /\ v2' \in Operation /\ v4' \in MoveOps \cup {NoOp}
      /\ v3' \notin Active
  BY <1>1 DEF MovesInv, MovesTyped, Moves!TypeOK, Active
<1> QED
  BY <1>1, <1>2, <1>3, <1>4, <1>5, RowsKept

\* What a restart concludes from what it sees.
LEMMA ReconciledIs ==
    ASSUME NEW op \in Operation, NEW seen \in [MoveFiles -> {"Succeeded", "Failed", "Unknown"}]
    PROVE  LET n == Moves!Reconciled(op, seen)
           IN  /\ n \in Operation /\ DOMAIN n.items = DOMAIN op.items
               /\ \A f \in DOMAIN op.items :
                     n.items[f] = IF op.items[f] \in Moves!Doubtful THEN seen[f] ELSE op.items[f]
               /\ n.status \in {"Unknown", "Succeeded", "Partial", "Cancelled", "Failed"}
               /\ n.status = "Succeeded" => \A f \in DOMAIN op.items : n.items[f] = "Succeeded"
               /\ n.status \in {"Cancelled", "Failed"} =>
                     \A f \in DOMAIN op.items : n.items[f] \in {"NotStarted", "Failed"}
<1> DEFINE items == [f \in DOMAIN op.items |->
                        IF op.items[f] \in Moves!Doubtful THEN seen[f] ELSE op.items[f]]
           status == CASE op.dir.status \notin {"Executing", "Unknown"} -> op.dir.status
                       [] v9 = 0 -> "Failed"
                       [] op.dir.id = v9 -> "Succeeded"
                       [] OTHER -> "Unknown"
           after == [op EXCEPT !.items = items, !.dir.status = status]
<1>1. items \in [DOMAIN op.items -> ItemStates]
  BY OperationIs DEF ItemStates
<1>2. status \in ItemStates \cup {"None"}
  <2>1. op.dir.status \in ItemStates \cup {"None"}
    BY OperationIs
  <2>2. status \in {op.dir.status, "Failed", "Succeeded", "Unknown"}
    OBVIOUS
  <2> HIDE DEF status
  <2> QED
    BY <2>1, <2>2 DEF ItemStates
<1>3. Moves!Reconciled(op, seen) = [after EXCEPT !.status = Moves!Aggregate(after, FALSE)]
  BY DEF Moves!Reconciled
<1>4. \A f \in DOMAIN op.items :
         items[f] = IF op.items[f] \in Moves!Doubtful THEN seen[f] ELSE op.items[f]
  OBVIOUS
<1> HIDE DEF items, status
<1>5. after \in Operation /\ after.items = items
  <2>1. items \in Partial(ItemStates)
    BY <1>1, OperationIs DEF Partial
  <2> QED
    BY <1>2, <2>1 DEF Operation
<1>6. DOMAIN after.items = DOMAIN op.items
  BY <1>1, <1>5
<1> HIDE DEF after
<1> DEFINE whole == Moves!Aggregate(after, FALSE)
<1>7. /\ whole \in {"Unknown", "Succeeded", "Partial", "Cancelled", "Failed"}
      /\ whole = "Succeeded" => \A f \in DOMAIN after.items : after.items[f] = "Succeeded"
      /\ whole \in {"Cancelled", "Failed"} =>
            \A f \in DOMAIN after.items : after.items[f] \in {"NotStarted", "Failed"}
  BY <1>5, AggregateIs
<1> HIDE DEF whole
<1>8. whole \in Moves!Unresolved \cup Moves!Terminal
  BY <1>7 DEF Moves!Unresolved, Moves!Doubtful, Moves!Terminal
<1> DEFINE n == [after EXCEPT !.status = whole]
<1>9. n \in Operation /\ n.status = whole /\ n.items = after.items
  BY <1>5, <1>8, WithStatus
<1> HIDE DEF n
<1>10. Moves!Reconciled(op, seen) = n
  BY <1>3 DEF n, whole
<1> QED
  BY <1>4, <1>5, <1>6, <1>7, <1>9, <1>10

LEMMA ReconcileKeeps ==
    ASSUME MovesInv, NEW o \in MoveOps,
           NEW seen \in [MoveFiles -> {"Succeeded", "Failed", "Unknown"}],
           Moves!Reconcile(o, seen)
    PROVE  MovesInv'
<1>1. /\ v3 = "starting" /\ v11' = v11 \ {o}
      /\ UNCHANGED <<v2, v3, v4, v5, Moves!disk, v12, Moves!history>>
  BY DEF Moves!Reconcile
<1>2. /\ v11' \subseteq MoveOps /\ v2' \in Operation /\ v4' \in MoveOps \cup {NoOp}
      /\ v3' = "starting" /\ v3' \notin Active /\ v1[o] \in Operation
  BY <1>1 DEF MovesInv, MovesTyped, Moves!TypeOK, Active
<1>3. CASE /\ \A f \in MoveFiles : f \in DOMAIN v1[o].items =>
                 seen[f] \in {Moves!Observed(f, v1[o].shown[f]), "Unknown"}
           /\ v1[o].status \in Moves!Doubtful
           /\ v1' = [v1 EXCEPT ![o] = Moves!Reconciled(@, seen)]
  <2> DEFINE n == Moves!Reconciled(v1[o], seen)
  <2>1. /\ n \in Operation /\ DOMAIN n.items = DOMAIN v1[o].items
        /\ \A f \in DOMAIN v1[o].items :
              n.items[f] = IF v1[o].items[f] \in Moves!Doubtful THEN seen[f] ELSE v1[o].items[f]
        /\ n.status \in {"Unknown", "Succeeded", "Partial", "Cancelled", "Failed"}
        /\ n.status = "Succeeded" => \A f \in DOMAIN v1[o].items : n.items[f] = "Succeeded"
        /\ n.status \in {"Cancelled", "Failed"} =>
              \A f \in DOMAIN v1[o].items : n.items[f] \in {"NotStarted", "Failed"}
    BY <1>2, ReconciledIs
  <2>2. v1' = [v1 EXCEPT ![o] = n]
    BY <1>3
  <2> HIDE DEF n
  <2>3. v1' \in [MoveOps -> Operation] /\ v1'[o] = n /\ \A p \in MoveOps \ {o} : v1'[p] = v1[p]
    BY <2>1, <2>2 DEF MovesInv, MovesTyped
  <2>4. DOMAIN v1[o].items \subseteq MoveFiles /\ v1[o].status \in Moves!Unresolved
    BY <1>2, <1>3, OperationIs DEF Moves!Unresolved
  <2>5. \A f \in DOMAIN v1[o].items \ v16 :
           /\ n.items[f] = "Succeeded" => <<o, f>> \in v13
           /\ n.items[f] \in {"Failed", "NotStarted"} => <<o, f>> \notin v13
    <3> SUFFICES ASSUME NEW f \in DOMAIN v1[o].items \ v16
                 PROVE  /\ n.items[f] = "Succeeded" => <<o, f>> \in v13
                        /\ n.items[f] \in {"Failed", "NotStarted"} => <<o, f>> \notin v13
      OBVIOUS
    <3>1. CASE v1[o].items[f] \in Moves!Doubtful
      <4> DEFINE shown == v1[o].shown[f]
      <4>1. seen[f] \in {Moves!Observed(f, shown), "Unknown"} /\ n.items[f] = seen[f]
        BY <1>3, <2>1, <2>4, <3>1
      <4>2. Holds(o, f) /\ f \in MoveFiles \ v16
        BY <2>4 DEF Holds
      <4> HIDE DEF shown
      <4>3. /\ Moves!Observed(f, shown) \in {"Succeeded", "Failed", "Unknown"}
            /\ Moves!Observed(f, shown) = "Succeeded" => <<o, f>> \in v13
            /\ Moves!Observed(f, shown) = "Failed" => <<o, f>> \notin v13
        BY <4>2, SeenIsDone
      <4> QED
        BY <4>1, <4>3
    <3>2. CASE v1[o].items[f] \notin Moves!Doubtful
      BY <2>1, <3>2 DEF MovesInv, MoveRowsInv, Truth, Says
    <3> QED
      BY <3>1, <3>2
  <2>6. Truth(o, n)
    BY <2>1, <2>5 DEF Truth, Says
  <2>7. n.status \in Moves!Terminal \cup {"Unknown"}
    BY <2>1 DEF Moves!Terminal
  <2>8. \A p \in MoveOps : \/ v1'[p] = v1[p]
                           \/ /\ v1'[p].status \in Moves!Terminal \cup {"Unknown"}
                              /\ v1[p].status \in Moves!Unresolved
                              /\ DOMAIN v1'[p].items = DOMAIN v1[p].items
                              /\ Truth(p, v1'[p])
    BY <2>1, <2>3, <2>4, <2>6, <2>7
  <2> QED
    BY <1>1, <1>2, <2>3, <2>8, RowsKept
<1>4. CASE v1[o].status = "AwaitingConfirmation" /\ v1' = [v1 EXCEPT ![o].status = "Cancelled"]
  <2> DEFINE n == [v1[o] EXCEPT !.status = "Cancelled"]
  <2>1. n \in Operation /\ n.status = "Cancelled" /\ n.items = v1[o].items
    BY <1>2, WithStatus DEF Moves!Terminal
  <2>2. v1' = [v1 EXCEPT ![o] = n]
    BY <1>4
  <2> HIDE DEF n
  <2>3. v1' \in [MoveOps -> Operation] /\ v1'[o] = n /\ \A p \in MoveOps \ {o} : v1'[p] = v1[p]
    BY <2>1, <2>2 DEF MovesInv, MovesTyped
  <2>4. \A f \in DOMAIN v1[o].items : v1[o].items[f] = "NotStarted"
    BY <1>4 DEF MovesInv, MoveRowsInv
  <2>5. Truth(o, n)
    BY <2>1, <2>4 DEF MovesInv, MoveRowsInv, Truth, Says
  <2>6. \A p \in MoveOps : \/ v1'[p] = v1[p]
                           \/ /\ v1'[p].status \in Moves!Terminal \cup {"Unknown"}
                              /\ v1[p].status \in Moves!Unresolved
                              /\ DOMAIN v1'[p].items = DOMAIN v1[p].items
                              /\ Truth(p, v1'[p])
    BY <1>4, <2>1, <2>3, <2>5 DEF Moves!Terminal, Moves!Unresolved
  <2> QED
    BY <1>1, <1>2, <2>3, <2>6, RowsKept
<1>5. CASE UNCHANGED v1
  <2>1. v1' \in [MoveOps -> Operation]
    BY <1>5 DEF MovesInv, MovesTyped
  <2> QED
    BY <1>1, <1>2, <1>5, <2>1, RowsKept
<1> QED
  BY <1>3, <1>4, <1>5 DEF Moves!Reconcile

LEMMA StartedKeeps ==
    ASSUME MovesInv, Moves!Started
    PROVE  MovesInv'
<1>1. v3' = "idle" /\ UNCHANGED <<v1, v2, v4, v5, v11, Moves!disk, v12, Moves!history>>
  BY DEF Moves!Started
<1>2. /\ v11' \subseteq MoveOps /\ v2' \in Operation /\ v4' \in MoveOps \cup {NoOp}
      /\ v3' \notin Active /\ v1' \in [MoveOps -> Operation]
  BY <1>1 DEF MovesInv, MovesTyped, Moves!TypeOK, Active
<1> QED
  BY <1>1, <1>2, RowsKept

LEMMA CrashKeeps ==
    ASSUME MovesInv, Moves!Crash
    PROVE  MovesInv'
<1>1. /\ v3' = "off" /\ v2' = Moves!Blank /\ v4' = NoOp /\ v11' = {}
      /\ UNCHANGED <<v1, v5, Moves!disk, Moves!history>>
  BY DEF Moves!Crash
<1>2. v2' \in Operation
  BY <1>1, BlankIs
<1>3. /\ v11' \subseteq MoveOps /\ v4' \in MoveOps \cup {NoOp}
      /\ v3' \notin Active /\ v1' \in [MoveOps -> Operation]
  BY <1>1 DEF MovesInv, MovesTyped, Moves!TypeOK, Active
<1> QED
  BY <1>1, <1>2, <1>3, RowsKept

\* Other programs may move a file, which is then touched, and little else.
LEMMA OthersKeep ==
    ASSUME MovesInv, UNCHANGED <<v1, Moves!process, v13, v14, v15>>,
           v16 \subseteq v16', v16' \subseteq MoveFiles,
           \A f \in MoveFiles \ v16' : v6'[f] = v6[f],
           v6' \in [MoveFiles -> {"source", "target", "away"}], v7' \in [MoveFiles -> Nat],
           v8' \subseteq MoveFiles \X {"source", "target"}, v9' \in Nat, v10' \in Nat
    PROVE  MovesInv'
<1>1. UNCHANGED <<v1, v2, v3, v4, v5, v11>>
  BY DEF Moves!process
<1>2. MoveRowsInv'
  BY <1>1 DEF MovesInv, MoveRowsInv, Truth, Says, Holds
<1>3. MovePlaceInv'
  BY <1>1 DEF MovesInv, MovePlaceInv
<1>4. MovesTyped'
  BY <1>1 DEF MovesInv, MovesTyped, Moves!TypeOK, Moves!Kept
<1>5. MoveMemInv'
  BY <1>1 DEF MovesInv, MoveMemInv, Fits, Busy
<1> QED
  BY <1>2, <1>3, <1>4, <1>5 DEF MovesInv

LEMMA OtherStepsKeep ==
    ASSUME MovesInv, Moves!Others
    PROVE  MovesInv'
<1>1. ASSUME NEW f \in MoveFiles, NEW where \in {"source", "target", "away"},
             Moves!Relocate(f, where)
      PROVE  MovesInv'
  BY <1>1, OthersKeep DEF Moves!Relocate, MovesInv, MovesTyped, Moves!TypeOK
<1>2. ASSUME NEW f \in MoveFiles, Moves!Write(f)
      PROVE  MovesInv'
  BY <1>2, OthersKeep DEF Moves!Write, Moves!history, MovesInv, MovesTyped, Moves!TypeOK
<1>3. ASSUME NEW f \in MoveFiles, NEW where \in {"source", "target"}, Moves!Squat(f, where)
      PROVE  MovesInv'
  BY <1>3, OthersKeep DEF Moves!Squat, Moves!history, MovesInv, MovesTyped, Moves!TypeOK
<1>4. CASE Moves!Rebuild
  <2>1. v9' \in Nat /\ v10' \in Nat
    BY <1>4 DEF Moves!Rebuild, MovesInv, MovesTyped, Moves!TypeOK
  <2> QED
    BY <1>4, <2>1, OthersKeep DEF Moves!Rebuild, Moves!history, MovesInv, MovesTyped, Moves!TypeOK
<1> QED
  BY <1>1, <1>2, <1>3, <1>4 DEF Moves!Others

-----------------------------------------------------------------------------
(* The invariant, and what follows from it. *)

LEMMA MovesStart == Moves!Init => MovesInv
<1> SUFFICES ASSUME Moves!Init
             PROVE  MovesInv
  OBVIOUS
<1>1. /\ Moves!Blank \in Operation /\ DOMAIN Moves!Blank.items = {} /\ Moves!Blank.status = "none"
  BY BlankIs
<1> HIDE DEF Moves!Blank
<1>2. \A o \in MoveOps : v1[o] = Moves!Blank
  BY DEF Moves!Init
<1>3. MovesTyped
  <2>1. Moves!Kept = {} /\ v1 \in [MoveOps -> Operation] /\ v2 \in Operation
    BY <1>1, <1>2 DEF Moves!Init, Moves!Kept
  <2>2. /\ v6 \in [MoveFiles -> {"source", "target", "away"}] /\ v7 \in [MoveFiles -> Nat]
        /\ v9 \in Nat /\ v10 \in Nat
    BY DEF Moves!Init
  <2>3. DOMAIN v1 = MoveOps
    BY <2>1
  <2> QED
    BY <2>1, <2>2, <2>3 DEF Moves!Init, MovesTyped, Moves!TypeOK
<1>4. MoveRowsInv
  BY <1>1, <1>2 DEF Moves!Init, MoveRowsInv, Truth, Says, Holds, Moves!Unresolved, Moves!Doubtful
<1>5. MovePlaceInv
  BY DEF Moves!Init, MovePlaceInv
<1>6. MoveMemInv
  BY DEF Moves!Init, MoveMemInv, Active
<1> QED
  BY <1>3, <1>4, <1>5, <1>6 DEF MovesInv

LEMMA MovesStep ==
    ASSUME MovesInv, [Moves!Next]_(Moves!vars)
    PROVE  MovesInv'
<1>1. CASE Moves!Life
  BY <1>1, OpenKeeps, ReconcileKeeps, StartedKeeps, ClearCompletedKeeps, CrashKeeps DEF Moves!Life
<1>2. CASE Moves!Operate
  BY <1>2, PrepareKeeps, AnswerKeeps, CancelKeeps, PreflightKeeps, PinKeeps,
     NotePlannedDirectoryKeeps, CreateDirectoryKeeps, NoteDirectoryKeeps, NoItemLeftKeeps,
     NoteCallKeeps, FinishKeeps, StartItemKeeps, RenameKeeps, ObserveKeeps DEF Moves!Operate
<1>3. CASE Moves!Others
  BY <1>3, OtherStepsKeep
<1>4. CASE UNCHANGED Moves!vars
  <2>1. /\ UNCHANGED <<v1, Moves!process, v13, v14, v15>>
        /\ UNCHANGED <<v6, v7, v8, v9, v10, v16>>
    BY <1>4 DEF Moves!vars, Moves!disk, Moves!history
  <2> QED
    BY <2>1, OthersKeep DEF MovesInv, MovesTyped, Moves!TypeOK
<1> QED
  BY <1>1, <1>2, <1>3, <1>4 DEF Moves!Next

\* What the journal says is part of the invariant.
LEMMA TellsTruth == MovesInv => Moves!JournalTruthful
  BY DEF MovesInv, MoveRowsInv, Truth, Says, Moves!JournalTruthful, Moves!Kept

\* No two operations in doubt hold the same file.
LEMMA HeldOnce == MovesInv => Moves!OneInDoubt
<1> SUFFICES ASSUME MovesInv, NEW f \in MoveFiles
             PROVE  Cardinality({o \in Moves!Kept : /\ v1[o].status \in Moves!Unresolved
                                                    /\ f \in DOMAIN v1[o].items}) <= 1
  BY DEF Moves!OneInDoubt, Moves!Cardinality, Cardinality, Moves!IsFiniteSet, IsFiniteSet
<1> DEFINE S == {o \in Moves!Kept : v1[o].status \in Moves!Unresolved /\ f \in DOMAIN v1[o].items}
<1>1. \A o, p \in S : o = p
  BY DEF MovesInv, MoveRowsInv, Holds, Moves!Kept
<1> HIDE DEF S
<1>2. S = {} \/ \E o : S = {o}
  BY <1>1
<1>3. Cardinality(S) = 0 \/ Cardinality(S) = 1
  BY <1>2, FS_EmptySet, FS_Singleton, Zenon
<1>4. Cardinality(S) <= 1
  BY <1>3
<1> QED
  BY <1>4 DEF S

\* A step moves what the user agreed to, or what other programs move.
LEMMA MovesConfirmed ==
    ASSUME MovesInv, [Moves!Next]_(Moves!vars)
    PROVE  Moves!MoveConfirmed
<1>1. ASSUME NEW g \in MoveFiles, Moves!Rename(g)
      PROVE  Moves!MoveConfirmed
  <2>1. /\ v3 = "moving" /\ g \in Moves!Working /\ v16' = v16
        /\ \/ /\ v7[g] = v2.shown[g] /\ Moves!Free(g) /\ v6[g] = "source"
              /\ v6' = [v6 EXCEPT ![g] = "target"] /\ v13' = v13 \cup {<<v4, g>>}
           \/ UNCHANGED <<v6, v13>>
    BY <1>1 DEF Moves!Rename
  <2>2. v3 \in Active \ {"asking", "checking"}
    BY <2>1 DEF Active
  <2>3. /\ v4 \in MoveOps /\ v4 \in v15 /\ Holds(v4, g) /\ v1[v4].status = "Executing"
        /\ v1[v4].items[g] = "Executing" /\ v1[v4].shown = v2.shown
    BY <2>1, <2>2, WhileWorking, OnFile
  <2>4. CASE UNCHANGED <<v6, v13>>
    BY <2>4 DEF Moves!MoveConfirmed
  <2>5. CASE /\ v7[g] = v2.shown[g] /\ Moves!Free(g) /\ v6[g] = "source"
             /\ v6' = [v6 EXCEPT ![g] = "target"] /\ v13' = v13 \cup {<<v4, g>>}
    <3>1. \A f \in MoveFiles : v6'[f] # v6[f] => f = g
      BY <2>5 DEF MovesInv, MovesTyped, Moves!TypeOK
    <3>2. g \notin v16 => <<v4, g>> \notin v13
      BY <2>3, <2>5 DEF MovesInv, MovePlaceInv
    <3>3. \A o \in MoveOps, f \in MoveFiles : <<o, f>> \in v13' \ v13 => o = v4 /\ f = g
      BY <2>5
    <3>4. <<g, "target">> \notin v8
      BY <2>5 DEF Moves!Free
    <3> QED
      BY <2>1, <2>3, <2>5, <3>1, <3>2, <3>3, <3>4 DEF Moves!MoveConfirmed
  <2> QED
    BY <2>1, <2>4, <2>5
<1>2. ASSUME NEW g \in MoveFiles, NEW where \in {"source", "target", "away"},
             Moves!Relocate(g, where)
      PROVE  Moves!MoveConfirmed
  <2>1. \A f \in MoveFiles : v6'[f] # v6[f] => f = g
    BY <1>2 DEF Moves!Relocate, MovesInv, MovesTyped, Moves!TypeOK
  <2>2. v13' = v13 /\ g \in v16'
    BY <1>2 DEF Moves!Relocate
  <2> QED
    BY <2>1, <2>2 DEF Moves!MoveConfirmed
<1>3. CASE UNCHANGED <<v6, v13>>
  BY <1>3 DEF Moves!MoveConfirmed
<1>4. CASE Moves!Life
  BY <1>3, <1>4
  DEF Moves!Life, Moves!Open, Moves!Reconcile, Moves!Started, Moves!ClearCompleted,
      Moves!Crash, Moves!disk, Moves!history
<1>5. ASSUME \/ \E o \in MoveOps, batch \in Moves!Batches : Moves!Prepare(o, batch)
             \/ \E yes \in BOOLEAN : Moves!Answer(yes)
             \/ Moves!Cancel \/ Moves!Preflight \/ Moves!Pin
             \/ Moves!NotePlannedDirectory \/ Moves!CreateDirectory
             \/ Moves!NoteDirectory \/ Moves!NoItemLeft \/ Moves!NoteCall \/ Moves!Finish
      PROVE  UNCHANGED <<v6, v13>>
  BY <1>5
  DEF Moves!Prepare, Moves!Answer, Moves!Cancel, Moves!Preflight, Moves!Pin,
      Moves!NotePlannedDirectory, Moves!CreateDirectory,
      Moves!NoteDirectory, Moves!NoItemLeft, Moves!NoteCall, Moves!Finish, Moves!disk,
      Moves!history
<1>6. ASSUME NEW f \in MoveFiles, Moves!StartItem(f) \/ Moves!Observe(f)
      PROVE  UNCHANGED <<v6, v13>>
  BY <1>6 DEF Moves!StartItem, Moves!Observe, Moves!disk, Moves!history
<1>7. ASSUME \/ Moves!Rebuild
             \/ \E f \in MoveFiles : \/ Moves!Write(f)
                                     \/ \E where \in {"source", "target"} : Moves!Squat(f, where)
      PROVE  UNCHANGED <<v6, v13>>
  BY <1>7 DEF Moves!Rebuild, Moves!Write, Moves!Squat, Moves!history
<1>8. CASE UNCHANGED Moves!vars
  BY <1>3, <1>8 DEF Moves!vars, Moves!disk, Moves!history
<1>9. CASE Moves!Operate
  BY <1>1, <1>3, <1>5, <1>6, <1>9 DEF Moves!Operate
<1>10. CASE Moves!Others
  BY <1>2, <1>3, <1>7, <1>10 DEF Moves!Others
<1> QED
  BY <1>4, <1>8, <1>9, <1>10 DEF Moves!Next

-----------------------------------------------------------------------------
(* The sum: a behaviour stays in its part, and a step of the sum is a step  *)
(* of that part.                                                            *)

ReceiptsInv ==
    /\ part = "moves" => MovesInv
    /\ part = "startup" => StartupInv
    /\ part = "full" => Full!IInv /\ Full!TableInv

\* What the proofs about the engine assume holds for its second instance too.
LEMMA FullParameters == FullBoots \in Nat \ {0} /\ FullCap \in Nat \ {0}
  BY FullAssumption

\* In every part the first state has the invariant.
LEMMA ReceiptsStart == AllInit => ReceiptsInv
<1> SUFFICES ASSUME AllInit PROVE ReceiptsInv
  OBVIOUS
<1>1. /\ part = "moves" => Moves!Init
      /\ part = "startup" => Startup!Init
      /\ part = "full" => Full!Init
  BY DEF AllInit
<1>2. part = "moves" => MovesInv
  BY <1>1, MovesStart
<1>3. part = "full" => Full!IInv
  BY <1>1, Full!InitInv, FullParameters, MaxVersionAssumption, MaxCrashesAssumption,
     NoHostAssumption, NoOpAssumption, ResolverAssumption, NoTargetAssumption
<1>4. part = "full" => Full!TableInv
  BY <1>1, Full!TableStart, FullParameters, MaxVersionAssumption, MaxCrashesAssumption,
     NoHostAssumption, NoOpAssumption, ResolverAssumption, NoTargetAssumption
<1> QED
  BY <1>1, <1>2, <1>3, <1>4, StartupStart DEF ReceiptsInv

\* A step of the sum is one of its part.
LEMMA PartSteps ==
    ASSUME [AllNext]_all
    PROVE  /\ part' = part
           /\ part = "moves" => [Moves!Next]_(Moves!vars)
           /\ part = "startup" => [Startup!Next]_(Startup!vars)
           /\ part = "full" => [Full!Next]_(Full!vars)
<1>1. CASE AllNext
  BY <1>1 DEF AllNext
<1>2. CASE UNCHANGED all
  <2>1. part' = part /\ UNCHANGED slots
    BY <1>2 DEF all
  <2>2. UNCHANGED <<v1, v2, v3, v4, v5, v6, v7, v8, v9, v10, v11, v12, v13, v14, v15, v16>>
    BY <2>1 DEF slots
  <2>3. UNCHANGED <<Moves!vars, Startup!vars, Full!vars>>
    BY <2>2 DEF Moves!vars, Moves!disk, Moves!process, Moves!history, Startup!vars,
                Startup!disk, Startup!call, Full!vars
  <2> QED
    BY <2>1, <2>3
<1> QED
  BY <1>1, <1>2

\* So it keeps the invariant.
LEMMA ReceiptsKeep ==
    ASSUME ReceiptsInv, [AllNext]_all
    PROVE  ReceiptsInv'
<1>1. part = "moves" => MovesInv'
  BY PartSteps, MovesStep DEF ReceiptsInv
<1>2. part = "full" => Full!IInv'
  BY PartSteps, Full!NextKeeps, FullParameters, MaxVersionAssumption, MaxCrashesAssumption,
     NoHostAssumption, NoOpAssumption, ResolverAssumption, NoTargetAssumption DEF ReceiptsInv
<1>3. part = "full" => Full!TableInv'
  BY PartSteps, Full!TableKeeps, FullParameters, MaxVersionAssumption, MaxCrashesAssumption,
     NoHostAssumption, NoOpAssumption, ResolverAssumption, NoTargetAssumption DEF ReceiptsInv
<1>4. part = "startup" => StartupInv'
  BY PartSteps, StartupStep DEF ReceiptsInv
<1> QED
  BY <1>1, <1>2, <1>3, <1>4, PartSteps DEF ReceiptsInv

\* The inductive invariant of the sum.
THEOREM ReceiptsInvariant == AllSpec => []ReceiptsInv
<1>1. ReceiptsInv /\ [AllNext]_all => ReceiptsInv'
  BY ReceiptsKeep
<1> QED
  BY ReceiptsStart, <1>1, PTL DEF AllSpec

\* The journals tell the truth, for any operations, files, shortcuts and
\* troubles: about every file that was moved or not, about every shortcut the
\* shell keeps, and about everything that may still act, in a table that can
\* be read however full it is.
THEOREM JournalsTellTheTruth == AllSpec => []JournalTruthful
<1>1. ReceiptsInv /\ part = "moves"
      => Moves!TypeOK /\ Moves!JournalTruthful /\ Moves!OneInDoubt
  BY TellsTruth, HeldOnce DEF ReceiptsInv, MovesInv, MovesTyped
<1>2. ReceiptsInv /\ part = "startup" => Startup!TypeOK /\ Startup!KeptIsOnRecord
  BY StartupTells DEF ReceiptsInv
<1>3. ReceiptsInv /\ part = "full" => Full!JournalReadable /\ Full!ActingIsOnRecord
  BY DEF ReceiptsInv, Full!IInv, Full!TableInv
<1>4. ReceiptsInv => JournalTruthful
  BY <1>1, <1>2, <1>3 DEF JournalTruthful
<1> QED
  BY ReceiptsInvariant, <1>4, PTL

\* A file is only renamed by an operation the user has agreed to, once, when
\* the journal already says so, as the version that was shown, and never onto
\* another file.
THEOREM MovedOnlyAsConfirmed == AllSpec => MovesAsConfirmed
<1>1. ReceiptsInv /\ [AllNext]_all => (part = "moves" => Moves!MoveConfirmed)
  BY PartSteps, MovesConfirmed DEF ReceiptsInv
<1> QED
  BY ReceiptsInvariant, <1>1, PTL DEF AllSpec, MovesAsConfirmed
===============================================================================
