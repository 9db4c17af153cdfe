------------------------- MODULE BridgeAdmissionProofs -------------------------
(***************************************************************************)
(* Proofs about BridgeAdmission, for any number of requests, sessions,     *)
(* confirmations in a request and process confirmations.                   *)
(*                                                                         *)
(* AdmissionExact is inductive once "at most one holder" is said of each   *)
(* pair of holders (HolderInv).  ActsOnConsent rests on what a             *)
(* confirmation goes through: the one that waits is the last its request   *)
(* asked (PendingInv); a maintenance plan is posted for as long as it      *)
(* waits (PostedInv), so a plain click that was let through is not for the *)
(* one that waits (ClickInv); hence a "yes" in a channel, and the verdict  *)
(* made of it, have their consent (AnswerInv, VerdictInv).  CancelStops    *)
(* and AnsweredUnderOneConfig follow from StoppedInv and ConfigInv.        *)
(***************************************************************************)
EXTENDS BridgeAdmission, FiniteSetTheorems, TLAPS

PreparingHolds == {"reserved", "preparing", "refused", "failing"}

\* No two of the five kinds of holders at once, nor two requests.
HolderInv ==
    /\ \A r, q \in Requests : pc[r] \in Admitted /\ pc[q] \in Admitted => r = q
    /\ (\E r \in Requests : pc[r] \in Admitted)
         => prep \notin PreparingHolds /\ token = 0 /\ res # "resolving" /\ local = "idle"
    /\ prep \in PreparingHolds => token = 0 /\ res # "resolving" /\ local = "idle"
    /\ token # 0 => res # "resolving" /\ local = "idle"
    /\ res = "resolving" => local = "idle"

BusyInv ==
    busy <=> \/ \E r \in Requests : pc[r] \in Admitted
             \/ prep \in PreparingHolds \/ token # 0 \/ res = "resolving" \/ local # "idle"

OwnerInv ==
    /\ \A r \in Requests : pc[r] \in Admitted <=> active = r
    /\ active # NoRequest => SessionOf[active] \in registered
    /\ contexts \cup durable \subseteq registered

\* Who waits has asked, and only what was asked can be a maintenance plan.
AskedInv ==
    /\ \A r \in Requests :
          pc[r] \in {"posting", "waiting", "closing", "unposting", "acting"} => asks[r] # 0
    /\ \A c \in maint : c[2] <= asks[c[1]]

TokenInv == prep \in {"reserved", "preparing"} => tokens < MaxTokens

\* The confirmation that waits is the last one of a request that waits for it.
PendingInv ==
    pending # NoConf =>
        \E r \in Requests : pending = Asked(r) /\ pc[r] \in {"posting", "waiting", "closing"}

PostedInv ==
    \A r \in Requests :
        pc[r] \in {"waiting", "closing"} /\ Asked(r) \in maint => maintenance = Asked(r)

\* A click the main thread has in hand is on an old confirmation or a consent.
ClickInv ==
    main = "confirming" =>
        /\ click.conf \in Confs /\ click.conf[2] <= asks[click.conf[1]]
        /\ click.yes => click.conf \in consents \/ pending # click.conf

AnswerInv == \A c \in Confs : answer[c] = "yes" => c \in consents

VerdictInv ==
    \A r \in Requests :
        \/ pc[r] \in {"closing", "unposting"} /\ verdict[r]
        \/ pc[r] = "acting"
        => Asked(r) \in consents

StoppedInv ==
    \A r \in stopped :
        /\ pc[r] \in Admitted /\ cancelled
        /\ pc[r] = "unposting" => ~verdict[r]

ConfigInv ==
    \A r \in Requests :
        pc[r] \in Admitted \ {"reserved", "loaded", "releasing"} => configuration = seen[r]

IInv ==
    /\ TypeOK
    /\ HolderInv /\ BusyInv /\ OwnerInv /\ TokenInv
    /\ AskedInv /\ PendingInv /\ PostedInv /\ ClickInv /\ AnswerInv /\ VerdictInv
    /\ StoppedInv /\ ConfigInv

-----------------------------------------------------------------------------
\* What cancel and answer, in control.rs, may change.
ControlTyped ==
    /\ busy \in BOOLEAN /\ cancelled \in BOOLEAN
    /\ pending \in Confs \cup {NoConf}
    /\ answer \in [Confs -> {"none", "yes", "no"}]
    /\ stopped \in SUBSET Requests

\* cancel, answer and confirm_bound leave it well typed.
LEMMA CancelTyped == TypeOK /\ CancelControl => ControlTyped'
  BY DEF TypeOK, CancelControl, ControlTyped

LEMMA AnswerTyped ==
    ASSUME TypeOK, NEW c, NEW yes \in BOOLEAN, Answer(c, yes), UNCHANGED stopped
    PROVE  ControlTyped'
  BY DEF TypeOK, Answer, ControlTyped, control

LEMMA BoundTyped ==
    ASSUME TypeOK, NEW c, NEW yes \in BOOLEAN, Bound(c, yes)
    PROVE  ControlTyped'
<1>1. CASE active # c[1]
  BY <1>1 DEF Bound, TypeOK, ControlTyped, control
<1>2. CASE active = c[1] /\ configuration # config
  BY <1>2, CancelTyped DEF Bound
<1>3. CASE active = c[1] /\ configuration = config
  BY <1>3, AnswerTyped DEF Bound
<1> QED
  BY <1>1, <1>2, <1>3

\* No step of a request's worker disturbs the invariant.
LEMMA RequestKeeps ==
    ASSUME IInv,
           \/ \E r \in Requests : ReserveFor(r)
           \/ \E r \in Requests : LoadConfig(r)
           \/ \E r \in Requests : TakeContext(r)
           \/ \E r \in Requests : Post(r)
           \/ \E r \in Requests : Decide(r)
           \/ \E r \in Requests : Close(r)
           \/ \E r \in Requests : Unpost(r)
           \/ \E r \in Requests : ActEnds(r)
           \/ \E r \in Requests : PutContext(r)
           \/ \E r \in Requests : Fail(r)
           \/ \E r \in Requests : HangUp(r)
           \/ \E r \in Requests : Drop(r)
           \/ \E r \in Requests, m \in BOOLEAN : Ask(r, m)
           \/ \E c \in Confs : Expire(c)
    PROVE  IInv'
<1> USE SessionOfAssumption, NoRequestAssumption, NoConfAssumption, BoundsAssumption
<1> USE DEF IInv, TypeOK, HolderInv, BusyInv, OwnerInv, TokenInv, AskedInv, PendingInv,
            PostedInv, ClickInv, AnswerInv, VerdictInv, StoppedInv, ConfigInv,
            PreparingHolds, Admitted, Confs, Asked, control, request, session,
            process, desk, others, outside, turn
<1>1. ASSUME NEW r \in Requests, ReserveFor(r)
      PROVE  IInv'
  <2>1. TypeOK'
    BY <1>1 DEF ReserveFor, Reserve, Goto
  <2>2. (HolderInv /\ BusyInv /\ OwnerInv /\ TokenInv)'
    BY <1>1 DEF ReserveFor, Reserve, Goto
  <2>3. (AskedInv /\ PendingInv /\ PostedInv)'
    BY <1>1 DEF ReserveFor, Reserve, Goto
  <2>4. ClickInv'
    BY <1>1 DEF ReserveFor, Reserve, Goto
  <2>5. (AnswerInv /\ VerdictInv)'
    BY <1>1 DEF ReserveFor, Reserve, Goto
  <2>6. (StoppedInv /\ ConfigInv)'
    BY <1>1 DEF ReserveFor, Reserve, Goto
  <2> HIDE DEF TypeOK, HolderInv, BusyInv, OwnerInv, TokenInv, AskedInv, PendingInv,
               PostedInv, ClickInv, AnswerInv, VerdictInv, StoppedInv, ConfigInv
  <2> QED
    BY <2>1, <2>2, <2>3, <2>4, <2>5, <2>6
<1>2. ASSUME NEW r \in Requests, LoadConfig(r)
      PROVE  IInv'
  BY <1>2 DEF LoadConfig, Goto
<1>3. ASSUME NEW r \in Requests, TakeContext(r)
      PROVE  IInv'
  BY <1>3 DEF TakeContext, Goto
<1>4. ASSUME NEW r \in Requests, Post(r)
      PROVE  IInv'
  BY <1>4 DEF Post, Goto
<1>5. ASSUME NEW r \in Requests, Decide(r)
      PROVE  IInv'
  <2>1. TypeOK'
    <3>1. \E b \in BOOLEAN :
             verdict' = [verdict EXCEPT ![r] = b] /\ (b => answer[Asked(r)] = "yes")
      BY <1>5, Zenon DEF Decide
    <3>2. verdict' \in [Requests -> BOOLEAN]
      BY <3>1
    <3> QED
      BY <1>5, <3>2 DEF Decide, Goto
  <2>2. (HolderInv /\ BusyInv /\ OwnerInv /\ TokenInv)'
    BY <1>5 DEF Decide, Goto
  <2>3. (AskedInv /\ PendingInv /\ PostedInv)'
    BY <1>5 DEF Decide, Goto
  <2>4. ClickInv'
    BY <1>5 DEF Decide, Goto
  <2>5. (AnswerInv /\ VerdictInv)'
    <3>1. \E b \in BOOLEAN :
             verdict' = [verdict EXCEPT ![r] = b] /\ (b => answer[Asked(r)] = "yes")
      BY <1>5, Zenon DEF Decide
    <3>2. /\ verdict'[r] => answer[Asked(r)] = "yes"
          /\ \A q \in Requests \ {r} : verdict'[q] = verdict[q]
      BY <3>1
    <3> QED
      BY <1>5, <3>2 DEF Decide, Goto
  <2>6. (StoppedInv /\ ConfigInv)'
    BY <1>5 DEF Decide, Goto
  <2> HIDE DEF TypeOK, HolderInv, BusyInv, OwnerInv, TokenInv, AskedInv, PendingInv,
               PostedInv, ClickInv, AnswerInv, VerdictInv, StoppedInv, ConfigInv
  <2> QED
    BY <2>1, <2>2, <2>3, <2>4, <2>5, <2>6
<1>6. ASSUME NEW r \in Requests, Close(r)
      PROVE  IInv'
  <2>1. TypeOK'
    BY <1>6 DEF Close, Goto
  <2>2. (HolderInv /\ BusyInv /\ OwnerInv /\ TokenInv)'
    BY <1>6 DEF Close, Goto
  <2>3. (AskedInv /\ PendingInv /\ PostedInv)'
    BY <1>6 DEF Close, Goto
  <2>4. ClickInv'
    BY <1>6 DEF Close, Goto
  <2>5. (AnswerInv /\ VerdictInv)'
    BY <1>6 DEF Close, Goto
  <2>6. (StoppedInv /\ ConfigInv)'
    <3>1. \E b \in BOOLEAN : verdict' = [verdict EXCEPT ![r] = b] /\ (cancelled => ~b)
      BY <1>6, Zenon DEF Close
    <3>2. /\ cancelled => ~verdict'[r]
          /\ \A q \in Requests \ {r} : verdict'[q] = verdict[q]
      BY <3>1
    <3> QED
      BY <1>6, <3>2 DEF Close, Goto
  <2> HIDE DEF TypeOK, HolderInv, BusyInv, OwnerInv, TokenInv, AskedInv, PendingInv,
               PostedInv, ClickInv, AnswerInv, VerdictInv, StoppedInv, ConfigInv
  <2> QED
    BY <2>1, <2>2, <2>3, <2>4, <2>5, <2>6
<1>7. ASSUME NEW r \in Requests, Unpost(r)
      PROVE  IInv'
  BY <1>7 DEF Unpost, Goto
<1>8. ASSUME NEW r \in Requests, ActEnds(r)
      PROVE  IInv'
  BY <1>8 DEF ActEnds, Goto
<1>9. ASSUME NEW r \in Requests, PutContext(r)
      PROVE  IInv'
  BY <1>9 DEF PutContext, Goto
<1>10. ASSUME NEW r \in Requests, Fail(r)
      PROVE  IInv'
  BY <1>10 DEF Fail, Goto
<1>11. ASSUME NEW r \in Requests, HangUp(r)
      PROVE  IInv'
  BY <1>11 DEF HangUp, CancelControl
<1>12. ASSUME NEW r \in Requests, Drop(r)
      PROVE  IInv'
  <2>1. TypeOK'
    <3>1. answer' \in [Confs -> {"none", "yes", "no"}]
      BY <1>12 DEF Drop
    <3>2. verdict' \in [Requests -> BOOLEAN]
      BY <1>12 DEF Drop
    <3>3. seen' \in [Requests -> 0 .. MaxConfig]
      BY <1>12 DEF Drop
    <3>4. pc' \in [Requests -> {"new", "done"} \cup Admitted]
      BY <1>12 DEF Drop, Goto
    <3>5. {expired', maint', consents'} \subseteq SUBSET Confs /\ stopped' \in SUBSET Requests
      BY <1>12 DEF Drop
    <3>6. active' = NoRequest /\ busy' \in BOOLEAN /\ pending' = NoConf
      BY <1>12, Zenon DEF Drop, Free
    <3>7. UNCHANGED <<cancelled, asks, maintenance, session, process, desk, config, local>>
      BY <1>12 DEF Drop
    <3> QED
      BY <3>1, <3>2, <3>3, <3>4, <3>5, <3>6, <3>7
  <2>2. (HolderInv /\ BusyInv /\ OwnerInv /\ TokenInv)'
    BY <1>12 DEF Drop, Goto, Free
  <2>3. (AskedInv /\ PendingInv /\ PostedInv)'
    BY <1>12 DEF Drop, Goto, Free
  <2>4. ClickInv'
    BY <1>12 DEF Drop, Goto, Free
  <2>5. (AnswerInv /\ VerdictInv)'
    BY <1>12 DEF Drop, Goto, Free
  <2>6. (StoppedInv /\ ConfigInv)'
    BY <1>12 DEF Drop, Goto, Free
  <2> HIDE DEF TypeOK, HolderInv, BusyInv, OwnerInv, TokenInv, AskedInv, PendingInv,
               PostedInv, ClickInv, AnswerInv, VerdictInv, StoppedInv, ConfigInv
  <2> QED
    BY <2>1, <2>2, <2>3, <2>4, <2>5, <2>6
<1>13. ASSUME NEW r \in Requests, NEW m \in BOOLEAN, Ask(r, m)
      PROVE  IInv'
  <2>1. TypeOK'
    BY <1>13 DEF Ask, Goto
  <2>2. (HolderInv /\ BusyInv /\ OwnerInv /\ TokenInv)'
    BY <1>13 DEF Ask, Goto
  <2>3. (AskedInv /\ PendingInv /\ PostedInv)'
    BY <1>13 DEF Ask, Goto
  <2>4. ClickInv'
    BY <1>13 DEF Ask, Goto
  <2>5. (AnswerInv /\ VerdictInv)'
    BY <1>13 DEF Ask, Goto
  <2>6. (StoppedInv /\ ConfigInv)'
    BY <1>13 DEF Ask, Goto
  <2> HIDE DEF TypeOK, HolderInv, BusyInv, OwnerInv, TokenInv, AskedInv, PendingInv,
               PostedInv, ClickInv, AnswerInv, VerdictInv, StoppedInv, ConfigInv
  <2> QED
    BY <2>1, <2>2, <2>3, <2>4, <2>5, <2>6
<1>14. ASSUME NEW c \in Confs, Expire(c)
      PROVE  IInv'
  BY <1>14 DEF Expire
<1> HIDE DEF IInv, Confs
<1> QED
  BY <1>1, <1>2, <1>3, <1>4, <1>5, <1>6, <1>7, <1>8, <1>9, <1>10, <1>11, <1>12,
     <1>13, <1>14

\* Nor does one of a process command, of settings or of the overview.
LEMMA CommandKeeps ==
    ASSUME IInv,
           \/ PrepareReserve
           \/ PrepareLock
           \/ \E ok \in BOOLEAN : Prepared(ok)
           \/ PrepareEnds
           \/ PrepareFails
           \/ Resolve
           \/ ResolveRelease
           \/ ResolveUnlock
           \/ LocalReserve
           \/ \E n \in 0..MaxConfig : SaveSettings(n)
           \/ Overview
           \/ LocalEnds
           \/ ExternalConfig
    PROVE  IInv'
<1> USE SessionOfAssumption, NoRequestAssumption, NoConfAssumption, BoundsAssumption
<1> USE DEF IInv, TypeOK, HolderInv, BusyInv, OwnerInv, TokenInv, AskedInv, PendingInv,
            PostedInv, ClickInv, AnswerInv, VerdictInv, StoppedInv, ConfigInv,
            PreparingHolds, Admitted, Confs, Asked, control, request, session,
            process, desk, others, outside, turn
<1>1. CASE PrepareReserve
  <2>1. TypeOK'
    BY <1>1 DEF PrepareReserve, Reserve
  <2>2. (HolderInv /\ BusyInv /\ OwnerInv /\ TokenInv)'
    BY <1>1 DEF PrepareReserve, Reserve
  <2>3. (AskedInv /\ PendingInv /\ PostedInv)'
    BY <1>1 DEF PrepareReserve, Reserve
  <2>4. ClickInv'
    BY <1>1 DEF PrepareReserve, Reserve
  <2>5. (AnswerInv /\ VerdictInv)'
    BY <1>1 DEF PrepareReserve, Reserve
  <2>6. (StoppedInv /\ ConfigInv)'
    BY <1>1 DEF PrepareReserve, Reserve
  <2> HIDE DEF TypeOK, HolderInv, BusyInv, OwnerInv, TokenInv, AskedInv, PendingInv,
               PostedInv, ClickInv, AnswerInv, VerdictInv, StoppedInv, ConfigInv
  <2> QED
    BY <2>1, <2>2, <2>3, <2>4, <2>5, <2>6
<1>2. CASE PrepareLock
  BY <1>2 DEF PrepareLock, ProcessesLocked
<1>3. ASSUME NEW ok \in BOOLEAN, Prepared(ok)
      PROVE  IInv'
  <2>1. TypeOK'
    <3>1. CASE ok /\ ~cancelled
      BY <1>3, <3>1 DEF Prepared
    <3>2. CASE ok /\ cancelled
      BY <1>3, <3>2 DEF Prepared
    <3>3. CASE ~ok
      BY <1>3, <3>3 DEF Prepared
    <3> QED
      BY <3>1, <3>2, <3>3
  <2>2. (HolderInv /\ BusyInv /\ OwnerInv /\ TokenInv)'
    BY <1>3 DEF Prepared
  <2>3. (AskedInv /\ PendingInv /\ PostedInv)'
    BY <1>3 DEF Prepared
  <2>4. ClickInv'
    BY <1>3 DEF Prepared
  <2>5. (AnswerInv /\ VerdictInv)'
    BY <1>3 DEF Prepared
  <2>6. (StoppedInv /\ ConfigInv)'
    BY <1>3 DEF Prepared
  <2> HIDE DEF TypeOK, HolderInv, BusyInv, OwnerInv, TokenInv, AskedInv, PendingInv,
               PostedInv, ClickInv, AnswerInv, VerdictInv, StoppedInv, ConfigInv
  <2> QED
    BY <2>1, <2>2, <2>3, <2>4, <2>5, <2>6
<1>4. CASE PrepareEnds
  BY <1>4 DEF PrepareEnds
<1>5. CASE PrepareFails
  <2>1. TypeOK'
    BY <1>5 DEF PrepareFails, Free
  <2>2. (HolderInv /\ BusyInv /\ OwnerInv /\ TokenInv)'
    BY <1>5 DEF PrepareFails, Free
  <2>3. (AskedInv /\ PendingInv /\ PostedInv)'
    BY <1>5 DEF PrepareFails, Free
  <2>4. ClickInv'
    BY <1>5 DEF PrepareFails, Free
  <2>5. (AnswerInv /\ VerdictInv)'
    BY <1>5 DEF PrepareFails, Free
  <2>6. (StoppedInv /\ ConfigInv)'
    BY <1>5 DEF PrepareFails, Free
  <2> HIDE DEF TypeOK, HolderInv, BusyInv, OwnerInv, TokenInv, AskedInv, PendingInv,
               PostedInv, ClickInv, AnswerInv, VerdictInv, StoppedInv, ConfigInv
  <2> QED
    BY <2>1, <2>2, <2>3, <2>4, <2>5, <2>6
<1>6. CASE Resolve
  BY <1>6 DEF Resolve, ProcessesLocked
<1>7. CASE ResolveRelease
  BY ZenonT(60), <1>7 DEF ResolveRelease, Release, Free
<1>8. CASE ResolveUnlock
  BY <1>8 DEF ResolveUnlock
<1>9. CASE LocalReserve
  <2>1. TypeOK'
    BY ZenonT(60), <1>9 DEF LocalReserve, Reserve
  <2>2. (HolderInv /\ BusyInv /\ OwnerInv /\ TokenInv)'
    BY <1>9 DEF LocalReserve, Reserve
  <2>3. (AskedInv /\ PendingInv /\ PostedInv)'
    BY <1>9 DEF LocalReserve, Reserve
  <2>4. ClickInv'
    BY <1>9 DEF LocalReserve, Reserve
  <2>5. (AnswerInv /\ VerdictInv)'
    BY <1>9 DEF LocalReserve, Reserve
  <2>6. (StoppedInv /\ ConfigInv)'
    BY <1>9 DEF LocalReserve, Reserve
  <2> HIDE DEF TypeOK, HolderInv, BusyInv, OwnerInv, TokenInv, AskedInv, PendingInv,
               PostedInv, ClickInv, AnswerInv, VerdictInv, StoppedInv, ConfigInv
  <2> QED
    BY <2>1, <2>2, <2>3, <2>4, <2>5, <2>6
<1>10. ASSUME NEW n \in 0..MaxConfig, SaveSettings(n)
      PROVE  IInv'
  BY <1>10 DEF SaveSettings
<1>11. CASE Overview
  BY <1>11 DEF Overview, ProcessesLocked
<1>12. CASE LocalEnds
  <2>1. TypeOK'
    BY <1>12 DEF LocalEnds, Release, Free
  <2>2. (HolderInv /\ BusyInv /\ OwnerInv /\ TokenInv)'
    BY <1>12 DEF LocalEnds, Release, Free
  <2>3. (AskedInv /\ PendingInv /\ PostedInv)'
    BY <1>12 DEF LocalEnds, Release, Free
  <2>4. ClickInv'
    BY <1>12 DEF LocalEnds, Release, Free
  <2>5. (AnswerInv /\ VerdictInv)'
    BY <1>12 DEF LocalEnds, Release, Free
  <2>6. (StoppedInv /\ ConfigInv)'
    BY <1>12 DEF LocalEnds, Release, Free
  <2> HIDE DEF TypeOK, HolderInv, BusyInv, OwnerInv, TokenInv, AskedInv, PendingInv,
               PostedInv, ClickInv, AnswerInv, VerdictInv, StoppedInv, ConfigInv
  <2> QED
    BY <2>1, <2>2, <2>3, <2>4, <2>5, <2>6
<1>13. CASE ExternalConfig
  BY <1>13 DEF ExternalConfig
<1> HIDE DEF IInv, Confs
<1> QED
  BY <1>1, <1>2, <1>3, <1>4, <1>5, <1>6, <1>7, <1>8, <1>9, <1>10, <1>11, <1>12,
     <1>13

\* Nor does a click, wherever the main thread stands.
LEMMA PersonKeeps ==
    ASSUME IInv,
           \/ \E c \in Confs, yes \in BOOLEAN : Confirm(c, yes)
           \/ \E c \in Confs, yes \in BOOLEAN : ConfirmPlain(c, yes)
           \/ ConfirmBound
           \/ \E c \in Confs, yes \in BOOLEAN : ConfirmMaintenance(c, yes)
           \/ \E r \in Requests : CancelFor(r)
           \/ CancelAny
           \/ CancelProcess
    PROVE  IInv'
<1> USE SessionOfAssumption, NoRequestAssumption, NoConfAssumption, BoundsAssumption
<1> USE DEF IInv, TypeOK, HolderInv, BusyInv, OwnerInv, TokenInv, AskedInv, PendingInv,
            PostedInv, ClickInv, AnswerInv, VerdictInv, StoppedInv, ConfigInv,
            PreparingHolds, Admitted, Confs, Asked, control, request, session,
            process, desk, others, outside, turn
<1>1. ASSUME NEW c \in Confs, NEW yes \in BOOLEAN, Confirm(c, yes)
      PROVE  IInv'
  BY <1>1 DEF Confirm, Click, Shown
<1>2. ASSUME NEW c \in Confs, NEW yes \in BOOLEAN, ConfirmPlain(c, yes)
      PROVE  IInv'
  BY <1>2 DEF ConfirmPlain, Click, Shown
<1>3. CASE ConfirmBound
  <2>1. TypeOK'
    <3>1. ControlTyped'
      BY <1>3, BoundTyped DEF ConfirmBound
    <3> QED
      BY <1>3, <3>1 DEF ConfirmBound, NoClick, ControlTyped
  <2>2. (HolderInv /\ BusyInv /\ OwnerInv /\ TokenInv)'
    BY <1>3 DEF ConfirmBound, Bound, Answer, CancelControl, NoClick
  <2>3. (AskedInv /\ PendingInv /\ PostedInv)'
    BY <1>3 DEF ConfirmBound, Bound, Answer, CancelControl, NoClick
  <2>4. ClickInv'
    BY <1>3 DEF ConfirmBound, Bound, Answer, CancelControl, NoClick
  <2>5. (AnswerInv /\ VerdictInv)'
    BY <1>3 DEF ConfirmBound, Bound, Answer, CancelControl, NoClick
  <2>6. (StoppedInv /\ ConfigInv)'
    BY <1>3 DEF ConfirmBound, Bound, Answer, CancelControl, NoClick
  <2> HIDE DEF TypeOK, HolderInv, BusyInv, OwnerInv, TokenInv, AskedInv, PendingInv,
               PostedInv, ClickInv, AnswerInv, VerdictInv, StoppedInv, ConfigInv
  <2> QED
    BY <2>1, <2>2, <2>3, <2>4, <2>5, <2>6
<1>4. ASSUME NEW c \in Confs, NEW yes \in BOOLEAN, ConfirmMaintenance(c, yes)
      PROVE  IInv'
  <2>1. TypeOK'
    <3>1. ControlTyped'
      BY <1>4, BoundTyped DEF ConfirmMaintenance
    <3> QED
      BY <1>4, <3>1 DEF ConfirmMaintenance, Click, ControlTyped
  <2>2. (HolderInv /\ BusyInv /\ OwnerInv /\ TokenInv)'
    BY <1>4 DEF ConfirmMaintenance, Click, Shown, Bound, Answer, CancelControl
  <2>3. (AskedInv /\ PendingInv /\ PostedInv)'
    BY <1>4 DEF ConfirmMaintenance, Click, Shown, Bound, Answer, CancelControl
  <2>4. ClickInv'
    BY <1>4 DEF ConfirmMaintenance, Click, Shown, Bound, Answer, CancelControl
  <2>5. (AnswerInv /\ VerdictInv)'
    BY <1>4 DEF ConfirmMaintenance, Click, Shown, Bound, Answer, CancelControl
  <2>6. (StoppedInv /\ ConfigInv)'
    BY <1>4 DEF ConfirmMaintenance, Click, Shown, Bound, Answer, CancelControl
  <2> HIDE DEF TypeOK, HolderInv, BusyInv, OwnerInv, TokenInv, AskedInv, PendingInv,
               PostedInv, ClickInv, AnswerInv, VerdictInv, StoppedInv, ConfigInv
  <2> QED
    BY <2>1, <2>2, <2>3, <2>4, <2>5, <2>6
<1>5. ASSUME NEW r \in Requests, CancelFor(r)
      PROVE  IInv'
  BY <1>5 DEF CancelFor, CancelControl
<1>6. CASE CancelAny
  BY <1>6 DEF CancelAny, CancelControl
<1>7. CASE CancelProcess
  <2>1. TypeOK'
    <3>1. token' \in 0 .. MaxTokens /\ busy' \in BOOLEAN /\ pending' \in Confs \cup {NoConf}
      <4>1. CASE ~ProcessesLocked /\ token # 0
        <5>1. token' = 0 /\ busy' \in BOOLEAN /\ pending' = NoConf
          BY <1>7, <4>1, Zenon DEF CancelProcess, Free
        <5> QED
          BY <5>1
      <4>2. CASE ~(~ProcessesLocked /\ token # 0)
        BY <1>7, <4>2 DEF CancelProcess
      <4> QED
        BY <4>1, <4>2
    <3> QED
      BY <1>7, <3>1 DEF CancelProcess
  <2>2. (HolderInv /\ BusyInv /\ OwnerInv /\ TokenInv)'
    BY <1>7 DEF CancelProcess, Free, ProcessesLocked
  <2>3. (AskedInv /\ PendingInv /\ PostedInv)'
    BY <1>7 DEF CancelProcess, Free, ProcessesLocked
  <2>4. ClickInv'
    BY <1>7 DEF CancelProcess, Free, ProcessesLocked
  <2>5. (AnswerInv /\ VerdictInv)'
    BY <1>7 DEF CancelProcess, Free, ProcessesLocked
  <2>6. (StoppedInv /\ ConfigInv)'
    BY <1>7 DEF CancelProcess, Free, ProcessesLocked
  <2> HIDE DEF TypeOK, HolderInv, BusyInv, OwnerInv, TokenInv, AskedInv, PendingInv,
               PostedInv, ClickInv, AnswerInv, VerdictInv, StoppedInv, ConfigInv
  <2> QED
    BY <2>1, <2>2, <2>3, <2>4, <2>5, <2>6
<1> HIDE DEF IInv, Confs
<1> QED
  BY <1>1, <1>2, <1>3, <1>4, <1>5, <1>6, <1>7

\* Nor does what is done to sessions.
LEMMA SessionKeeps ==
    ASSUME IInv,
           \/ LoadRead
           \/ LoadRegister
           \/ \E value \in SUBSET Sessions : SaveWorkspace(value)
           \/ \E s \in Sessions : Register(s)
           \/ \E s \in Sessions : DeleteBegins(s)
           \/ \E s \in Sessions, value \in SUBSET Sessions : DeleteCommits(s, value)
           \/ \E s \in Sessions : DeleteRefused(s)
           \/ \E s \in Sessions : DeleteEnds(s)
    PROVE  IInv'
<1> USE SessionOfAssumption, NoRequestAssumption, NoConfAssumption, BoundsAssumption
<1> USE DEF IInv, TypeOK, HolderInv, BusyInv, OwnerInv, TokenInv, AskedInv, PendingInv,
            PostedInv, ClickInv, AnswerInv, VerdictInv, StoppedInv, ConfigInv,
            PreparingHolds, Admitted, Confs, Asked, control, request, session,
            process, desk, others, outside, turn
<1>1. CASE LoadRead
  BY <1>1 DEF LoadRead
<1>2. CASE LoadRegister
  BY <1>2 DEF LoadRegister
<1>3. ASSUME NEW value \in SUBSET Sessions, SaveWorkspace(value)
      PROVE  IInv'
  BY <1>3 DEF SaveWorkspace
<1>4. ASSUME NEW s \in Sessions, Register(s)
      PROVE  IInv'
  BY <1>4 DEF Register
<1>5. ASSUME NEW s \in Sessions, DeleteBegins(s)
      PROVE  IInv'
  <2>1. TypeOK'
    <3>1. ControlTyped'
      BY <1>5, CancelTyped DEF DeleteBegins, ControlTyped
    <3> QED
      BY <1>5, <3>1 DEF DeleteBegins, ControlTyped
  <2>2. (HolderInv /\ BusyInv /\ OwnerInv /\ TokenInv)'
    BY <1>5 DEF DeleteBegins, CancelControl
  <2>3. (AskedInv /\ PendingInv /\ PostedInv)'
    BY <1>5 DEF DeleteBegins, CancelControl
  <2>4. ClickInv'
    BY <1>5 DEF DeleteBegins, CancelControl
  <2>5. (AnswerInv /\ VerdictInv)'
    BY <1>5 DEF DeleteBegins, CancelControl
  <2>6. (StoppedInv /\ ConfigInv)'
    BY <1>5 DEF DeleteBegins, CancelControl
  <2> HIDE DEF TypeOK, HolderInv, BusyInv, OwnerInv, TokenInv, AskedInv, PendingInv,
               PostedInv, ClickInv, AnswerInv, VerdictInv, StoppedInv, ConfigInv
  <2> QED
    BY <2>1, <2>2, <2>3, <2>4, <2>5, <2>6
<1>6. ASSUME NEW s \in Sessions, NEW value \in SUBSET Sessions, DeleteCommits(s, value)
      PROVE  IInv'
  BY <1>6 DEF DeleteCommits, DeleteMove
<1>7. ASSUME NEW s \in Sessions, DeleteRefused(s)
      PROVE  IInv'
  BY <1>7 DEF DeleteRefused, DeleteMove
<1>8. ASSUME NEW s \in Sessions, DeleteEnds(s)
      PROVE  IInv'
  BY <1>8 DEF DeleteEnds, DeleteMove
<1> HIDE DEF IInv, Confs
<1> QED
  BY <1>1, <1>2, <1>3, <1>4, <1>5, <1>6, <1>7, <1>8

-----------------------------------------------------------------------------

LEMMA InitInv == Init => IInv
<1> SUFFICES ASSUME Init PROVE IInv
  OBVIOUS
<1>1. TypeOK
  <2>1. /\ busy \in BOOLEAN /\ cancelled \in BOOLEAN
        /\ pending \in Confs \cup {NoConf} /\ maintenance \in Confs \cup {NoConf}
        /\ active \in Requests \cup {NoRequest}
    BY DEF Init
  <2>2. /\ answer \in [Confs -> {"none", "yes", "no"}]
        /\ pc \in [Requests -> {"new", "done"} \cup Admitted]
        /\ asks \in [Requests -> 0 .. MaxAsks] /\ verdict \in [Requests -> BOOLEAN]
        /\ seen \in [Requests -> 0 .. MaxConfig]
        /\ deletion \in [Sessions -> {"idle", "waiting", "ending"}]
    BY BoundsAssumption DEF Init
  <2>3. click \in [conf : Confs \cup {NoConf}, yes : BOOLEAN]
    BY DEF Init, NoClick
  <2> QED
    BY <2>1, <2>2, <2>3, BoundsAssumption DEF Init, TypeOK
<1>2. /\ HolderInv /\ BusyInv /\ OwnerInv /\ TokenInv
      /\ AskedInv /\ PendingInv /\ PostedInv /\ ClickInv /\ AnswerInv /\ VerdictInv
      /\ StoppedInv /\ ConfigInv
  BY NoRequestAssumption, BoundsAssumption
     DEF Init, HolderInv, BusyInv, OwnerInv, TokenInv, AskedInv, PendingInv, PostedInv,
         ClickInv, AnswerInv, VerdictInv, StoppedInv, ConfigInv, PreparingHolds, Admitted
<1> QED
  BY <1>1, <1>2 DEF IInv

LEMMA NextKeeps == IInv /\ [Next]_vars => IInv'
<1> SUFFICES ASSUME IInv, [Next]_vars PROVE IInv'
  OBVIOUS
<1>1. CASE Page
  BY <1>1, RequestKeeps, CommandKeeps, PersonKeeps, SessionKeeps DEF Page
<1>2. CASE MainThread
  BY <1>2, PersonKeeps, SessionKeeps DEF MainThread
<1>3. CASE Prepare
  BY <1>3, CommandKeeps DEF Prepare
<1>4. ASSUME NEW r \in Requests,
             Worker(r) \/ HangUp(r) \/ \E isMaint \in BOOLEAN : Ask(r, isMaint)
      PROVE  IInv'
  BY <1>4, RequestKeeps DEF Worker
<1>5. CASE \E c \in Confs : Expire(c)
  BY <1>5, RequestKeeps
<1>6. CASE \/ ResolveRelease \/ ResolveUnlock \/ Overview \/ LocalEnds \/ ExternalConfig
           \/ \E next \in 0 .. MaxConfig : SaveSettings(next)
  BY <1>6, CommandKeeps
<1>7. ASSUME NEW s \in Sessions, Deletion(s) PROVE IInv'
  BY <1>7, SessionKeeps DEF Deletion
<1>8. CASE UNCHANGED vars
  BY <1>8 DEF vars, turn, control, request, session, process, desk, others, outside,
              IInv, TypeOK, HolderInv, BusyInv, OwnerInv, TokenInv, AskedInv, PendingInv,
              PostedInv, ClickInv, AnswerInv, VerdictInv, StoppedInv, ConfigInv, Asked
<1> QED
  BY <1>1, <1>2, <1>3, <1>4, <1>5, <1>6, <1>7, <1>8 DEF Next

LEMMA Invariance == Spec => []IInv
<1>1. IInv /\ [Next]_vars => IInv'
  BY NextKeeps
<1> QED
  BY InitInv, <1>1, PTL DEF Spec

\* Every variable of the bridge keeps its type.
THEOREM TypeCorrect == Spec => []TypeOK
<1>1. IInv => TypeOK
  BY DEF IInv
<1> QED
  BY Invariance, <1>1, PTL

\* The admission of bridge.rs (reserve, reserve_for, Release) is neither leaked
\* nor shared: it is taken exactly while one command, or one process
\* confirmation, answers for giving it back, and deletion strands nothing.
THEOREM AdmissionIsExact == Spec => []AdmissionExact
<1>1. ASSUME IInv PROVE AdmissionExact
  <2> DEFINE workers == {r \in Requests : pc[r] \in Admitted}
             prepares == IF prep \in PreparingHolds THEN {"prepare"} ELSE {}
             persons == IF token # 0 THEN {"person"} ELSE {}
             resolves == IF res = "resolving" THEN {"resolve"} ELSE {}
             locals == IF local # "idle" THEN {"local"} ELSE {}
  <2>1. Holders = workers \cup prepares \cup persons \cup resolves \cup locals
    BY DEF Holders, PreparingHolds
  <2>2. Holders = {} \/ \E x : Holders = {x}
    <3>1. CASE workers # {}
      <4>1. PICK r \in Requests : pc[r] \in Admitted
        BY <3>1
      <4>2. workers = {r}
        BY <1>1, <4>1 DEF IInv, HolderInv
      <4>3. prepares = {} /\ persons = {} /\ resolves = {} /\ locals = {}
        BY <1>1, <4>1 DEF IInv, HolderInv
      <4> QED
        BY <2>1, <4>2, <4>3
    <3>2. CASE workers = {}
      BY <1>1, <2>1, <3>2 DEF IInv, HolderInv
    <3> QED
      BY <3>1, <3>2
  <2>3. Cardinality(Holders) <= 1
    <3>1. Cardinality(Holders) = 0 \/ Cardinality(Holders) = 1
      BY <2>2, FS_EmptySet, FS_Singleton, Zenon
    <3> QED
      BY <3>1
  <2>4. busy <=> Holders # {}
    BY <1>1, <2>1 DEF IInv, BusyInv
  <2> QED
    BY <1>1, <2>3, <2>4 DEF IInv, OwnerInv, AdmissionExact
<1> QED
  BY Invariance, <1>1, PTL

\* A request acts (session.execute past wait) only on a confirmation the person
\* agreed to as it was shown.
THEOREM ActsOnlyOnConsent == Spec => []ActsOnConsent
<1>1. IInv => ActsOnConsent
  BY DEF IInv, VerdictInv, ActsOnConsent
<1> QED
  BY Invariance, <1>1, PTL

-----------------------------------------------------------------------------
(* What a step may never do. *)

\* Only the worker of a request moves it.
LEMMA WhoMoves ==
    ASSUME Next
    PROVE  \/ UNCHANGED pc
           \/ \E r \in Requests :
                 Worker(r) \/ ReserveFor(r) \/ \E isMaint \in BOOLEAN : Ask(r, isMaint)
<1> USE DEF control, request, session, process, desk, others, outside, turn
<1>1. CASE Page
  <2>1. ASSUME NEW r \in Requests, CancelFor(r) PROVE UNCHANGED pc
    BY <2>1 DEF CancelFor
  <2>2. ASSUME NEW c \in Confs, NEW yes \in BOOLEAN,
               Confirm(c, yes) \/ ConfirmPlain(c, yes) \/ ConfirmMaintenance(c, yes)
        PROVE  UNCHANGED pc
    BY <2>2 DEF Confirm, ConfirmPlain, ConfirmMaintenance
  <2>3. CASE CancelAny \/ PrepareReserve \/ Resolve \/ LocalReserve \/ LoadRead
    BY <2>3 DEF CancelAny, PrepareReserve, Resolve, LocalReserve, LoadRead
  <2>4. ASSUME NEW s \in Sessions, Register(s) \/ DeleteBegins(s) PROVE UNCHANGED pc
    BY <2>4 DEF Register, DeleteBegins
  <2>5. ASSUME NEW value \in SUBSET Sessions, SaveWorkspace(value) PROVE UNCHANGED pc
    BY <2>5 DEF SaveWorkspace
  <2> QED
    BY <1>1, <2>1, <2>2, <2>3, <2>4, <2>5 DEF Page
<1>2. CASE MainThread \/ Prepare
  BY <1>2 DEF MainThread, Prepare, ConfirmBound, CancelProcess, LoadRegister,
              PrepareLock, PrepareEnds, PrepareFails, Prepared
<1>3. CASE ResolveRelease \/ ResolveUnlock \/ Overview \/ LocalEnds \/ ExternalConfig
  BY <1>3 DEF ResolveRelease, ResolveUnlock, Overview, LocalEnds, ExternalConfig
<1>4. ASSUME NEW r \in Requests, HangUp(r) PROVE UNCHANGED pc
  BY <1>4 DEF HangUp
<1>5. ASSUME NEW c \in Confs, Expire(c) PROVE UNCHANGED pc
  BY <1>5 DEF Expire
<1>6. ASSUME NEW next \in 0 .. MaxConfig, SaveSettings(next) PROVE UNCHANGED pc
  BY <1>6 DEF SaveSettings
<1>7. ASSUME NEW s \in Sessions, Deletion(s) PROVE UNCHANGED pc
  BY <1>7 DEF Deletion, DeleteCommits, DeleteRefused, DeleteEnds
<1> QED
  BY <1>1, <1>2, <1>3, <1>4, <1>5, <1>6, <1>7 DEF Next

\* A request that was cancelled before wait handed its answer over does not act.
LEMMA StepStops ==
    ASSUME IInv, Next, NEW r \in stopped, pc'[r] = "acting"
    PROVE  pc[r] = "acting"
<1>1. /\ r \in Requests /\ pc[r] \in Admitted /\ cancelled
      /\ pc[r] = "unposting" => ~verdict[r]
      /\ pc \in [Requests -> {"new", "done"} \cup Admitted]
  BY DEF IInv, TypeOK, StoppedInv
<1>2. ASSUME NEW q \in Requests, ReserveFor(q) \/ \E isMaint \in BOOLEAN : Ask(q, isMaint)
      PROVE  pc[r] = "acting"
  BY <1>1, <1>2 DEF ReserveFor, Ask, Goto
<1>3. ASSUME NEW q \in Requests, Close(q) PROVE pc[r] = "acting"
  <2>1. pc'[q] # "acting"
    BY <1>1, <1>3 DEF Close, Goto
  <2> QED
    BY <1>1, <1>3, <2>1 DEF Close, Goto
<1>4. ASSUME NEW q \in Requests, Unpost(q) PROVE pc[r] = "acting"
  BY <1>1, <1>4 DEF Unpost, Goto
<1>5. ASSUME NEW q \in Requests,
             \/ LoadConfig(q) \/ TakeContext(q) \/ Post(q) \/ Decide(q)
             \/ ActEnds(q) \/ PutContext(q) \/ Fail(q) \/ Drop(q)
      PROVE  pc[r] = "acting"
  <2>1. \E step \in {"loaded", "running", "waiting", "closing", "releasing", "done"} :
           Goto(q, step)
    BY <1>5 DEF LoadConfig, TakeContext, Post, Decide, ActEnds, PutContext, Fail, Drop
  <2> QED
    BY <1>1, <2>1 DEF Goto
<1> QED
  BY <1>2, <1>3, <1>4, <1>5, WhoMoves DEF Worker

\* CancelStops: cancel, in control.rs, is final, whatever answer came with it.
THEOREM CancellationStops == Spec => CancelStops
<1>1. ASSUME IInv, [Next]_vars
      PROVE  [\A r \in stopped : pc'[r] = "acting" => pc[r] = "acting"]_vars
  BY <1>1, StepStops
<1> QED
  BY Invariance, <1>1, PTL DEF Spec, CancelStops

\* Only an answer bound to the active request, under its configuration, is put
\* in a channel as a yes.
LEMMA WhoAnswers ==
    ASSUME Next, TypeOK, NEW c \in Confs, answer'[c] = "yes", answer[c] # "yes"
    PROVE  c = pending /\ active = c[1] /\ configuration = config
<1> USE DEF control, request, session, process, desk, others, outside, turn
<1>1. answer' # answer
  OBVIOUS
<1>2. ~CancelControl
  BY DEF CancelControl
<1>3. ASSUME NEW d, NEW yes \in BOOLEAN, Bound(d, yes)
      PROVE  c = pending /\ active = c[1] /\ configuration = config
  <2>1. Answer(d, yes) /\ active = d[1] /\ configuration = config
    BY <1>1, <1>2, <1>3 DEF Bound
  <2>2. pending = d /\ answer' = [answer EXCEPT ![d] = IF yes THEN "yes" ELSE "no"]
    BY <1>1, <2>1 DEF Answer
  <2>3. c = d
    BY <2>2 DEF TypeOK
  <2> QED
    BY <2>1, <2>2, <2>3
<1>4. CASE Page
  <2>1. ~\E r \in Requests : ReserveFor(r) \/ CancelFor(r)
    BY <1>1, <1>2 DEF ReserveFor, Reserve, CancelFor
  <2>2. ~\E d \in Confs, yes \in BOOLEAN : Confirm(d, yes) \/ ConfirmPlain(d, yes)
    BY <1>1 DEF Confirm, ConfirmPlain
  <2>3. ~(CancelAny \/ PrepareReserve \/ Resolve \/ LocalReserve \/ LoadRead)
    BY <1>1, <1>2 DEF CancelAny, PrepareReserve, Resolve, LocalReserve, LoadRead, Reserve
  <2>4. ~\E s \in Sessions : Register(s) \/ DeleteBegins(s)
    BY <1>1, <1>2 DEF Register, DeleteBegins
  <2>5. ~\E value \in SUBSET Sessions : SaveWorkspace(value)
    BY <1>1 DEF SaveWorkspace
  <2> QED
    BY <1>3, <1>4, <2>1, <2>2, <2>3, <2>4, <2>5 DEF Page, ConfirmMaintenance
<1>5. CASE MainThread
  <2>1. CASE ConfirmBound
    BY <1>3, <2>1 DEF ConfirmBound, TypeOK
  <2> QED
    BY <1>1, <1>5, <2>1 DEF MainThread, CancelProcess, LoadRegister
<1>6. ~Prepare
  BY <1>1 DEF Prepare, PrepareLock, PrepareEnds, PrepareFails, Prepared
<1>7. ~(ResolveRelease \/ ResolveUnlock \/ Overview \/ LocalEnds \/ ExternalConfig)
  BY <1>1 DEF ResolveRelease, ResolveUnlock, Overview, LocalEnds, ExternalConfig, Release
<1>8. ASSUME NEW r \in Requests PROVE ~Worker(r)
  <2>1. ~Drop(r)
    BY DEF Drop
  <2> QED
    BY <1>1, <2>1 DEF Worker, LoadConfig, TakeContext, Post, Decide, Close, Unpost,
                      ActEnds, PutContext, Fail
<1>9. ASSUME NEW r \in Requests
      PROVE  ~HangUp(r) /\ ~\E isMaint \in BOOLEAN : Ask(r, isMaint)
  BY <1>1, <1>2 DEF HangUp, Ask
<1>10. ~\E d \in Confs : Expire(d)
  BY <1>1 DEF Expire
<1>11. ~\E next \in 0 .. MaxConfig : SaveSettings(next)
  BY <1>1 DEF SaveSettings
<1>12. ~\E s \in Sessions : Deletion(s)
  BY <1>1 DEF Deletion, DeleteCommits, DeleteRefused, DeleteEnds
<1> QED
  BY <1>4, <1>5, <1>6, <1>7, <1>8, <1>9, <1>10, <1>11, <1>12 DEF Next

\* AnsweredUnderOneConfig: confirm_bound compares the configuration of the
\* sessions with the file's, and the sessions' is still the active request's.
THEOREM OneConfiguration == Spec => AnsweredUnderOneConfig
<1>1. ASSUME IInv, Next, NEW c \in Confs, answer'[c] = "yes", answer[c] # "yes"
      PROVE  config = seen[c[1]]
  <2>1. c = pending /\ active = c[1] /\ configuration = config
    BY <1>1, WhoAnswers DEF IInv
  <2>2. PICK r \in Requests : c = Asked(r) /\ pc[r] \in {"posting", "waiting", "closing"}
    BY <1>1, <2>1, NoConfAssumption DEF IInv, PendingInv, Confs
  <2>3. configuration = seen[r] /\ r = c[1]
    BY <1>1, <2>2 DEF IInv, ConfigInv, Admitted, Asked
  <2> QED
    BY <2>1, <2>3
<1>2. ASSUME IInv, [Next]_vars
      PROVE  [\A c \in Confs : answer'[c] = "yes" /\ answer[c] # "yes"
                                 => config = seen[c[1]]]_vars
  BY <1>1, <1>2
<1> QED
  BY Invariance, <1>2, PTL DEF Spec, AnsweredUnderOneConfig
=============================================================================
