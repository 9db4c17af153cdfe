------------------------- MODULE ServiceInstallProofs -------------------------
(***************************************************************************)
(* Proofs about ServiceInstall, for any builds and troubles; None is no    *)
(* build.                                                                  *)
(*                                                                         *)
(* An installation is sound if its manifest fits the payloads and the      *)
(* service (Fits).  That a plan leaves it so wherever it stops depends on  *)
(* what its earlier steps have done, and so the invariant says, for each   *)
(* plan and each number of steps that are left of it, what is the case by  *)
(* then: Installing, Changing (and Undone, the undo of a change), Mending, *)
(* Removing.  What is left of a plan is its end, with a payload still to   *)
(* be copied before it (Follows); what else an installer does is Quiet,    *)
(* its steps harm nothing.                                                 *)
(***************************************************************************)
EXTENDS ServiceInstall, SequenceTheorems, TLAPS

Parameters == None \notin Builds /\ MaxTroubles \in Nat

(* Steps, and sequences of them. *)

\* What a step is about; the undo of an undo is to stop.
Objects == Builds \cup Manifest \cup {None}
Simple == [kind : Kinds, what : Objects, undo : {<<>>}]
Steps == [kind : Kinds, what : Objects, undo : Seq(Simple)]

Undoing(kind, what, undo) == [kind |-> kind, what |-> what, undo |-> undo]

New(b) == [current |-> b, previous |-> None, pending |-> TRUE, recover_to |-> None,
           uninstalled |-> FALSE]
Mended(m) == [Target(m) EXCEPT !.pending = TRUE]
MendedAgain(m) == [Settled(Mended(m)) EXCEPT !.uninstalled = FALSE]

\* The steps of the plans, one by one.
Installs(p, b) ==
    /\ p \in Seq(Steps) /\ Len(p) = 10
    /\ p[1] = Step("roots", None) /\ p[2] = Step("write", b) /\ p[3] = Step("flush", b)
    /\ p[4] = Step("verify", b) /\ p[5] = Save(New(b)) /\ p[6] = Step("verify", b)
    /\ p[7] = Step("create", b) /\ p[8] = Undoing("start", None, <<Stop, Delete>>)
    /\ p[9] = Undoing("health", None, <<Stop, Delete>>) /\ p[10] = Save(Settled(New(b)))

Switches(p, old, b) ==
    /\ p \in Seq(Steps) /\ Len(p) = 7
    /\ p[1] = Step("verify", b) /\ p[2] = Stop /\ p[3] = Save(Switching(old, b))
    /\ p[4] = Undoing("configure", b, Restore(old, b))
    /\ p[5] = Undoing("start", None, Restore(old, b))
    /\ p[6] = Undoing("health", None, Restore(old, b))
    /\ p[7] = Save(Settled(Switching(old, b)))

Restores(p, old, b) ==
    /\ p \in Seq(Steps) /\ Len(p) = 7
    /\ p[1] = Stop /\ p[2] = Step("verify", old.current) /\ p[3] = Save(Restoring(old, b))
    /\ p[4] = Step("configure", old.current) /\ p[5] = Step("start", None)
    /\ p[6] = Step("health", None) /\ p[7] = Save(Settled(Restoring(old, b)))

Repairs(p, m) ==
    /\ p \in Seq(Steps) /\ Len(p) = 7
    /\ p[1] = Stop /\ p[2] = Step("verify", Mended(m).current) /\ p[3] = Save(Mended(m))
    /\ p[4] \in {Step("create", Mended(m).current), Step("configure", Mended(m).current)}
    /\ p[5] = Undoing("start", None, <<Stop>>) /\ p[6] = Undoing("health", None, <<Stop>>)
    /\ p[7] = Save(MendedAgain(m))

Checking == Step("verify all", None)
Removes(p, m) ==
    /\ p \in Seq(Steps) /\ Len(p) = 5
    /\ p[1] = Stop /\ p[2] = Delete /\ p[3] = Save(Retained(m))
    /\ p[4] = Checking /\ p[5] = Step("remove", None)

\* Steps that harm nothing whatever the case is.
Harmless == {"roots", "write", "flush", "verify", "start", "health", "stop", "delete"}
Early == {s \in Simple : s.kind \in {"write", "flush", "verify"}}

\* What q still does ends as p does, and nothing else but copies payloads.
Ending(q, p) ==
    \A i \in 1 .. Len(p) : i <= Len(q) => q[Len(q) + 1 - i] = p[Len(p) + 1 - i]
Prelude(q, n) ==
    \A i \in 1 .. Len(q) :
        i + n <= Len(q) => q[i] \in Early /\ (q[i].kind = "write" => i + n < Len(q))
Follows(q, p) == q \in Seq(Steps) \ {<<>>} /\ Ending(q, p) /\ Prelude(q, Len(p))
Quiet(q) ==
    /\ q \in Seq(Simple)
    /\ \A i \in 1 .. Len(q) : q[i].kind \in Harmless /\ (q[i].kind = "write" => i < Len(q))

-----------------------------------------------------------------------------
(* The invariant. *)

\* The manifest names what is there, and the way back from a change.
FitsTo(m, files, image) ==
    /\ m \in Manifest
    /\ m.recover_to \in {None, m.current, m.previous}
    /\ m.pending \/ m.recover_to = None
    /\ m.uninstalled \/ files[Target(m).current] = "whole"
    /\ image \in {None, m.current, m.previous}
    /\ image # None /\ ~m.pending => image = m.current
Fits(m) == FitsTo(m, payload, service.image)
Whole(b) == payload[b] = "whole"

Sound ==
    /\ Parameters
    /\ roots \in BOOLEAN /\ payload \in [Builds -> {"none", "torn", "whole"}]
    /\ service \in [image : Builds \cup {None}, running : BOOLEAN]
    /\ troubles \in 0 .. MaxTroubles
    /\ manifest = None \/ Fits(manifest)
    /\ Installed => Fits(manifest) /\ Whole(service.image)
    /\ service.running => Installed

\* What is the case while a plan is followed, by the steps left of it.
Left == Len(todo)
Installing(p, b) ==
    /\ Installs(p, b) /\ Follows(todo, p) /\ Left <= 10
    /\ Left >= 4 => ~Installed
    /\ Left <= 6 => Whole(b)
    /\ Left <= 5 => manifest = New(b)
Changing(p, old, b) ==
    /\ Switches(p, old, b) /\ Follows(todo, p)
    /\ ~old.pending /\ Installed /\ Whole(old.current)
    /\ Left >= 4 => service.image = old.current
    /\ Left <= 3 => service.image = b
    /\ Left <= 6 => Whole(b)
    /\ manifest = IF Left >= 5 THEN old ELSE Switching(old, b)
Undone(p, old, b) ==
    /\ Restores(p, old, b) /\ Follows(todo, p) /\ Left <= 7
    /\ Installed /\ Whole(old.current)
    /\ Left <= 3 => service.image = old.current
    /\ manifest = IF Left >= 5 THEN Switching(old, b) ELSE Restoring(old, b)
Mending(p, m) ==
    /\ Repairs(p, m) /\ Follows(todo, p)
    /\ Left <= 5 => Whole(Mended(m).current)
    /\ Left <= 3 => service.image = Mended(m).current
    /\ manifest = IF Left >= 5 THEN m ELSE Mended(m)
    /\ Fits(manifest)
Removing(p, m) ==
    /\ Removes(p, m) /\ Follows(todo, p) /\ Left <= 5
    /\ Left <= 3 => ~Installed
    /\ manifest = IF Left >= 3 THEN m ELSE Retained(m)

AtWork(p) ==
    \/ \E b \in Builds : Installing(p, b)
    \/ \E old \in Manifest, b \in Builds : Changing(p, old, b) \/ Undone(p, old, b)
    \/ \E m \in Manifest : Mending(p, m) \/ Removing(p, m)
IInv == Sound /\ (Quiet(todo) \/ \E p \in Seq(Steps) : AtWork(p))

-----------------------------------------------------------------------------
(* Following a plan. *)

LEMMA StepsTyped ==
    /\ Simple \subseteq Steps
    /\ \A kind \in Kinds, what \in Objects : Step(kind, what) \in Simple
    /\ \A kind \in Kinds, what \in Objects, undo \in Seq(Simple) : Undoing(kind, what, undo) \in Steps
<1>1. <<>> \in Seq(Simple)
  BY EmptySeq
<1> QED
  BY <1>1 DEF Simple, Steps, Step, Undoing

LEMMA MendedTyped ==
    ASSUME NEW old \in Manifest
    PROVE  /\ Mended(old) \in Manifest /\ MendedAgain(old) \in Manifest
           /\ Retained(old) \in Manifest /\ Target(old) \in Manifest
           /\ {old.current, Mended(old).current, Target(old).current} \subseteq Builds
<1>1. \A m \in Manifest : Settled(m) \in Manifest
  BY DEF Manifest, Settled
<1>3. Target(old) \in Manifest
  BY DEF Manifest, Target
<1>4. Mended(old) \in Manifest
  BY <1>3 DEF Manifest, Mended
<1>5. MendedAgain(old) \in Manifest
  BY <1>1, <1>4 DEF Manifest, MendedAgain
<1>6. Retained(old) \in Manifest
  BY <1>1 DEF Manifest, Retained
<1>7. old.current \in Builds /\ Mended(old).current \in Builds /\ Target(old).current \in Builds
  BY <1>3, <1>4 DEF Manifest
<1> QED
  BY <1>3, <1>4, <1>5, <1>6, <1>7

LEMMA ManifestsTyped ==
    ASSUME NEW old \in Manifest, NEW b \in Builds
    PROVE  /\ New(b) \in Manifest /\ Settled(New(b)) \in Manifest
           /\ Switching(old, b) \in Manifest /\ Settled(Switching(old, b)) \in Manifest
           /\ Restoring(old, b) \in Manifest /\ Settled(Restoring(old, b)) \in Manifest
           /\ old.current \in Builds
<1>1. \A m \in Manifest : Settled(m) \in Manifest
  BY DEF Manifest, Settled
<1>2. New(b) \in Manifest /\ Switching(old, b) \in Manifest /\ Restoring(old, b) \in Manifest
  BY DEF Manifest, New, Switching, Restoring
<1>3. old.current \in Builds
  BY DEF Manifest
<1> QED
  BY <1>1, <1>2, <1>3

\* With an undo for every step.
LEMMA OrElseSteps ==
    ASSUME NEW undo \in Seq(Simple), NEW s \in Seq(Simple)
    PROVE  /\ OrElse(s, undo) \in Seq(Steps) /\ Len(OrElse(s, undo)) = Len(s)
           /\ \A i \in 1 .. Len(s) : OrElse(s, undo)[i] = Undoing(s[i].kind, s[i].what, undo)
<1> DEFINE q == OrElse(s, undo)
<1>1. Len(s) \in Nat /\ DOMAIN s = 1 .. Len(s) /\ \A i \in 1 .. Len(s) : s[i] \in Simple
  BY LenProperties
<1>2. DOMAIN q = 1 .. Len(s) /\ \A i \in 1 .. Len(s) : q[i] = [s[i] EXCEPT !.undo = undo]
  BY <1>1 DEF OrElse
<1>3. \A i \in 1 .. Len(s) : q[i] = Undoing(s[i].kind, s[i].what, undo) /\ q[i] \in Steps
  BY <1>1, <1>2 DEF Simple, Steps, Undoing
<1>4. q = [i \in 1 .. Len(s) |-> q[i]]
  BY <1>1 DEF OrElse
<1> HIDE DEF q
<1>5. q \in [1 .. Len(s) -> Steps]
  BY <1>3, <1>4
<1>6. q \in Seq(Steps)
  BY <1>1, <1>5, SeqDef
<1>7. Len(q) = Len(s)
  BY <1>1, <1>2, <1>6, LenProperties
<1> QED
  BY <1>3, <1>6, <1>7 DEF q

Paired(p, a, u) ==
    /\ Len(p) = Len(a) + Len(u)
    /\ \A i \in 1 .. Len(a) : p[i] = a[i]
    /\ \A i \in Len(a) + 1 .. Len(a) + Len(u) : p[i] = u[i - Len(a)]
LEMMA InTwo ==
    ASSUME NEW S, NEW a \in Seq(S), NEW u \in Seq(S)
    PROVE  a \o u \in Seq(S) /\ Paired(a \o u, a, u)
<1>1. Len(a) \in Nat /\ Len(u) \in Nat
  OBVIOUS
<1>2. /\ a \o u \in Seq(S) /\ Len(a \o u) = Len(a) + Len(u)
      /\ \A i \in 1 .. Len(a) + Len(u) :
            (a \o u)[i] = IF i <= Len(a) THEN a[i] ELSE u[i - Len(a)]
  BY ConcatProperties
<1> QED
  BY <1>1, <1>2 DEF Paired

\* A plan of three parts: a few steps, one more and a start, and a last one.
Joined(p, a, u, z) ==
    /\ Len(p) = Len(a) + Len(u) + 1
    /\ \A i \in 1 .. Len(a) : p[i] = a[i]
    /\ \A i \in Len(a) + 1 .. Len(a) + Len(u) : p[i] = u[i - Len(a)]
    /\ p[Len(a) + Len(u) + 1] = z
LEMMA InThree ==
    ASSUME NEW S, NEW a \in Seq(S), NEW u \in Seq(S), NEW z \in S
    PROVE  a \o u \o <<z>> \in Seq(S) /\ Joined(a \o u \o <<z>>, a, u, z)
<1> DEFINE p == a \o u \o <<z>>
<1>1. Len(a) \in Nat /\ Len(u) \in Nat /\ <<z>> \in Seq(S) /\ Len(<<z>>) = 1
  OBVIOUS
<1>2. /\ a \o u \in Seq(S) /\ Len(a \o u) = Len(a) + Len(u)
      /\ \A i \in 1 .. Len(a) + Len(u) :
            (a \o u)[i] = IF i <= Len(a) THEN a[i] ELSE u[i - Len(a)]
  BY ConcatProperties
<1>3. /\ p \in Seq(S) /\ Len(p) = Len(a) + Len(u) + 1
      /\ \A i \in 1 .. Len(a) + Len(u) + 1 :
            p[i] = IF i <= Len(a) + Len(u) THEN (a \o u)[i] ELSE <<z>>[i - (Len(a) + Len(u))]
  BY <1>1, <1>2, ConcatProperties
<1> HIDE DEF p
<1>4. \A i \in 1 .. Len(a) : p[i] = a[i]
  BY <1>1, <1>2, <1>3
<1>5. \A i \in Len(a) + 1 .. Len(a) + Len(u) : p[i] = u[i - Len(a)]
  BY <1>1, <1>2, <1>3
<1>6. p[Len(a) + Len(u) + 1] = z
  BY <1>1, <1>3
<1> QED
  BY <1>3, <1>4, <1>5, <1>6 DEF Joined, p

LEMMA BegunTyped ==
    /\ Begun \in Seq(Simple) /\ Len(Begun) = 2
    /\ Begun[1] = Step("start", None) /\ Begun[2] = Step("health", None)
<1>1. Step("start", None) \in Simple /\ Step("health", None) \in Simple
  BY StepsTyped DEF Objects, Kinds
<1> QED
  BY <1>1 DEF Begun

LEMMA RestoreSteps ==
    ASSUME NEW old \in Manifest, NEW b \in Builds
    PROVE  Restores(Restore(old, b), old, b) /\ Restore(old, b) \in Seq(Simple)
<1> DEFINE a == <<Stop, Step("verify", old.current), Save(Restoring(old, b)),
                  Step("configure", old.current)>>
           z == Save(Settled(Restoring(old, b)))
<1>1. /\ a \in Seq(Simple) /\ Begun \in Seq(Simple) /\ z \in Simple
      /\ Len(a) = 4 /\ Len(Begun) = 2
  <2>1. Step("stop", None) \in Simple /\ Step("verify", old.current) \in Simple
        /\ Step("configure", old.current) \in Simple
    BY StepsTyped, ManifestsTyped DEF Objects, Kinds
  <2>2. Save(Restoring(old, b)) \in Simple /\ Save(Settled(Restoring(old, b))) \in Simple
    BY StepsTyped, ManifestsTyped DEF Save, Objects, Kinds
  <2> QED
    BY <2>1, <2>2, BegunTyped DEF Stop
<1>2. Restore(old, b) = a \o Begun \o <<z>>
  BY DEF Restore
<1>3. Restore(old, b) \in Seq(Simple)
  BY <1>1, <1>2, InThree
<1>4. Restore(old, b) \in Seq(Steps)
  BY <1>3, StepsTyped
<1> HIDE DEF a, z
<1> DEFINE p == Restore(old, b)
<1> HIDE DEF p
<1>6. Joined(p, a, Begun, z)
  <2>1. p = a \o Begun \o <<z>>
    BY <1>2 DEF p
  <2> QED
    BY <1>1, <2>1, InThree, Zenon
<1>5. /\ Len(Restore(old, b)) = 7
      /\ \A i \in 1 .. 4 : Restore(old, b)[i] = a[i]
      /\ Restore(old, b)[5] = Begun[1] /\ Restore(old, b)[6] = Begun[2]
      /\ Restore(old, b)[7] = z
  BY <1>1, <1>6 DEF p, Joined
<1> QED
  BY <1>3, <1>4, <1>5, BegunTyped DEF Restores, a, z

LEMMA SwitchedSteps ==
    ASSUME NEW old \in Manifest, NEW b \in Builds
    PROVE  Switches(Switched(old, b), old, b)
<1> DEFINE r == Restore(old, b)
           a == <<Step("verify", b), Stop, Save(Switching(old, b))>>
           d == <<Step("configure", b)>> \o Begun
           u == OrElse(d, r)
           z == Save(Settled(Switching(old, b)))
<1>1. r \in Seq(Simple)
  BY RestoreSteps
<1>2. a \in Seq(Steps) /\ z \in Steps /\ Len(a) = 3
  <2>1. Step("verify", b) \in Steps /\ Stop \in Steps
    BY StepsTyped DEF Stop, Objects, Kinds
  <2>2. Save(Switching(old, b)) \in Steps /\ z \in Steps
    BY StepsTyped, ManifestsTyped DEF Save, Objects, Kinds
  <2> QED
    BY <2>1, <2>2
<1>3. /\ d \in Seq(Simple) /\ Len(d) = 3 /\ d[1] = Step("configure", b)
      /\ d[2] = Step("start", None) /\ d[3] = Step("health", None)
  <2>1. Step("configure", b) \in Simple
    BY StepsTyped DEF Objects, Kinds
  <2>2. <<Step("configure", b)>> \in Seq(Simple) /\ Len(<<Step("configure", b)>>) = 1
    BY <2>1
  <2> DEFINE c == <<Step("configure", b)>>
  <2> HIDE DEF c
  <2>4. /\ c \o Begun \in Seq(Simple) /\ Len(c \o Begun) = Len(c) + Len(Begun)
        /\ \A i \in 1 .. Len(c) + Len(Begun) :
              (c \o Begun)[i] = IF i <= Len(c) THEN c[i] ELSE Begun[i - Len(c)]
    BY <2>2, BegunTyped, ConcatProperties DEF c
  <2>5. Len(c) = 1 /\ c[1] = Step("configure", b) /\ d = c \o Begun
    BY DEF c
  <2> HIDE DEF d
  <2>3. /\ d \in Seq(Simple) /\ Len(d) = 3
        /\ \A i \in 1 .. 3 : d[i] = IF i <= 1 THEN c[i] ELSE Begun[i - 1]
    BY <2>4, <2>5, BegunTyped
  <2> QED
    BY <2>3, <2>5, BegunTyped
<1> HIDE DEF r, d, a, z
<1>4. /\ u \in Seq(Steps) /\ Len(u) = 3 /\ u[1] = Undoing("configure", b, r)
      /\ u[2] = Undoing("start", None, r) /\ u[3] = Undoing("health", None, r)
  <2>1. /\ u \in Seq(Steps) /\ Len(u) = 3
        /\ \A i \in 1 .. 3 : u[i] = Undoing(d[i].kind, d[i].what, r)
    BY <1>1, <1>3, OrElseSteps
  <2> HIDE DEF u
  <2> QED
    BY <1>3, <2>1 DEF Step
<1>5. Switched(old, b) = a \o u \o <<z>>
  BY DEF Switched, a, d, r, z
<1> HIDE DEF u
<1> DEFINE p == Switched(old, b)
<1> HIDE DEF p
<1>7. p \in Seq(Steps) /\ Joined(p, a, u, z)
  <2>1. p = a \o u \o <<z>>
    BY <1>5 DEF p
  <2> QED
    BY <1>2, <1>4, <2>1, InThree, Zenon
<1>6. /\ p \in Seq(Steps) /\ Len(p) = 7 /\ p[1] = a[1] /\ p[2] = a[2] /\ p[3] = a[3]
      /\ p[4] = u[1] /\ p[5] = u[2] /\ p[6] = u[3] /\ p[7] = z
  BY <1>2, <1>4, <1>7 DEF Joined
<1> QED
  BY <1>4, <1>5, <1>6 DEF Switches, a, r, z, p


\* A step further in a plan.
LEMMA Further ==
    ASSUME NEW p \in Seq(Steps), NEW q, Follows(q, p)
    PROVE  /\ Head(q) \in Steps /\ Tail(q) \in Seq(Steps) /\ Len(Tail(q)) = Len(q) - 1
           /\ Len(q) \in Nat \ {0}
           /\ Len(q) <= Len(p) => Head(q) = p[Len(p) + 1 - Len(q)]
           /\ Len(q) > Len(p) => Head(q) \in Early
           /\ Tail(q) = <<>> \/ Follows(Tail(q), p)
<1>1. /\ q \in Seq(Steps) /\ q # <<>> /\ Len(q) \in Nat /\ Len(p) \in Nat
      /\ Len(q) > 0
  <2>1. q \in Seq(Steps) /\ q # <<>>
    BY DEF Follows
  <2> QED
    BY <2>1, EmptySeq, LenProperties
<1>2. /\ Head(q) = q[1] /\ Head(q) \in Steps /\ Tail(q) \in Seq(Steps)
      /\ Len(Tail(q)) = Len(q) - 1 /\ \A i \in 1 .. Len(q) - 1 : Tail(q)[i] = q[i + 1]
  BY <1>1, HeadTailProperties
<1>3. Len(q) <= Len(p) => Head(q) = p[Len(p) + 1 - Len(q)]
  BY <1>1, <1>2 DEF Follows, Ending
<1>4. Len(q) > Len(p) => Head(q) \in Early
  BY <1>1, <1>2 DEF Follows, Prelude
<1> DEFINE t == Tail(q)
<1> HIDE DEF t
<1>5. t \in Seq(Steps) /\ Len(t) = Len(q) - 1 /\ \A i \in 1 .. Len(q) - 1 : t[i] = q[i + 1]
  BY <1>2 DEF t
<1>6. Ending(t, p)
  <2> SUFFICES ASSUME NEW i \in 1 .. Len(p), i <= Len(t)
               PROVE  t[Len(t) + 1 - i] = p[Len(p) + 1 - i]
    BY DEF Ending
  <2>1. t[Len(t) + 1 - i] = q[Len(q) + 1 - i]
    BY <1>1, <1>5
  <2> QED
    BY <1>1, <1>5, <2>1 DEF Follows, Ending
<1>7. Prelude(t, Len(p))
  <2> SUFFICES ASSUME NEW i \in 1 .. Len(t), i + Len(p) <= Len(t)
               PROVE  t[i] \in Early /\ (t[i].kind = "write" => i + Len(p) < Len(t))
    BY DEF Prelude
  <2>1. t[i] = q[i + 1] /\ i + 1 \in 1 .. Len(q) /\ (i + 1) + Len(p) <= Len(q)
    BY <1>1, <1>5
  <2>2. q[i + 1] \in Early /\ (q[i + 1].kind = "write" => (i + 1) + Len(p) < Len(q))
    BY <2>1 DEF Follows, Prelude
  <2> QED
    BY <1>1, <1>5, <2>1, <2>2
<1>8. t = <<>> \/ Follows(t, p)
  BY <1>5, <1>6, <1>7 DEF Follows
<1> QED
  BY <1>1, <1>2, <1>3, <1>4, <1>8 DEF t

\* A payload that is there is not written, and the plan goes on after it.
LEMMA SkipsAWrite ==
    ASSUME NEW p \in Seq(Steps), NEW q, Follows(q, p), Len(q) > Len(p),
           Head(q).kind = "write"
    PROVE  Len(q) >= Len(p) + 2
<1>1. /\ q \in Seq(Steps) /\ q # <<>> /\ Len(q) \in Nat /\ Len(p) \in Nat
      /\ Len(q) > 0
  <2>1. q \in Seq(Steps) /\ q # <<>>
    BY DEF Follows
  <2> QED
    BY <2>1, EmptySeq, LenProperties
<1>2. Head(q) = q[1]
  BY <1>1, HeadTailProperties
<1> QED
  BY <1>1, <1>2 DEF Follows, Prelude

\* The plan as a whole, and after a prelude.
LEMMA Begins ==
    ASSUME NEW p \in Seq(Steps), p # <<>>, NEW s \in Seq(Early),
           \A i \in 1 .. Len(s) : s[i].kind = "write" => i < Len(s)
    PROVE  Follows(s \o p, p) /\ Len(s \o p) = Len(s) + Len(p)
<1> DEFINE q == s \o p
<1>1. s \in Seq(Steps) /\ Len(s) \in Nat /\ Len(p) \in Nat /\ Len(p) > 0
  <2>1. Early \subseteq Steps
    BY StepsTyped DEF Early
  <2> QED
    BY <2>1, SeqMonotonic, EmptySeq, LenProperties
<1>2. /\ q \in Seq(Steps) /\ Len(q) = Len(s) + Len(p)
      /\ \A i \in 1 .. Len(s) + Len(p) : q[i] = IF i <= Len(s) THEN s[i] ELSE p[i - Len(s)]
  BY <1>1, ConcatProperties
<1> HIDE DEF q
<1>3. Ending(q, p)
  BY <1>1, <1>2 DEF Ending
<1>4. Prelude(q, Len(p))
  <2> SUFFICES ASSUME NEW i \in 1 .. Len(q), i + Len(p) <= Len(q)
               PROVE  q[i] \in Early /\ (q[i].kind = "write" => i + Len(p) < Len(q))
    BY DEF Prelude
  <2>1. q[i] = s[i] /\ i \in 1 .. Len(s)
    BY <1>1, <1>2
  <2>2. s[i] \in Early
    BY <2>1, ElementOfSeq
  <2> QED
    BY <1>1, <1>2, <2>1, <2>2
<1>5. q # <<>>
  BY <1>1, <1>2
<1> QED
  BY <1>2, <1>3, <1>4, <1>5 DEF Follows, q

LEMMA BeginsAlone ==
    ASSUME NEW p \in Seq(Steps), p # <<>>
    PROVE  Follows(p, p)
<1>1. Len(p) \in Nat
  OBVIOUS
<1> QED
  BY <1>1 DEF Follows, Ending, Prelude

LEMMA InstalledSteps ==
    ASSUME None \notin Builds, NEW b \in Builds
    PROVE  Installs(Installation(b), b)
<1> DEFINE m == New(b)
           x == <<Save(m), Step("verify", b), Step("create", b)>>
           s == <<Stop, Delete>>
           u == OrElse(Begun, s)
           z == Save(Settled(m))
<1>1. s \in Seq(Simple)
  <2>1. Stop \in Simple /\ Delete \in Simple
    BY StepsTyped DEF Stop, Delete, Objects, Kinds
  <2> QED
    BY <2>1
<1>2. x \in Seq(Steps) /\ z \in Steps /\ Len(x) = 3
  <2>1. Step("verify", b) \in Steps /\ Step("create", b) \in Steps
    BY StepsTyped DEF Objects, Kinds
  <2>2. m \in Manifest /\ Settled(m) \in Manifest
    BY DEF Manifest, Settled, New
  <2>3. Save(m) \in Steps /\ z \in Steps
    BY <2>2, StepsTyped DEF Save, Objects, Kinds
  <2> QED
    BY <2>1, <2>3
<1>3. Roots \in Seq(Steps) /\ Stage(b) \in Seq(Steps) /\ Len(Roots) = 1 /\ Len(Stage(b)) = 3
  <2>1. Step("roots", None) \in Steps
    BY StepsTyped DEF Objects, Kinds
  <2>2. Step("write", b) \in Steps /\ Step("flush", b) \in Steps /\ Step("verify", b) \in Steps
    BY StepsTyped DEF Objects, Kinds
  <2> QED
    BY <2>1, <2>2 DEF Roots, Stage
<1> DEFINE c == Roots \o Stage(b)
           a == c \o x
<1>4. /\ c \in Seq(Steps) /\ Len(c) = 4 /\ c[1] = Roots[1]
      /\ c[2] = Stage(b)[1] /\ c[3] = Stage(b)[2] /\ c[4] = Stage(b)[3]
  <2>1. c \in Seq(Steps) /\ Paired(c, Roots, Stage(b))
    BY <1>3, InTwo, Zenon
  <2> HIDE DEF c
  <2> QED
    BY <1>3, <2>1 DEF Paired
<1> HIDE DEF c, x, m, s, z
<1>5. /\ a \in Seq(Steps) /\ Len(a) = 7
      /\ \A i \in 1 .. 7 : a[i] = IF i <= 4 THEN c[i] ELSE x[i - 4]
  <2>1. a \in Seq(Steps) /\ Paired(a, c, x)
    BY <1>2, <1>4, InTwo, Zenon
  <2> HIDE DEF a
  <2> QED
    BY <1>2, <1>4, <2>1 DEF Paired
<1>6. /\ u \in Seq(Steps) /\ Len(u) = 2 /\ u[1] = Undoing("start", None, s)
      /\ u[2] = Undoing("health", None, s)
  <2>1. /\ u \in Seq(Steps) /\ Len(u) = 2
        /\ \A i \in 1 .. 2 : u[i] = Undoing(Begun[i].kind, Begun[i].what, s)
    BY <1>1, BegunTyped, OrElseSteps
  <2> HIDE DEF u
  <2> QED
    BY <2>1, BegunTyped DEF Step
<1>7. Installation(b) = a \o u \o <<z>>
  BY DEF Installation, a, c, x, u, s, z, m, New
<1> HIDE DEF a, u
<1> DEFINE p == Installation(b)
<1> HIDE DEF p
<1>8. p \in Seq(Steps) /\ Joined(p, a, u, z)
  <2>1. p = a \o u \o <<z>>
    BY <1>7 DEF p
  <2> QED
    BY <1>2, <1>5, <1>6, <2>1, InThree, Zenon
<1>9. /\ p \in Seq(Steps) /\ Len(p) = 10 /\ \A i \in 1 .. 7 : p[i] = a[i]
      /\ p[8] = u[1] /\ p[9] = u[2] /\ p[10] = z
  BY <1>2, <1>5, <1>6, <1>8 DEF Joined
<1>10. /\ p[1] = Step("roots", None) /\ p[2] = Step("write", b) /\ p[3] = Step("flush", b)
       /\ p[4] = Step("verify", b)
  BY <1>4, <1>5, <1>9 DEF Roots, Stage
<1>11. p[5] = Save(m) /\ p[6] = Step("verify", b) /\ p[7] = Step("create", b)
  BY <1>5, <1>9 DEF x
<1>12. p[8] = Undoing("start", None, <<Stop, Delete>>) /\ p[9] = Undoing("health", None, <<Stop, Delete>>)
  BY <1>6, <1>9 DEF s
<1> QED
  BY <1>9, <1>10, <1>11, <1>12 DEF Installs, p, m, z

LEMMA RepairedSteps ==
    ASSUME NEW old \in Manifest
    PROVE  Repairs(Repaired(old), old)
<1> DEFINE t == [Target(old) EXCEPT !.pending = TRUE]
           k == Step(IF Installed THEN "configure" ELSE "create", t.current)
           a == <<Stop, Step("verify", t.current), Save(t), k>>
           s == <<Stop>>
           u == OrElse(Begun, s)
           z == Save([Settled(t) EXCEPT !.uninstalled = FALSE])
<1>0. t = Mended(old)
  BY DEF Mended
<1>1. s \in Seq(Simple)
  <2>1. Stop \in Simple
    BY StepsTyped DEF Stop, Objects, Kinds
  <2> QED
    BY <2>1
<1>2. a \in Seq(Steps) /\ z \in Steps /\ Len(a) = 4
  <2>1. Stop \in Steps /\ Step("verify", t.current) \in Steps
    BY <1>0, StepsTyped, MendedTyped DEF Stop, Objects, Kinds
  <2>2. k \in Steps
    BY <1>0, StepsTyped, MendedTyped DEF Objects, Kinds
  <2>3. Save(t) \in Steps
    BY <1>0, StepsTyped, MendedTyped DEF Save, Objects, Kinds
  <2>4. z \in Steps
    BY <1>0, StepsTyped, MendedTyped DEF Save, Objects, Kinds, MendedAgain
  <2> HIDE DEF t, k, z
  <2> QED
    BY <2>1, <2>2, <2>3, <2>4
<1>3. k \in {Step("create", t.current), Step("configure", t.current)}
  OBVIOUS
<1>6. /\ u \in Seq(Steps) /\ Len(u) = 2 /\ u[1] = Undoing("start", None, s)
      /\ u[2] = Undoing("health", None, s)
  <2> HIDE DEF s
  <2>1. /\ u \in Seq(Steps) /\ Len(u) = 2
        /\ \A i \in 1 .. 2 : u[i] = Undoing(Begun[i].kind, Begun[i].what, s)
    BY <1>1, BegunTyped, OrElseSteps
  <2> HIDE DEF u
  <2> QED
    BY <2>1, BegunTyped DEF Step
<1>7. Repaired(old) = a \o u \o <<z>>
  BY DEF Repaired
<1> HIDE DEF k, a, u, z, s, t
<1> DEFINE p == Repaired(old)
<1> HIDE DEF p
<1>8. p \in Seq(Steps) /\ Joined(p, a, u, z)
  <2>1. p = a \o u \o <<z>>
    BY <1>7 DEF p
  <2> QED
    BY <1>2, <1>6, <2>1, InThree, Zenon
<1>9. /\ p \in Seq(Steps) /\ Len(p) = 7 /\ \A i \in 1 .. 4 : p[i] = a[i]
      /\ p[5] = u[1] /\ p[6] = u[2] /\ p[7] = z
  BY <1>2, <1>6, <1>8 DEF Joined
<1>10. p[1] = Stop /\ p[2] = Step("verify", t.current) /\ p[3] = Save(t) /\ p[4] = k
  BY <1>9 DEF a
<1>11. z = Save(MendedAgain(old))
  BY <1>0 DEF MendedAgain, z
<1> QED
  BY <1>0, <1>3, <1>6, <1>9, <1>10, <1>11 DEF Repairs, p, s

LEMMA RemovedSteps ==
    ASSUME NEW old \in Manifest
    PROVE  Removes(Removed(old), old)
<1> DEFINE s == Save(Retained(old))
           v == Checking
           r == Step("remove", None)
<1>1. Stop \in Steps /\ Delete \in Steps
  BY StepsTyped DEF Stop, Delete, Objects, Kinds
<1>2. s \in Steps
  BY StepsTyped, MendedTyped DEF Save, Objects, Kinds
<1>3. v \in Steps /\ r \in Steps
  BY StepsTyped DEF Checking, Objects, Kinds
<1>4. Removed(old) = <<Stop, Delete, s, v, r>>
  BY DEF Removed, Checking
<1> HIDE DEF s, v, r
<1>5. <<Stop, Delete, s, v, r>> \in Seq(Steps)
  BY <1>1, <1>2, <1>3
<1> DEFINE p == Removed(old)
<1> HIDE DEF p
<1>6. /\ p \in Seq(Steps) /\ Len(p) = 5
      /\ p[1] = Stop /\ p[2] = Delete /\ p[3] = s /\ p[4] = v /\ p[5] = r
  <2>1. p = <<Stop, Delete, s, v, r>>
    BY <1>4 DEF p
  <2> QED
    BY <1>5, <2>1
<1>7. Removes(p, old)
  BY <1>6 DEF Removes, s, v, r
<1> QED
  BY <1>7 DEF p

\* Copying a payload, before whatever comes next.
LEMMA StageTyped ==
    ASSUME NEW b \in Builds
    PROVE  /\ Stage(b) \in Seq(Early) /\ Len(Stage(b)) = 3
           /\ \A i \in 1 .. 3 : Stage(b)[i].kind = "write" => i < 3
<1>1. Step("write", b) \in Early /\ Step("flush", b) \in Early /\ Step("verify", b) \in Early
  <2>1. /\ Step("write", b) \in Simple /\ Step("flush", b) \in Simple
        /\ Step("verify", b) \in Simple
    BY StepsTyped DEF Objects, Kinds
  <2> QED
    BY <2>1 DEF Early, Step
<1> QED
  BY <1>1 DEF Stage, Step

-----------------------------------------------------------------------------
(* What fits. *)

LEMMA FitsWithMore ==
    ASSUME NEW m, NEW files, NEW more, NEW image, FitsTo(m, files, image),
           \A b \in Builds : files[b] = "whole" => more[b] = "whole"
    PROVE  FitsTo(m, more, image)
<1>1. Target(m).current \in Builds
  <2>1. m \in Manifest
    BY DEF FitsTo
  <2> QED
    BY <2>1, MendedTyped
<1> QED
  BY <1>1 DEF FitsTo

LEMMA FitsAround ==
    ASSUME NEW m, NEW files, NEW image, FitsTo(m, files, image)
    PROVE  /\ FitsTo(m, files, None) /\ FitsTo(m, files, m.current)
           /\ m.uninstalled /\ image = None => \A other : FitsTo(m, other, image)
  BY DEF FitsTo

LEMMA FitsNew ==
    ASSUME Parameters, NEW b \in Builds, NEW files, files[b] = "whole"
    PROVE  /\ FitsTo(New(b), files, None)
           /\ \A image \in {None, b} : FitsTo(Settled(New(b)), files, image)
<1>1. New(b) \in Manifest /\ Settled(New(b)) \in Manifest
  BY DEF Manifest, New, Settled
<1>2. Target(New(b)) = New(b) /\ Target(Settled(New(b))) = Settled(New(b))
  BY DEF New, Settled, Target
<1>3. FitsTo(New(b), files, None)
  BY <1>1, <1>2 DEF FitsTo, New
<1>4. ASSUME NEW image \in {None, b}
      PROVE  FitsTo(Settled(New(b)), files, image)
  <2>1. /\ Settled(New(b)).current = b /\ Settled(New(b)).recover_to = None
    BY DEF New, Settled
  <2> QED
    BY <1>1, <1>2, <2>1 DEF FitsTo
<1> QED
  BY <1>3, <1>4

LEMMA FitsSwitched ==
    ASSUME Parameters, NEW old \in Manifest, NEW b \in Builds, NEW files,
           files[old.current] = "whole", files[b] = "whole"
    PROVE  /\ FitsTo(Switching(old, b), files, old.current)
           /\ FitsTo(Settled(Switching(old, b)), files, b)
<1>1. Switching(old, b) \in Manifest /\ Settled(Switching(old, b)) \in Manifest
  BY ManifestsTyped
<1>2. Target(Switching(old, b)).current \in {old.current, b}
  BY DEF Target, Switching, Manifest
<1>3. Target(Settled(Switching(old, b))).current = b
  BY DEF Target, Switching, Settled, Manifest
<1> QED
  BY <1>1, <1>2, <1>3 DEF FitsTo, Switching, Settled, Manifest

LEMMA FitsSettled ==
    ASSUME Parameters, NEW old \in Manifest, NEW b \in Builds, NEW files,
           files[old.current] = "whole"
    PROVE  FitsTo(Settled(Restoring(old, b)), files, old.current)
<1>1. Settled(Restoring(old, b)) \in Manifest
  BY ManifestsTyped
<1>2. Target(Settled(Restoring(old, b))).current = old.current
  BY DEF Target, Restoring, Settled, Manifest
<1> QED
  BY <1>1, <1>2 DEF FitsTo, Restoring, Settled, Manifest

LEMMA FitsRestored ==
    ASSUME Parameters, NEW old \in Manifest, NEW b \in Builds, NEW files, NEW image,
           FitsTo(Switching(old, b), files, image), files[old.current] = "whole"
    PROVE  FitsTo(Restoring(old, b), files, image)
<1>1. Restoring(old, b) \in Manifest
  BY ManifestsTyped
<1>2. Target(Restoring(old, b)).current = old.current
  BY DEF Target, Restoring, Manifest
<1>3. image \in {None, b, old.current}
  BY DEF FitsTo, Switching, Manifest
<1> QED
  BY <1>1, <1>2, <1>3 DEF FitsTo, Restoring, Manifest

LEMMA FitsMended ==
    ASSUME Parameters, NEW m \in Manifest, NEW files, NEW image,
           FitsTo(m, files, image), files[Mended(m).current] = "whole"
    PROVE  FitsTo(Mended(m), files, image)
<1>1. Mended(m) \in Manifest
  BY MendedTyped
<1>2. /\ Target(Mended(m)) = Mended(m) /\ Mended(m).pending
      /\ Mended(m).recover_to \in {None, Mended(m).current, Mended(m).previous}
      /\ {m.current, m.previous} \subseteq {None, Mended(m).current, Mended(m).previous}
  BY DEF FitsTo, Target, Mended, Manifest
<1>3. image \in {None, m.current, m.previous}
  BY DEF FitsTo
<1> QED
  BY <1>1, <1>2, <1>3 DEF FitsTo

LEMMA FitsAgain ==
    ASSUME NEW m \in Manifest, NEW files, files[Mended(m).current] = "whole"
    PROVE  FitsTo(MendedAgain(m), files, Mended(m).current)
<1>1. MendedAgain(m) \in Manifest /\ Mended(m) \in Manifest
  BY MendedTyped
<1>2. /\ Target(MendedAgain(m)).current = Mended(m).current
      /\ MendedAgain(m).current = Mended(m).current /\ MendedAgain(m).recover_to = None
  BY <1>1 DEF Target, Mended, MendedAgain, Settled, Manifest
<1> QED
  BY <1>1, <1>2 DEF FitsTo

LEMMA FitsRetained ==
    ASSUME NEW m \in Manifest, NEW files
    PROVE  FitsTo(Retained(m), files, None) /\ Retained(m).uninstalled
<1>1. Retained(m) \in Manifest
  <2>1. Settled(m) \in Manifest
    BY DEF Manifest, Settled
  <2> QED
    BY <2>1 DEF Manifest, Retained
<1> QED
  BY <1>1 DEF FitsTo, Retained, Settled, Manifest

-----------------------------------------------------------------------------
(* The steps. *)

\* What a step may do, for the installation to stay sound.
Allowed(h) ==
    /\ h.kind = "save" => Fits(h.what)
    /\ h.kind \in {"create", "configure"} =>
          Fits(manifest) /\ h.what = manifest.current /\ Whole(h.what)
    /\ h.kind = "remove" => Fits(manifest) /\ manifest.uninstalled /\ ~Installed

LEMMA DoIs ==
    ASSUME Sound, Do, NEW h, h = Head(todo)
    PROVE  /\ h.kind \notin {"write", "remove"} => todo' = Tail(todo)
           /\ h.kind = "write" => todo' \in {Tail(todo), Tail(Tail(todo))}
           /\ h.kind = "remove" => todo' \in {todo, Tail(todo)}
           /\ h.kind = "save" => manifest' = h.what
           /\ h.kind # "save" => manifest' = manifest
           /\ h.kind = "verify" => Whole(h.what)
           /\ h.kind # "remove" => \A b \in Builds : Whole(b) => payload'[b] = "whole"
           /\ h.kind \notin {"create", "configure", "delete"} => service'.image = service.image
           /\ h.kind \in {"create", "configure"} => service'.image = h.what
           /\ h.kind = "delete" => service'.image = None
           /\ h.kind = "configure" => Installed
           /\ service'.running => service'.image # None \/ h.kind = "configure"
           /\ (h.kind \in {"create", "configure"} => h.what \in Builds)
                 => service' \in [image : Builds \cup {None}, running : BOOLEAN]
           /\ payload' \in [Builds -> {"none", "torn", "whole"}]
           /\ roots' \in BOOLEAN /\ UNCHANGED troubles
<1> USE DEF Kind, What
<1>1. todo' = CASE h.kind = "write" /\ payload[h.what] # "none" -> Tail(Tail(todo))
                [] h.kind = "remove" /\ Present # {} -> todo
                [] OTHER -> Tail(todo)
  BY DEF Do
<1>2. /\ h.kind \notin {"write", "remove"} => todo' = Tail(todo)
      /\ h.kind = "write" => todo' \in {Tail(todo), Tail(Tail(todo))}
      /\ h.kind = "remove" => todo' \in {todo, Tail(todo)}
  BY <1>1
<1>3. /\ h.kind = "save" => manifest' = h.what
      /\ h.kind # "save" => manifest' = manifest
  BY DEF Do
<1>4. /\ h.kind = "verify" => Whole(h.what)
      /\ h.kind \in {"configure", "start"} => Installed
  <2>1. (CASE h.kind = "verify" -> payload[h.what] = "whole"
           [] h.kind = "verify all" -> \A b \in Present : payload[b] = "whole"
           [] h.kind \in {"configure", "start", "health"} -> Installed
           [] OTHER -> TRUE)
    BY DEF Do
  <2> QED
    BY <2>1 DEF Whole
<1>5. /\ payload \in [Builds -> {"none", "torn", "whole"}] /\ Parameters
      /\ service \in [image : Builds \cup {None}, running : BOOLEAN]
      /\ service.running => service.image # None
  BY DEF Sound, Installed
<1>6. /\ payload' \in [Builds -> {"none", "torn", "whole"}]
      /\ h.kind # "remove" => \A b \in Builds : Whole(b) => payload'[b] = "whole"
  <2>1. \/ /\ h.kind = "write"
           /\ payload' = [payload EXCEPT ![h.what] = IF @ = "none" THEN "torn" ELSE @]
        \/ h.kind = "flush" /\ payload' = [payload EXCEPT ![h.what] = "whole"]
        \/ h.kind = "remove" /\ \E b \in Present : payload' = [payload EXCEPT ![b] = "none"]
        \/ payload' = payload
    BY DEF Do
  <2>2. CASE /\ h.kind = "write"
             /\ payload' = [payload EXCEPT ![h.what] = IF @ = "none" THEN "torn" ELSE @]
    BY <1>5, <2>2 DEF Whole
  <2>3. CASE h.kind = "flush" /\ payload' = [payload EXCEPT ![h.what] = "whole"]
    BY <1>5, <2>3 DEF Whole
  <2>4. CASE h.kind = "remove" /\ \E b \in Present : payload' = [payload EXCEPT ![b] = "none"]
    BY <1>5, <2>4 DEF Whole
  <2>5. CASE payload' = payload
    BY <1>5, <2>5 DEF Whole
  <2> QED
    BY <2>1, <2>2, <2>3, <2>4, <2>5
<1>7. service' = CASE h.kind = "create" -> [image |-> h.what, running |-> FALSE]
                   [] h.kind = "configure" -> [service EXCEPT !.image = h.what]
                   [] h.kind = "start" -> [service EXCEPT !.running = TRUE]
                   [] h.kind = "stop" -> [service EXCEPT !.running = FALSE]
                   [] h.kind = "delete" -> [image |-> None, running |-> FALSE]
                   [] OTHER -> service
  BY DEF Do
<1>8. /\ h.kind \notin {"create", "configure", "delete"} => service'.image = service.image
      /\ h.kind \in {"create", "configure"} => service'.image = h.what
      /\ h.kind = "delete" => service'.image = None
  BY <1>5, <1>7
<1>9. roots' \in BOOLEAN /\ UNCHANGED troubles
  BY DEF Do, Sound
<1>10. service'.running => service'.image # None \/ h.kind = "configure"
  BY <1>4, <1>5, <1>7 DEF Installed
<1>11. (h.kind \in {"create", "configure"} => h.what \in Builds)
          => service' \in [image : Builds \cup {None}, running : BOOLEAN]
  BY <1>5, <1>7
<1> QED
  BY <1>2, <1>3, <1>4, <1>6, <1>8, <1>9, <1>10, <1>11

\* A manifest that fits goes on to fit.
LEMMA FitsOn ==
    ASSUME Sound, Do, NEW h, h = Head(todo), Allowed(h), Fits(manifest) \/ h.kind = "save"
    PROVE  FitsTo(manifest', payload', service'.image)
<1>1. CASE h.kind = "save"
  <2>1. FitsTo(h.what, payload, service.image) /\ manifest' = h.what /\ service'.image = service.image
    BY <1>1, DoIs DEF Allowed, Fits
  <2>2. \A b \in Builds : payload[b] = "whole" => payload'[b] = "whole"
    BY <1>1, DoIs DEF Whole
  <2> QED
    BY <2>1, <2>2, FitsWithMore
<1>2. CASE h.kind = "remove"
  <2>1. /\ FitsTo(manifest, payload, service.image) /\ manifest.uninstalled
        /\ service.image = None /\ manifest' = manifest /\ service'.image = service.image
    BY <1>2, DoIs DEF Allowed, Fits, Installed
  <2>2. FitsTo(manifest, payload', service.image)
    BY <2>1, FitsAround
  <2> QED
    BY <2>1, <2>2
<1>3. CASE h.kind \notin {"save", "remove"}
  <2>1. manifest' = manifest /\ \A b \in Builds : payload[b] = "whole" => payload'[b] = "whole"
    BY <1>3, DoIs DEF Whole
  <2>2. FitsTo(manifest, payload, service.image)
    BY <1>3 DEF Fits
  <2>3. FitsTo(manifest, payload', service.image)
    BY <2>1, <2>2, FitsWithMore
  <2>4. service'.image \in {service.image, None, manifest.current}
    BY DoIs DEF Allowed
  <2> QED
    BY <2>1, <2>3, <2>4, FitsAround
<1> QED
  BY <1>1, <1>2, <1>3

\* What a plan leaves stays sound.
LEMMA DoKeeps ==
    ASSUME Sound, Do, NEW h, h = Head(todo), Allowed(h)
    PROVE  Sound'
<1>1. /\ Parameters
      /\ manifest = None \/ FitsTo(manifest, payload, service.image)
      /\ Installed => FitsTo(manifest, payload, service.image) /\ Whole(service.image)
      /\ service \in [image : Builds \cup {None}, running : BOOLEAN]
      /\ troubles \in 0 .. MaxTroubles
  BY DEF Sound, Fits
<1>2. h.kind \in {"create", "configure"} => h.what \in Builds
  <2>1. h.kind \in {"create", "configure"} => manifest \in Manifest /\ h.what = manifest.current
    BY DEF Allowed, Fits, FitsTo
  <2> QED
    BY <2>1 DEF Manifest
<1>3. service' \in [image : Builds \cup {None}, running : BOOLEAN]
  BY <1>2, DoIs, Zenon
<1>4. manifest' = None \/ FitsTo(manifest', payload', service'.image)
  <2>1. CASE Fits(manifest) \/ h.kind = "save"
    BY <2>1, FitsOn
  <2>2. CASE manifest = None /\ h.kind # "save"
    BY <2>2, DoIs
  <2> QED
    BY <1>1, <2>1, <2>2 DEF Fits
<1>5. service'.image # None => FitsTo(manifest', payload', service'.image)
                               /\ payload'[service'.image] = "whole"
  <2> SUFFICES ASSUME service'.image # None
               PROVE  FitsTo(manifest', payload', service'.image)
                      /\ payload'[service'.image] = "whole"
    OBVIOUS
  <2>1. CASE h.kind \in {"create", "configure"}
    <3>1. /\ Fits(manifest) /\ service'.image = h.what /\ payload[h.what] = "whole"
          /\ \A b \in Builds : payload[b] = "whole" => payload'[b] = "whole"
      BY <2>1, DoIs DEF Allowed, Whole
    <3>2. FitsTo(manifest', payload', service'.image)
      BY <3>1, FitsOn
    <3> QED
      BY <1>2, <2>1, <3>1, <3>2
  <2>2. CASE h.kind \notin {"create", "configure"}
    <3>1. service'.image = service.image /\ Installed
      BY <2>2, DoIs DEF Installed
    <3>2. FitsTo(manifest, payload, service.image) /\ payload[service.image] = "whole"
      BY <1>1, <3>1 DEF Whole
    <3>3. h.kind # "remove"
      BY <3>1 DEF Allowed
    <3>4. payload'[service.image] = "whole"
      BY <1>1, <3>1, <3>2, <3>3, DoIs DEF Whole, Installed
    <3>5. FitsTo(manifest', payload', service'.image)
      BY <3>2, FitsOn DEF Fits
    <3> QED
      BY <3>1, <3>4, <3>5
  <2> QED
    BY <2>1, <2>2
<1>6. service'.running => service'.image # None
  <2>1. h.kind = "configure" => service'.image # None
    <3>1. h.kind = "configure" => service'.image = h.what /\ h.what \in Builds
      BY <1>2, DoIs
    <3> QED
      BY <1>1, <3>1 DEF Parameters
  <2> QED
    BY <2>1, DoIs
<1>7. /\ payload' \in [Builds -> {"none", "torn", "whole"}] /\ roots' \in BOOLEAN
      /\ troubles' = troubles
  BY DoIs
<1> QED
  BY <1>1, <1>3, <1>4, <1>5, <1>6, <1>7 DEF Sound, Parameters, Fits, Installed, Whole

\* And so does what a step that fails leaves, or an installer that dies.
LEMMA FailIs ==
    ASSUME Sound, Fail \/ Die, NEW h, h = Head(todo)
    PROVE  /\ UNCHANGED <<roots, payload, manifest>> /\ troubles' \in 0 .. MaxTroubles
           /\ todo' \in {<<>>, h.undo}
           /\ \/ /\ service'.image = service.image
                 /\ service' \in [image : {service.image}, running : BOOLEAN]
                 /\ service'.running => Installed
              \/ /\ h.kind \in {"create", "configure"}
                 /\ service' = [service EXCEPT !.image = h.what]
<1> USE DEF Kind, What
<1>1. /\ service \in [image : Builds \cup {None}, running : BOOLEAN]
      /\ service.running => Installed
      /\ troubles \in 0 .. MaxTroubles /\ MaxTroubles \in Nat
  BY DEF Sound, Parameters
<1>2. CASE Fail
  <2>1. /\ UNCHANGED <<roots, payload, manifest>> /\ todo' = h.undo
        /\ troubles' = troubles \/ (troubles < MaxTroubles /\ troubles' = troubles + 1)
    BY <1>2 DEF Fail, Trouble
  <2>2. troubles' \in 0 .. MaxTroubles
    BY <1>1, <2>1
  <2>3. \/ service' = service
        \/ Installed /\ \E r \in BOOLEAN : service' = [service EXCEPT !.running = r]
        \/ h.kind \in {"create", "configure"} /\ service' = [service EXCEPT !.image = h.what]
    BY <1>2 DEF Fail
  <2> QED
    BY <1>1, <2>1, <2>2, <2>3
<1>3. CASE Die
  <2>1. /\ UNCHANGED <<roots, payload, manifest>> /\ todo' = <<>>
        /\ troubles < MaxTroubles /\ troubles' = troubles + 1
        /\ service' \in {service, [service EXCEPT !.running = Installed]}
    BY <1>3 DEF Die, Trouble
  <2>2. troubles' \in 0 .. MaxTroubles
    BY <1>1, <2>1
  <2>3. Installed \in BOOLEAN
    BY DEF Installed
  <2> QED
    BY <1>1, <2>1, <2>2, <2>3
<1> QED
  BY <1>2, <1>3

LEMMA FailKeeps ==
    ASSUME Sound, Fail \/ Die, NEW h, h = Head(todo), Allowed(h)
    PROVE  Sound'
<1>1. /\ Parameters
      /\ manifest = None \/ FitsTo(manifest, payload, service.image)
      /\ Installed => FitsTo(manifest, payload, service.image) /\ Whole(service.image)
      /\ service \in [image : Builds \cup {None}, running : BOOLEAN]
      /\ payload \in [Builds -> {"none", "torn", "whole"}] /\ roots \in BOOLEAN
  BY DEF Sound, Fits
<1>2. payload' = payload /\ manifest' = manifest /\ roots' = roots /\ troubles' \in 0 .. MaxTroubles
  BY FailIs
<1>3. CASE /\ service'.image = service.image
           /\ service' \in [image : {service.image}, running : BOOLEAN]
           /\ service'.running => Installed
  BY <1>1, <1>2, <1>3 DEF Sound, Parameters, Fits, Installed, Whole
<1>4. CASE /\ h.kind \in {"create", "configure"}
           /\ service' = [service EXCEPT !.image = h.what]
  <2>1. FitsTo(manifest, payload, service.image) /\ h.what = manifest.current
        /\ payload[h.what] = "whole"
    BY <1>4 DEF Allowed, Fits, Whole
  <2>2. manifest.current \in Builds
    BY <2>1 DEF FitsTo, Manifest
  <2>3. FitsTo(manifest, payload, manifest.current)
    BY <2>1, FitsAround
  <2>4. /\ service'.image = manifest.current
        /\ service' \in [image : Builds \cup {None}, running : BOOLEAN]
    BY <1>1, <1>4, <2>1, <2>2
  <2>5. service'.image # None
    BY <1>1, <2>2, <2>4 DEF Parameters
  <2> QED
    BY <1>1, <1>2, <2>1, <2>3, <2>4, <2>5 DEF Sound, Parameters, Fits, Installed, Whole
<1> QED
  BY <1>3, <1>4, FailIs

-----------------------------------------------------------------------------
(* The plans. *)

\* Steps that harm nothing are always allowed; some are skipped or fail.
LEMMA HarmlessAllowed ==
    ASSUME NEW h, h.kind \in Harmless
    PROVE  Allowed(h)
  BY DEF Harmless, Allowed

LEMMA NothingIsShort == Len(<<>>) = 0
  OBVIOUS

LEMMA NothingLeft == Quiet(<<>>)
<1>1. <<>> \in Seq(Simple) /\ Len(<<>>) = 0
  BY EmptySeq
<1> QED
  BY <1>1 DEF Quiet

LEMMA QuietUndo ==
    Quiet(<<Stop>>) /\ Quiet(<<Stop, Delete>>)
<1>1. Stop \in Simple /\ Delete \in Simple
  BY StepsTyped DEF Stop, Delete, Objects, Kinds
<1>2. Stop.kind = "stop" /\ Delete.kind = "delete"
  BY DEF Stop, Delete, Step
<1>3. <<Stop>> \in Seq(Simple) /\ <<Stop, Delete>> \in Seq(Simple)
  BY <1>1
<1> QED
  BY <1>2, <1>3 DEF Quiet, Harmless

LEMMA QuietSteps ==
    ASSUME Sound, Quiet(todo), todo # <<>>, Do \/ Fail \/ Die
    PROVE  Sound' /\ Quiet(todo')
<1> DEFINE h == Head(todo)
<1>1. /\ todo \in Seq(Simple) /\ Len(todo) \in Nat \ {0} /\ h = todo[1]
      /\ h \in Simple /\ Tail(todo) \in Seq(Simple) /\ Len(Tail(todo)) = Len(todo) - 1
      /\ \A i \in 1 .. Len(todo) - 1 : Tail(todo)[i] = todo[i + 1]
  <2>1. todo \in Seq(Simple)
    BY DEF Quiet
  <2> QED
    BY <2>1, EmptySeq, LenProperties, HeadTailProperties
<1>2. h.kind \in Harmless /\ (h.kind = "write" => 1 < Len(todo)) /\ h.undo = <<>>
  BY <1>1 DEF Quiet, Simple
<1>3. Allowed(h)
  BY <1>2, HarmlessAllowed
<1> DEFINE t == Tail(todo)
<1> HIDE DEF h, t
<1>4. /\ t \in Seq(Simple) /\ Len(t) = Len(todo) - 1
      /\ \A i \in 1 .. Len(todo) - 1 : t[i] = todo[i + 1]
  BY <1>1 DEF t
<1>5. Quiet(t)
  <2> SUFFICES ASSUME NEW i \in 1 .. Len(t)
               PROVE  t[i].kind \in Harmless /\ (t[i].kind = "write" => i < Len(t))
    BY <1>4 DEF Quiet
  <2>1. t[i] = todo[i + 1] /\ i + 1 \in 1 .. Len(todo)
    BY <1>1, <1>4
  <2>2. todo[i + 1].kind \in Harmless /\ (todo[i + 1].kind = "write" => i + 1 < Len(todo))
    BY <2>1 DEF Quiet
  <2> QED
    BY <1>1, <1>4, <2>1, <2>2
<1>6. h.kind = "write" => Quiet(Tail(t))
  <2> SUFFICES ASSUME h.kind = "write"
               PROVE  Quiet(Tail(t))
    OBVIOUS
  <2> DEFINE u == Tail(t)
  <2>1. /\ u \in Seq(Simple) /\ Len(u) = Len(t) - 1 /\ Len(t) \in Nat \ {0}
        /\ \A i \in 1 .. Len(t) - 1 : u[i] = t[i + 1]
    <3>1. t # <<>> /\ Len(t) \in Nat \ {0}
      BY <1>1, <1>2, <1>4
    <3> QED
      BY <1>4, <3>1, HeadTailProperties
  <2> HIDE DEF u
  <2>2. Quiet(u)
    <3> SUFFICES ASSUME NEW i \in 1 .. Len(u)
                 PROVE  u[i].kind \in Harmless /\ (u[i].kind = "write" => i < Len(u))
      BY <2>1 DEF Quiet
    <3>1. u[i] = t[i + 1] /\ i + 1 \in 1 .. Len(t)
      BY <2>1
    <3>2. t[i + 1].kind \in Harmless /\ (t[i + 1].kind = "write" => i + 1 < Len(t))
      BY <1>5, <3>1 DEF Quiet
    <3> QED
      BY <2>1, <3>1, <3>2
  <2> QED
    BY <2>2 DEF u
<1>7. CASE Do
  <2>1. Sound'
    BY <1>3, <1>7, DoKeeps DEF h
  <2>2. todo' = t \/ (h.kind = "write" /\ todo' = Tail(t))
    BY <1>2, <1>7, DoIs DEF h, t, Harmless
  <2> QED
    BY <1>5, <1>6, <2>1, <2>2
<1>8. CASE Fail \/ Die
  <2>1. Sound'
    BY <1>3, <1>8, FailKeeps DEF h
  <2>2. todo' = <<>>
    BY <1>2, <1>8, FailIs DEF h
  <2> QED
    BY <2>1, <2>2, NothingLeft
<1> QED
  BY <1>7, <1>8

\* The steps that come before a plan: they only add payloads.
LEMMA EarlySteps ==
    ASSUME Sound, Do, NEW p \in Seq(Steps), p # <<>>, Follows(todo, p), Left > Len(p)
    PROVE  /\ Sound' /\ Follows(todo', p) /\ Left' >= Len(p) /\ Left' \in Nat
           /\ manifest' = manifest /\ service'.image = service.image
           /\ \A b \in Builds : Whole(b) => payload'[b] = "whole"
<1> DEFINE h == Head(todo)
           t == Tail(todo)
<1>1. /\ h \in Early /\ Left \in Nat \ {0} /\ Len(p) \in Nat \ {0}
      /\ Len(t) = Left - 1 /\ Follows(t, p)
  <2>1. /\ h \in Early /\ Left \in Nat \ {0} /\ Len(t) = Left - 1
        /\ t = <<>> \/ Follows(t, p)
    BY Further DEF Left
  <2>2. Len(p) \in Nat \ {0}
    BY EmptySeq, LenProperties
  <2> HIDE DEF t
  <2>3. t # <<>>
    BY <2>1, <2>2
  <2> QED
    BY <2>1, <2>2, <2>3
<1>2. h.kind \in {"write", "flush", "verify"}
  BY <1>1 DEF Early
<1> HIDE DEF h, t
<1>3. h.kind = "write" => Left >= Len(p) + 2
  BY SkipsAWrite DEF h, Left
<1>4. h.kind = "write" => Follows(Tail(t), p) /\ Len(Tail(t)) = Left - 2
  <2>1. Len(Tail(t)) = Len(t) - 1 /\ (Tail(t) = <<>> \/ Follows(Tail(t), p))
    BY <1>1, Further
  <2> DEFINE u == Tail(t)
  <2> HIDE DEF u
  <2>2. Len(u) = Len(t) - 1 /\ (u = <<>> \/ Follows(u, p))
    BY <2>1 DEF u
  <2>3. h.kind = "write" => u # <<>>
    BY <1>1, <1>3, <2>2
  <2> QED
    BY <1>1, <2>2, <2>3 DEF u
<1>5. todo' = t \/ (h.kind = "write" /\ todo' = Tail(t))
  BY <1>2, DoIs DEF h, t
<1>6. Follows(todo', p) /\ Left' >= Len(p) /\ Left' \in Nat
  <2>1. CASE todo' = t
    BY <1>1, <2>1 DEF Left
  <2>2. CASE h.kind = "write" /\ todo' = Tail(t)
    <3>1. Follows(todo', p) /\ Len(todo') = Left - 2
      BY <1>4, <2>2
    <3> QED
      BY <1>1, <1>3, <2>2, <3>1 DEF Left
  <2> QED
    BY <1>5, <2>1, <2>2
<1>7. Allowed(h)
  BY <1>2, HarmlessAllowed DEF Harmless
<1>8. Sound'
  BY <1>7, DoKeeps DEF h
<1>9. /\ manifest' = manifest /\ service'.image = service.image
      /\ \A b \in Builds : Whole(b) => payload'[b] = "whole"
  BY <1>2, DoIs DEF h
<1> QED
  BY <1>6, <1>8, <1>9

LEMMA EarlyFails ==
    ASSUME Sound, Fail \/ Die, NEW p \in Seq(Steps), Follows(todo, p), Left > Len(p)
    PROVE  Sound' /\ Quiet(todo')
<1> DEFINE h == Head(todo)
<1>1. h \in Early
  BY Further DEF Left
<1>2. h.kind \in {"write", "flush", "verify"} /\ h.undo = <<>>
  BY <1>1 DEF Early, Simple
<1> HIDE DEF h
<1>3. Allowed(h)
  BY <1>2, HarmlessAllowed DEF Harmless
<1>4. Sound'
  BY <1>3, FailKeeps DEF h
<1>5. todo' = <<>>
  BY <1>2, FailIs DEF h
<1> QED
  BY <1>4, <1>5, NothingLeft

\* A step of the plan itself.
LEMMA MainSteps ==
    ASSUME Sound, Do, NEW p \in Seq(Steps), Follows(todo, p), Left <= Len(p),
           NEW h, h = Head(todo), h.kind \notin {"write", "remove"}, Allowed(h)
    PROVE  /\ Sound' /\ Left' = Left - 1 /\ Left \in Nat \ {0}
           /\ todo' = <<>> \/ Follows(todo', p)
<1>1. Sound' /\ todo' = Tail(todo)
  BY DoKeeps, DoIs
<1>2. /\ Len(Tail(todo)) = Len(todo) - 1 /\ Len(todo) \in Nat \ {0}
      /\ Tail(todo) = <<>> \/ Follows(Tail(todo), p)
  BY Further
<1> QED
  BY <1>1, <1>2 DEF Left

LEMMA PlanNext ==
    ASSUME NEW p \in Seq(Steps), Follows(todo, p)
    PROVE  /\ Left \in Nat \ {0} /\ Len(p) \in Nat
           /\ Left <= Len(p) => Head(todo) = p[Len(p) + 1 - Left]
  BY Further, LenProperties DEF Left

-----------------------------------------------------------------------------
(* Switching to another build. *)

LEMMA ChangingHead ==
    ASSUME Sound, NEW p \in Seq(Steps), NEW old \in Manifest, NEW b \in Builds,
           Changing(p, old, b), Left <= 7, NEW h, h = Head(todo)
    PROVE  /\ Left \in 1 .. 7 /\ Len(p) = 7 /\ Follows(todo, p)
           /\ Left = 7 => h = Step("verify", b)
           /\ Left = 6 => h = Stop
           /\ Left = 5 => h = Save(Switching(old, b))
           /\ Left = 4 => h = Undoing("configure", b, Restore(old, b))
           /\ Left = 3 => h = Undoing("start", None, Restore(old, b))
           /\ Left = 2 => h = Undoing("health", None, Restore(old, b))
           /\ Left = 1 => h = Save(Settled(Switching(old, b)))
<1>1. Follows(todo, p) /\ Switches(p, old, b)
  BY DEF Changing
<1>2. Left \in Nat \ {0} /\ Len(p) = 7 /\ h = p[8 - Left]
  <2>1. Len(p) = 7
    BY <1>1 DEF Switches
  <2>2. Left \in Nat \ {0} /\ h = p[Len(p) + 1 - Left]
    BY <1>1, <2>1, PlanNext
  <2>3. Len(p) + 1 - Left = 8 - Left
    BY <2>1, <2>2
  <2> QED
    BY <2>1, <2>2, <2>3
<1> QED
  BY <1>1, <1>2 DEF Switches

LEMMA ChangingAllowed ==
    ASSUME Sound, NEW p \in Seq(Steps), NEW old \in Manifest, NEW b \in Builds,
           Changing(p, old, b), Left <= 7, NEW h, h = Head(todo)
    PROVE  /\ Allowed(h) /\ h.kind \notin {"write", "remove"}
           /\ h.kind = "save" <=> Left \in {5, 1}
           /\ h.kind = "configure" <=> Left = 4
           /\ h.kind \notin {"create", "delete"}
           /\ Left = 7 => h.kind = "verify" /\ h.what = b
           /\ Left = 5 => h.what = Switching(old, b)
           /\ Left = 4 => h.what = b
           /\ h.undo = <<>> \/ (Left \in {4, 3, 2} /\ h.undo = Restore(old, b))
<1>1. /\ Left \in 1 .. 7
      /\ Whole(old.current) /\ (Left <= 6 => Whole(b)) /\ Installed
      /\ Left >= 4 => service.image = old.current
      /\ Left <= 3 => service.image = b
      /\ manifest = IF Left >= 5 THEN old ELSE Switching(old, b)
  BY ChangingHead DEF Changing
<1>2. Parameters
  BY DEF Sound
<1>3. CASE Left = 7
  <2>1. h = Step("verify", b)
    BY <1>3, ChangingHead
  <2> QED
    BY <1>3, <2>1 DEF Allowed, Step
<1>4. CASE Left = 6
  <2>1. h = Stop
    BY <1>4, ChangingHead
  <2> QED
    BY <1>4, <2>1 DEF Allowed, Step, Stop
<1>5. CASE Left = 5
  <2>1. h = Save(Switching(old, b))
    BY <1>5, ChangingHead
  <2>2. Fits(Switching(old, b))
    BY <1>1, <1>2, <1>5, FitsSwitched DEF Fits, Whole
  <2> QED
    BY <1>5, <2>1, <2>2 DEF Allowed, Step, Save
<1>6. CASE Left = 4
  <2>1. h = Undoing("configure", b, Restore(old, b))
    BY <1>6, ChangingHead
  <2>2. manifest.current = b /\ Fits(manifest) /\ Whole(b)
    <3>1. manifest = Switching(old, b) /\ Whole(b)
      BY <1>1, <1>6
    <3>2. Switching(old, b).current = b
      BY DEF Switching, Manifest
    <3> QED
      BY <1>1, <3>1, <3>2 DEF Sound
  <2> QED
    BY <1>6, <2>1, <2>2 DEF Allowed, Undoing
<1>7. CASE Left = 3
  <2>1. h = Undoing("start", None, Restore(old, b))
    BY <1>7, ChangingHead
  <2> QED
    BY <1>7, <2>1 DEF Allowed, Undoing
<1>8. CASE Left = 2
  <2>1. h = Undoing("health", None, Restore(old, b))
    BY <1>8, ChangingHead
  <2> QED
    BY <1>8, <2>1 DEF Allowed, Undoing
<1>9. CASE Left = 1
  <2>1. h = Save(Settled(Switching(old, b)))
    BY <1>9, ChangingHead
  <2>2. Fits(Settled(Switching(old, b)))
    BY <1>1, <1>2, <1>9, FitsSwitched DEF Fits, Whole
  <2> QED
    BY <1>9, <2>1, <2>2 DEF Allowed, Step, Save
<1> QED
  BY <1>1, <1>3, <1>4, <1>5, <1>6, <1>7, <1>8, <1>9

LEMMA ChangingGoes ==
    ASSUME Sound, NEW p \in Seq(Steps), NEW old \in Manifest, NEW b \in Builds,
           Changing(p, old, b), Do
    PROVE  Sound' /\ (todo' = <<>> \/ Changing(p, old, b)')
<1> DEFINE h == Head(todo)
<1>1. /\ Follows(todo, p) /\ Switches(p, old, b) /\ Len(p) = 7 /\ p # <<>>
      /\ old.current \in Builds /\ Left \in Nat \ {0}
  <2>1. Follows(todo, p) /\ Switches(p, old, b)
    BY DEF Changing
  <2>2. Len(p) = 7 /\ old.current \in Builds
    BY <2>1 DEF Switches, Manifest
  <2> QED
    BY <2>1, <2>2, PlanNext
<1>2. CASE Left > 7
  <2>1. /\ Sound' /\ Follows(todo', p) /\ Left' >= 7 /\ Left' \in Nat
        /\ manifest' = manifest /\ service'.image = service.image
        /\ \A x \in Builds : Whole(x) => payload'[x] = "whole"
    BY <1>1, <1>2, EarlySteps
  <2> QED
    BY <1>1, <1>2, <2>1 DEF Changing, Installed, Whole
<1>3. CASE Left <= 7
  <2>1. /\ Allowed(h) /\ h.kind \notin {"write", "remove"}
        /\ h.kind = "save" <=> Left \in {5, 1}
        /\ h.kind = "configure" <=> Left = 4
        /\ h.kind \notin {"create", "delete"}
        /\ Left = 7 => h.kind = "verify" /\ h.what = b
        /\ Left = 5 => h.what = Switching(old, b)
        /\ Left = 4 => h.what = b
    BY <1>3, ChangingAllowed
  <2> HIDE DEF h
  <2>2. /\ Sound' /\ Left' = Left - 1
        /\ todo' = <<>> \/ Follows(todo', p)
    BY <1>1, <1>3, <2>1, MainSteps DEF h
  <2>3. /\ Left = 5 => manifest' = Switching(old, b)
        /\ Left \notin {5, 1} => manifest' = manifest
        /\ Left = 4 => service'.image = b
        /\ Left # 4 => service'.image = service.image
        /\ Left = 7 => Whole(b)
        /\ \A x \in Builds : Whole(x) => payload'[x] = "whole"
    BY <2>1, DoIs DEF h
  <2>4. Left = 1 => todo' = <<>>
    BY <2>2, EmptySeq, LenProperties DEF Left, Follows
  <2>5. b # None
    BY DEF Sound, Parameters
  <2>6. CASE Left # 1 /\ Follows(todo', p)
    BY <1>1, <1>3, <2>2, <2>3, <2>5, <2>6 DEF Changing, Installed, Whole
  <2> QED
    BY <2>2, <2>4, <2>6
<1> QED
  BY <1>1, <1>2, <1>3

\* A switch that fails is undone.
LEMMA ChangingFails ==
    ASSUME Sound, NEW p \in Seq(Steps), NEW old \in Manifest, NEW b \in Builds,
           Changing(p, old, b), Fail \/ Die
    PROVE  Sound' /\ (Quiet(todo') \/ \E q \in Seq(Steps) : Undone(q, old, b)')
<1> DEFINE h == Head(todo)
<1>1. Follows(todo, p) /\ Len(p) = 7 /\ Left \in Nat \ {0}
  <2>1. Follows(todo, p) /\ Len(p) = 7
    BY DEF Changing, Switches
  <2> QED
    BY <2>1, PlanNext
<1>2. CASE Left > 7
  BY <1>1, <1>2, EarlyFails
<1>3. CASE Left <= 7
  <2>1. /\ Allowed(h) /\ h.kind # "create"
        /\ h.kind = "configure" => h.what = b
        /\ h.undo = <<>> \/ (Left \in {4, 3, 2} /\ h.undo = Restore(old, b))
    BY <1>3, ChangingAllowed
  <2> HIDE DEF h
  <2>2. Sound'
    BY <2>1, FailKeeps DEF h
  <2>3. todo' = <<>> \/ (Left \in {4, 3, 2} /\ todo' = Restore(old, b))
    BY <2>1, FailIs DEF h
  <2>4. CASE Left \in {4, 3, 2} /\ todo' = Restore(old, b)
    <3> DEFINE q == Restore(old, b)
    <3>1. q \in Seq(Steps) /\ Restores(q, old, b) /\ Len(q) = 7
      BY RestoreSteps DEF Restores
    <3> HIDE DEF q
    <3>2. q # <<>> /\ Follows(q, q)
      <4>1. q # <<>>
        BY <3>1, EmptySeq
      <4> QED
        BY <3>1, <4>1, BeginsAlone
    <3>3. /\ manifest' = manifest /\ payload' = payload
          /\ service'.image \in {service.image, b}
      <4>1. service \in [image : Builds \cup {None}, running : BOOLEAN]
        BY DEF Sound
      <4> QED
        BY <2>1, <4>1, FailIs DEF h
    <3>4. /\ Installed /\ Whole(old.current) /\ manifest = Switching(old, b) /\ b # None
      BY <2>4 DEF Changing, Sound, Parameters
    <3>5. todo' = q /\ Left' = 7
      BY <2>4, <3>1 DEF q, Left
    <3>6. Undone(q, old, b)'
      BY <3>1, <3>2, <3>3, <3>4, <3>5 DEF Undone, Installed, Whole
    <3> QED
      BY <2>2, <3>1, <3>6
  <2> QED
    BY <2>2, <2>3, <2>4, NothingLeft
<1> QED
  BY <1>1, <1>2, <1>3

-----------------------------------------------------------------------------
(* And back again. *)

LEMMA UndoneHead ==
    ASSUME Sound, NEW p \in Seq(Steps), NEW old \in Manifest, NEW b \in Builds,
           Undone(p, old, b), NEW h, h = Head(todo)
    PROVE  /\ Left \in 1 .. 7 /\ Len(p) = 7 /\ Follows(todo, p)
           /\ Left = 7 => h = Stop
           /\ Left = 6 => h = Step("verify", old.current)
           /\ Left = 5 => h = Save(Restoring(old, b))
           /\ Left = 4 => h = Step("configure", old.current)
           /\ Left = 3 => h = Step("start", None)
           /\ Left = 2 => h = Step("health", None)
           /\ Left = 1 => h = Save(Settled(Restoring(old, b)))
<1>1. Follows(todo, p) /\ Restores(p, old, b)
  BY DEF Undone
<1>2. Left \in 1 .. 7 /\ Len(p) = 7 /\ h = p[8 - Left]
  <2>1. Len(p) = 7 /\ Left <= 7
    BY <1>1 DEF Restores, Undone
  <2>2. Left \in Nat \ {0} /\ h = p[Len(p) + 1 - Left]
    BY <1>1, <2>1, PlanNext
  <2>3. Len(p) + 1 - Left = 8 - Left
    BY <2>1, <2>2
  <2> QED
    BY <2>1, <2>2, <2>3
<1> QED
  BY <1>1, <1>2 DEF Restores

LEMMA UndoneAllowed ==
    ASSUME Sound, NEW p \in Seq(Steps), NEW old \in Manifest, NEW b \in Builds,
           Undone(p, old, b), NEW h, h = Head(todo)
    PROVE  /\ Allowed(h) /\ h.kind \notin {"write", "remove"}
           /\ h.kind = "save" <=> Left \in {5, 1}
           /\ h.kind = "configure" <=> Left = 4
           /\ h.kind \notin {"create", "delete"}
           /\ Left = 5 => h.what = Restoring(old, b)
           /\ Left = 4 => h.what = old.current
           /\ h.undo = <<>>
<1>1. /\ Left \in 1 .. 7
      /\ Whole(old.current)
      /\ Left <= 3 => service.image = old.current
      /\ manifest = IF Left >= 5 THEN Switching(old, b) ELSE Restoring(old, b)
  BY UndoneHead DEF Undone
<1>2. Parameters /\ Fits(manifest)
  <2>1. Installed
    BY DEF Undone
  <2> QED
    BY <2>1 DEF Sound
<1>3. CASE Left = 7
  <2>1. h = Stop
    BY <1>3, UndoneHead
  <2> QED
    BY <1>3, <2>1 DEF Allowed, Step, Stop
<1>4. CASE Left = 6
  <2>1. h = Step("verify", old.current)
    BY <1>4, UndoneHead
  <2> QED
    BY <1>4, <2>1 DEF Allowed, Step
<1>5. CASE Left = 5
  <2>1. h = Save(Restoring(old, b))
    BY <1>5, UndoneHead
  <2>2. Fits(Restoring(old, b))
    BY <1>1, <1>2, <1>5, FitsRestored DEF Fits, Whole
  <2> QED
    BY <1>5, <2>1, <2>2 DEF Allowed, Step, Save
<1>6. CASE Left = 4
  <2>1. h = Step("configure", old.current)
    BY <1>6, UndoneHead
  <2>2. manifest.current = old.current
    <3>1. manifest = Restoring(old, b)
      BY <1>1, <1>6
    <3> QED
      BY <3>1 DEF Restoring, Manifest
  <2> QED
    BY <1>1, <1>2, <1>6, <2>1, <2>2 DEF Allowed, Step
<1>7. CASE Left = 3
  <2>1. h = Step("start", None)
    BY <1>7, UndoneHead
  <2> QED
    BY <1>7, <2>1 DEF Allowed, Step
<1>8. CASE Left = 2
  <2>1. h = Step("health", None)
    BY <1>8, UndoneHead
  <2> QED
    BY <1>8, <2>1 DEF Allowed, Step
<1>9. CASE Left = 1
  <2>1. h = Save(Settled(Restoring(old, b)))
    BY <1>9, UndoneHead
  <2>2. Fits(Settled(Restoring(old, b)))
    <3>1. /\ manifest = Restoring(old, b) /\ service.image = old.current
          /\ manifest \in Manifest
      BY <1>1, <1>2, <1>9 DEF Fits, FitsTo
    <3> QED
      BY <1>1, <1>2, <3>1, FitsSettled DEF Fits, Whole
  <2> QED
    BY <1>9, <2>1, <2>2 DEF Allowed, Step, Save
<1> QED
  BY <1>1, <1>3, <1>4, <1>5, <1>6, <1>7, <1>8, <1>9

LEMMA UndoneGoes ==
    ASSUME Sound, NEW p \in Seq(Steps), NEW old \in Manifest, NEW b \in Builds,
           Undone(p, old, b), Do \/ Fail \/ Die
    PROVE  Sound' /\ (todo' = <<>> \/ Undone(p, old, b)')
<1> DEFINE h == Head(todo)
<1>1. /\ Follows(todo, p) /\ Restores(p, old, b) /\ Len(p) = 7 /\ p # <<>>
      /\ old.current \in Builds /\ Left \in 1 .. 7
  <2>1. Follows(todo, p) /\ Restores(p, old, b) /\ old.current \in Builds
    BY DEF Undone, Manifest
  <2> QED
    BY <2>1, UndoneHead
<1>2. /\ Allowed(h) /\ h.kind \notin {"write", "remove"}
      /\ h.kind = "save" <=> Left \in {5, 1}
      /\ h.kind = "configure" <=> Left = 4
      /\ h.kind \notin {"create", "delete"}
      /\ Left = 5 => h.what = Restoring(old, b)
      /\ Left = 4 => h.what = old.current
      /\ h.undo = <<>>
  BY UndoneAllowed
<1> HIDE DEF h
<1>3. CASE Fail \/ Die
  <2>1. Sound'
    BY <1>2, <1>3, FailKeeps DEF h
  <2>2. todo' = <<>>
    BY <1>2, <1>3, FailIs DEF h
  <2> QED
    BY <2>1, <2>2
<1>4. CASE Do
  <2>2. /\ Sound' /\ Left' = Left - 1
        /\ todo' = <<>> \/ Follows(todo', p)
    <3>1. Left <= Len(p)
      BY <1>1
    <3> QED
      BY <1>1, <1>2, <1>4, <3>1, MainSteps DEF h
  <2>3. /\ Left = 5 => manifest' = Restoring(old, b)
        /\ Left \notin {5, 1} => manifest' = manifest
        /\ Left = 4 => service'.image = old.current
        /\ Left # 4 => service'.image = service.image
        /\ \A x \in Builds : Whole(x) => payload'[x] = "whole"
    BY <1>2, <1>4, DoIs DEF h
  <2>4. Left = 1 => todo' = <<>>
    BY <2>2, EmptySeq, LenProperties DEF Left, Follows
  <2>5. old.current # None
    BY <1>1 DEF Sound, Parameters
  <2>6. CASE Left # 1 /\ Follows(todo', p)
    BY <1>1, <2>2, <2>3, <2>5, <2>6 DEF Undone, Installed, Whole
  <2> QED
    BY <2>2, <2>4, <2>6
<1> QED
  BY <1>3, <1>4

-----------------------------------------------------------------------------
(* Installing. *)

LEMMA InstallingHead ==
    ASSUME Sound, NEW p \in Seq(Steps), NEW b \in Builds,
           Installing(p, b), NEW h, h = Head(todo)
    PROVE  /\ Left \in 1 .. 10 /\ Len(p) = 10 /\ Follows(todo, p)
           /\ Left = 10 => h = Step("roots", None)
           /\ Left = 9 => h = Step("write", b)
           /\ Left = 8 => h = Step("flush", b)
           /\ Left = 7 => h = Step("verify", b)
           /\ Left = 6 => h = Save(New(b))
           /\ Left = 5 => h = Step("verify", b)
           /\ Left = 4 => h = Step("create", b)
           /\ Left = 3 => h = Undoing("start", None, <<Stop, Delete>>)
           /\ Left = 2 => h = Undoing("health", None, <<Stop, Delete>>)
           /\ Left = 1 => h = Save(Settled(New(b)))
<1>1. Follows(todo, p) /\ Installs(p, b) /\ Left <= 10
  BY DEF Installing
<1>2. Left \in 1 .. 10 /\ Len(p) = 10 /\ h = p[11 - Left]
  <2>1. Len(p) = 10 /\ Left <= 10
    BY <1>1 DEF Installs
  <2>2. Left \in Nat \ {0} /\ h = p[Len(p) + 1 - Left]
    BY <1>1, <2>1, PlanNext
  <2>3. Len(p) + 1 - Left = 11 - Left
    BY <2>1, <2>2
  <2> QED
    BY <2>1, <2>2, <2>3
<1> QED
  BY <1>1, <1>2 DEF Installs

LEMMA InstallingAllowed ==
    ASSUME Sound, NEW p \in Seq(Steps), NEW b \in Builds,
           Installing(p, b), NEW h, h = Head(todo)
    PROVE  /\ Allowed(h) /\ h.kind # "remove"
           /\ h.kind = "save" <=> Left \in {6, 1}
           /\ h.kind = "create" <=> Left = 4
           /\ h.kind = "write" <=> Left = 9
           /\ h.kind \notin {"configure", "delete"}
           /\ Left = 7 => h.kind = "verify" /\ h.what = b
           /\ Left = 6 => h.what = New(b)
           /\ Quiet(h.undo)
<1>1. /\ Left \in 1 .. 10
      /\ Left >= 4 => ~Installed
      /\ Left <= 6 => Whole(b)
      /\ Left <= 5 => manifest = New(b)
  BY InstallingHead DEF Installing
<1>2. Parameters /\ (manifest = None \/ Fits(manifest)) /\ (Installed => Fits(manifest))
  BY DEF Sound
<1> USE NothingLeft, QuietUndo
<1>3. CASE Left \in {10, 9, 8, 7}
  <2>1. CASE Left = 10
    <3>1. h = Step("roots", None)
      BY <2>1, InstallingHead
    <3> QED
      BY <2>1, <3>1 DEF Allowed, Step
  <2>2. CASE Left = 9
    <3>1. h = Step("write", b)
      BY <2>2, InstallingHead
    <3> QED
      BY <2>2, <3>1 DEF Allowed, Step
  <2>3. CASE Left = 8
    <3>1. h = Step("flush", b)
      BY <2>3, InstallingHead
    <3> QED
      BY <2>3, <3>1 DEF Allowed, Step
  <2>4. CASE Left = 7
    <3>1. h = Step("verify", b)
      BY <2>4, InstallingHead
    <3> QED
      BY <2>4, <3>1 DEF Allowed, Step
  <2> QED
    BY <1>3, <2>1, <2>2, <2>3, <2>4
<1>4. CASE Left = 6
  <2>1. h = Save(New(b))
    BY <1>4, InstallingHead
  <2>2. Fits(New(b))
    <3>1. payload[b] = "whole" /\ service.image = None
      BY <1>1, <1>4 DEF Whole, Installed
    <3> QED
      BY <1>2, <3>1, FitsNew DEF Fits
  <2> QED
    BY <1>4, <2>1, <2>2 DEF Allowed, Step, Save
<1>5. CASE Left = 5
  <2>1. h = Step("verify", b)
    BY <1>5, InstallingHead
  <2> QED
    BY <1>5, <2>1 DEF Allowed, Step
<1>6. CASE Left = 4
  <2>1. h = Step("create", b)
    BY <1>6, InstallingHead
  <2>2. manifest = New(b) /\ Whole(b) /\ service.image = None
    BY <1>1, <1>6 DEF Installed
  <2>3. Fits(manifest)
    BY <1>2, <2>2, FitsNew DEF Fits, Whole
  <2>4. manifest.current = b
    BY <2>2 DEF New
  <2> QED
    BY <1>6, <2>1, <2>2, <2>3, <2>4 DEF Allowed, Step
<1>7. CASE Left = 3
  <2>1. h = Undoing("start", None, <<Stop, Delete>>)
    BY <1>7, InstallingHead
  <2> QED
    BY <1>7, <2>1 DEF Allowed, Undoing
<1>8. CASE Left = 2
  <2>1. h = Undoing("health", None, <<Stop, Delete>>)
    BY <1>8, InstallingHead
  <2> QED
    BY <1>8, <2>1 DEF Allowed, Undoing
<1>9. CASE Left = 1
  <2>1. h = Save(Settled(New(b)))
    BY <1>9, InstallingHead
  <2>2. Fits(Settled(New(b)))
    <3>1. manifest = New(b) /\ payload[b] = "whole"
      BY <1>1, <1>9 DEF Whole
    <3>2. service.image \in {None, b}
      <4>1. service.image # None => service.image \in {New(b).current, New(b).previous}
        BY <1>2, <3>1 DEF Fits, FitsTo, Installed
      <4>2. New(b).current = b /\ New(b).previous = None
        BY DEF New
      <4> QED
        BY <4>1, <4>2
    <3> QED
      BY <1>2, <3>1, <3>2, FitsNew DEF Fits
  <2> QED
    BY <1>9, <2>1, <2>2 DEF Allowed, Step, Save
<1> QED
  BY <1>1, <1>3, <1>4, <1>5, <1>6, <1>7, <1>8, <1>9

LEMMA InstallingGoes ==
    ASSUME Sound, NEW p \in Seq(Steps), NEW b \in Builds,
           Installing(p, b), Do \/ Fail \/ Die
    PROVE  Sound' /\ (Quiet(todo') \/ Installing(p, b)')
<1> DEFINE h == Head(todo)
<1>1. /\ Follows(todo, p) /\ Installs(p, b) /\ Len(p) = 10 /\ Left \in 1 .. 10
  <2>1. Follows(todo, p) /\ Installs(p, b)
    BY DEF Installing
  <2> QED
    BY <2>1, InstallingHead
<1>2. /\ Allowed(h) /\ h.kind # "remove"
      /\ h.kind = "save" <=> Left \in {6, 1}
      /\ h.kind = "create" <=> Left = 4
      /\ h.kind = "write" <=> Left = 9
      /\ h.kind \notin {"configure", "delete"}
      /\ Left = 7 => h.kind = "verify" /\ h.what = b
      /\ Left = 6 => h.what = New(b)
      /\ Quiet(h.undo)
  BY InstallingAllowed
<1> HIDE DEF h
<1>3. CASE Fail \/ Die
  <2>1. Sound'
    BY <1>2, <1>3, FailKeeps DEF h
  <2>2. todo' = <<>> \/ todo' = h.undo
    BY <1>3, FailIs DEF h
  <2> QED
    BY <1>2, <2>1, <2>2, NothingLeft
<1>4. CASE Do
  <2>1. Sound'
    BY <1>2, <1>4, DoKeeps DEF h
  <2>2. \/ Left' = Left - 1 /\ (todo' = <<>> \/ Follows(todo', p))
        \/ Left = 9 /\ Left' = 7 /\ Follows(todo', p)
    <3> DEFINE t == Tail(todo)
    <3>1. Len(t) = Left - 1 /\ (t = <<>> \/ Follows(t, p))
      BY <1>1, Further DEF Left
    <3> HIDE DEF t
    <3>2. Left = 9 => Follows(t, p)
      <4>1. t = <<>> => Len(t) = 0
        BY NothingIsShort
      <4>2. Left = 9 => Len(t) = 8
        BY <1>1, <3>1
      <4> QED
        BY <3>1, <4>1, <4>2
    <3>3. Left = 9 => Len(Tail(t)) = 7 /\ (Tail(t) = <<>> \/ Follows(Tail(t), p))
      BY <1>1, <3>1, <3>2, Further
    <3>4. todo' = t \/ (Left = 9 /\ todo' = Tail(t))
      <4>1. CASE h.kind = "write"
        <5>1. todo' = t \/ todo' = Tail(t)
          BY <1>4, <4>1, DoIs DEF h, t
        <5> QED
          BY <1>2, <4>1, <5>1
      <4>2. CASE h.kind # "write"
        BY <1>2, <1>4, <4>2, DoIs DEF h, t
      <4> QED
        BY <4>1, <4>2
    <3>5. CASE todo' = t
      BY <3>1, <3>5 DEF Left
    <3>6. CASE Left = 9 /\ todo' = Tail(t)
      <4>1. Len(todo') = 7 /\ (todo' = <<>> \/ Follows(todo', p))
        BY <3>3, <3>6
      <4>2. todo' # <<>>
        BY <4>1, NothingIsShort
      <4> QED
        BY <3>6, <4>1, <4>2 DEF Left
    <3> QED
      BY <3>4, <3>5, <3>6
  <2>3. /\ Left = 6 => manifest' = New(b)
        /\ Left \notin {6, 1} => manifest' = manifest
        /\ Left # 4 => service'.image = service.image
        /\ Left = 7 => Whole(b)
        /\ \A x \in Builds : Whole(x) => payload'[x] = "whole"
    BY <1>2, <1>4, DoIs DEF h
  <2>4. Left = 1 => todo' = <<>>
    BY <1>1, <2>2, EmptySeq, LenProperties DEF Left, Follows
  <2>5. b # None
    BY DEF Sound, Parameters
  <2>6. CASE Left # 1 /\ Follows(todo', p)
    <3>1. /\ Left' \in 1 .. 9
          /\ Left' >= 4 => Left > 4
          /\ Left' <= 6 => Left <= 7
          /\ Left' <= 5 => Left <= 6
      BY <1>1, <2>2, <2>6
    <3>2. Left' >= 4 => ~Installed'
      BY <1>1, <2>3, <3>1 DEF Installing, Installed
    <3>3. Left' <= 6 => Whole(b)'
      BY <1>1, <2>3, <3>1 DEF Installing, Whole
    <3>4. Left' <= 5 => manifest' = New(b)
      BY <1>1, <2>3, <2>6, <3>1 DEF Installing
    <3> QED
      BY <1>1, <2>1, <2>6, <3>1, <3>2, <3>3, <3>4 DEF Installing
  <2> QED
    BY <1>1, <2>1, <2>2, <2>4, <2>6, NothingLeft
<1> QED
  BY <1>3, <1>4

-----------------------------------------------------------------------------
(* Repairing. *)

LEMMA MendingHead ==
    ASSUME Sound, NEW p \in Seq(Steps), NEW m \in Manifest,
           Mending(p, m), Left <= 7, NEW h, h = Head(todo)
    PROVE  /\ Left \in 1 .. 7 /\ Len(p) = 7 /\ Follows(todo, p)
           /\ Left = 7 => h = Stop
           /\ Left = 6 => h = Step("verify", Mended(m).current)
           /\ Left = 5 => h = Save(Mended(m))
           /\ Left = 4 => h \in {Step("create", Mended(m).current),
                                 Step("configure", Mended(m).current)}
           /\ Left = 3 => h = Undoing("start", None, <<Stop>>)
           /\ Left = 2 => h = Undoing("health", None, <<Stop>>)
           /\ Left = 1 => h = Save(MendedAgain(m))
<1>1. Follows(todo, p) /\ Repairs(p, m)
  BY DEF Mending
<1>2. Left \in 1 .. 7 /\ Len(p) = 7 /\ h = p[8 - Left]
  <2>1. Len(p) = 7 /\ Left <= 7
    BY <1>1 DEF Repairs
  <2>2. Left \in Nat \ {0} /\ h = p[Len(p) + 1 - Left]
    BY <1>1, <2>1, PlanNext
  <2>3. Len(p) + 1 - Left = 8 - Left
    BY <2>1, <2>2
  <2> QED
    BY <2>1, <2>2, <2>3
<1> QED
  BY <1>1, <1>2 DEF Repairs

LEMMA MendingAllowed ==
    ASSUME Sound, NEW p \in Seq(Steps), NEW m \in Manifest,
           Mending(p, m), Left <= 7, NEW h, h = Head(todo)
    PROVE  /\ Allowed(h) /\ h.kind \notin {"write", "remove", "delete"}
           /\ h.kind = "save" <=> Left \in {5, 1}
           /\ h.kind \in {"create", "configure"} <=> Left = 4
           /\ Left = 6 => h.kind = "verify" /\ h.what = Mended(m).current
           /\ Left = 5 => h.what = Mended(m)
           /\ Left = 4 => h.what = Mended(m).current
           /\ Quiet(h.undo)
<1>1. /\ Left \in 1 .. 7
      /\ Left <= 5 => Whole(Mended(m).current)
      /\ Left <= 3 => service.image = Mended(m).current
      /\ manifest = IF Left >= 5 THEN m ELSE Mended(m)
      /\ Fits(manifest)
  BY MendingHead DEF Mending
<1>2. Parameters
  BY DEF Sound
<1> USE NothingLeft, QuietUndo
<1>3. CASE Left = 7
  <2>1. h = Stop
    BY <1>3, MendingHead
  <2> QED
    BY <1>3, <2>1 DEF Allowed, Step, Stop
<1>4. CASE Left = 6
  <2>1. h = Step("verify", Mended(m).current)
    BY <1>4, MendingHead
  <2> QED
    BY <1>4, <2>1 DEF Allowed, Step
<1>5. CASE Left = 5
  <2>1. h = Save(Mended(m))
    BY <1>5, MendingHead
  <2>2. Fits(Mended(m))
    BY <1>1, <1>2, <1>5, FitsMended DEF Fits, Whole
  <2> QED
    BY <1>5, <2>1, <2>2 DEF Allowed, Step, Save
<1>6. CASE Left = 4
  <2>1. /\ h.kind \in {"create", "configure"} /\ h.what = Mended(m).current
        /\ h.undo = <<>>
    <3>1. h \in {Step("create", Mended(m).current), Step("configure", Mended(m).current)}
      BY <1>6, MendingHead
    <3> QED
      BY <3>1 DEF Step
  <2>2. manifest = Mended(m) /\ Whole(Mended(m).current)
    BY <1>1, <1>6
  <2> QED
    BY <1>1, <1>6, <2>1, <2>2 DEF Allowed
<1>7. CASE Left = 3
  <2>1. h = Undoing("start", None, <<Stop>>)
    BY <1>7, MendingHead
  <2> QED
    BY <1>7, <2>1 DEF Allowed, Undoing
<1>8. CASE Left = 2
  <2>1. h = Undoing("health", None, <<Stop>>)
    BY <1>8, MendingHead
  <2> QED
    BY <1>8, <2>1 DEF Allowed, Undoing
<1>9. CASE Left = 1
  <2>1. h = Save(MendedAgain(m))
    BY <1>9, MendingHead
  <2>2. Fits(MendedAgain(m))
    <3>1. service.image = Mended(m).current /\ payload[Mended(m).current] = "whole"
      BY <1>1, <1>9 DEF Whole
    <3> QED
      BY <3>1, FitsAgain DEF Fits
  <2> QED
    BY <1>9, <2>1, <2>2 DEF Allowed, Step, Save
<1> QED
  BY <1>1, <1>3, <1>4, <1>5, <1>6, <1>7, <1>8, <1>9

LEMMA MendingGoes ==
    ASSUME Sound, NEW p \in Seq(Steps), NEW m \in Manifest,
           Mending(p, m), Do \/ Fail \/ Die
    PROVE  Sound' /\ (Quiet(todo') \/ Mending(p, m)')
<1> DEFINE h == Head(todo)
<1>1. /\ Follows(todo, p) /\ Repairs(p, m) /\ Len(p) = 7 /\ p # <<>>
      /\ Mended(m).current \in Builds /\ Left \in Nat \ {0}
  <2>1. Follows(todo, p) /\ Repairs(p, m) /\ Len(p) = 7
    BY DEF Mending, Repairs
  <2>2. p # <<>>
    <3>1. p = <<>> => Len(p) = 0
      BY NothingIsShort
    <3> QED
      BY <2>1, <3>1
  <2> QED
    BY <2>1, <2>2, PlanNext, MendedTyped
<1>2. CASE Left > 7
  <2>1. CASE Do
    <3>1. /\ Sound' /\ Follows(todo', p) /\ Left' >= 7 /\ Left' \in Nat
          /\ manifest' = manifest /\ service'.image = service.image
          /\ \A x \in Builds : Whole(x) => payload'[x] = "whole"
      BY <1>1, <1>2, <2>1, EarlySteps
    <3>2. Fits(manifest)'
      <4>1. FitsTo(manifest, payload, service.image)
        BY DEF Mending, Fits
      <4> QED
        BY <3>1, <4>1, FitsWithMore DEF Fits, Whole
    <3> QED
      BY <1>1, <1>2, <3>1, <3>2 DEF Mending
  <2>2. CASE Fail \/ Die
    BY <1>1, <1>2, <2>2, EarlyFails
  <2> QED
    BY <2>1, <2>2
<1>3. CASE Left <= 7
  <2>1. /\ Allowed(h) /\ h.kind \notin {"write", "remove", "delete"}
        /\ h.kind = "save" <=> Left \in {5, 1}
        /\ h.kind \in {"create", "configure"} <=> Left = 4
        /\ Left = 6 => h.kind = "verify" /\ h.what = Mended(m).current
        /\ Left = 5 => h.what = Mended(m)
        /\ Left = 4 => h.what = Mended(m).current
        /\ Quiet(h.undo)
    BY <1>3, MendingAllowed
  <2> HIDE DEF h
  <2>2. CASE Fail \/ Die
    <3>1. Sound'
      BY <2>1, <2>2, FailKeeps DEF h
    <3>2. todo' = <<>> \/ todo' = h.undo
      BY <2>2, FailIs DEF h
    <3> QED
      BY <2>1, <3>1, <3>2, NothingLeft
  <2>3. CASE Do
    <3>1. /\ Sound' /\ Left' = Left - 1
          /\ todo' = <<>> \/ Follows(todo', p)
      <4>1. Left <= Len(p)
        BY <1>1, <1>3
      <4> QED
        BY <1>1, <2>1, <2>3, <4>1, MainSteps DEF h
    <3>2. /\ Left = 5 => manifest' = Mended(m)
          /\ Left \notin {5, 1} => manifest' = manifest
          /\ Left = 4 => service'.image = Mended(m).current
          /\ Left # 4 => service'.image = service.image
          /\ Left = 6 => Whole(Mended(m).current)
          /\ \A x \in Builds : Whole(x) => payload'[x] = "whole"
      BY <2>1, <2>3, DoIs DEF h
    <3>3. Left = 1 => todo' = <<>>
      BY <3>1, EmptySeq, LenProperties DEF Left, Follows
    <3>4. Fits(manifest)'
      <4>1. Fits(manifest)
        BY DEF Mending
      <4> QED
        BY <2>1, <2>3, <4>1, FitsOn DEF h, Fits
    <3>5. CASE Left # 1 /\ Follows(todo', p)
      <4>1. Left' <= 5 => payload'[Mended(m).current] = "whole"
        BY <1>1, <1>3, <3>1, <3>2 DEF Mending
      <4> QED
        BY <1>1, <1>3, <3>1, <3>2, <3>4, <3>5, <4>1 DEF Mending, Whole
    <3> QED
      BY <3>1, <3>3, <3>5, NothingLeft
  <2> QED
    BY <2>2, <2>3
<1> QED
  BY <1>1, <1>2, <1>3

-----------------------------------------------------------------------------
(* Removing. *)

LEMMA CheckingIs ==
    /\ Checking.undo = <<>>
    /\ Checking.kind \notin {"write", "save", "create", "configure", "delete", "remove"}
<1>1. Checking.undo = <<>> /\ Checking.kind = "verify all"
  BY Zenon DEF Checking, Step
<1> QED
  BY <1>1

LEMMA RemovingAllowed ==
    ASSUME Sound, NEW p \in Seq(Steps), NEW m \in Manifest,
           Removing(p, m), NEW h, h = Head(todo)
    PROVE  /\ Left \in 1 .. 5 /\ Len(p) = 5 /\ Follows(todo, p)
           /\ Allowed(h) /\ h.kind \notin {"write", "create", "configure"} /\ h.undo = <<>>
           /\ h.kind = "save" <=> Left = 3
           /\ h.kind = "remove" <=> Left = 1
           /\ h.kind = "delete" <=> Left = 4
           /\ Left = 3 => h.what = Retained(m)
<1>1. Follows(todo, p) /\ Removes(p, m)
  BY DEF Removing
<1>2. Left \in 1 .. 5 /\ Len(p) = 5 /\ h = p[6 - Left]
  <2>1. Len(p) = 5 /\ Left <= 5
    BY <1>1 DEF Removes, Removing
  <2>2. Left \in Nat \ {0} /\ h = p[Len(p) + 1 - Left]
    BY <1>1, <2>1, PlanNext
  <2>3. Len(p) + 1 - Left = 6 - Left
    BY <2>1, <2>2
  <2> QED
    BY <2>1, <2>2, <2>3
<1>3. /\ Left <= 3 => ~Installed
      /\ manifest = IF Left >= 3 THEN m ELSE Retained(m)
  BY DEF Removing
<1>4. CASE Left = 5
  <2>1. h = Stop
    BY <1>1, <1>2, <1>4 DEF Removes
  <2> QED
    BY <1>1, <1>2, <1>4, <2>1 DEF Allowed, Stop, Step
<1>5. CASE Left = 4
  <2>1. h = Delete
    BY <1>1, <1>2, <1>5 DEF Removes
  <2> QED
    BY <1>1, <1>2, <1>5, <2>1 DEF Allowed, Delete, Step
<1>6. CASE Left = 3
  <2>1. h = Save(Retained(m))
    BY <1>1, <1>2, <1>6 DEF Removes
  <2>2. Fits(Retained(m))
    <3>1. service.image = None
      BY <1>3, <1>6 DEF Installed
    <3> QED
      BY <3>1, FitsRetained DEF Fits
  <2> QED
    BY <1>1, <1>2, <1>6, <2>1, <2>2 DEF Allowed, Save, Step
<1>7. CASE Left = 2
  <2>1. h = Checking
    BY <1>1, <1>2, <1>7 DEF Removes
  <2> QED
    BY <1>1, <1>2, <1>7, <2>1, CheckingIs DEF Allowed
<1>8. CASE Left = 1
  <2>1. h = Step("remove", None)
    BY <1>1, <1>2, <1>8 DEF Removes
  <2>2. Fits(manifest) /\ manifest.uninstalled /\ ~Installed
    <3>1. manifest = Retained(m) /\ service.image = None /\ ~Installed
      BY <1>3, <1>8 DEF Installed
    <3> QED
      BY <3>1, FitsRetained DEF Fits
  <2> QED
    BY <1>1, <1>2, <1>8, <2>1, <2>2 DEF Allowed, Step
<1> QED
  BY <1>2, <1>4, <1>5, <1>6, <1>7, <1>8

LEMMA RemovingGoes ==
    ASSUME Sound, NEW p \in Seq(Steps), NEW m \in Manifest,
           Removing(p, m), Do \/ Fail \/ Die
    PROVE  Sound' /\ (todo' = <<>> \/ Removing(p, m)')
<1> DEFINE h == Head(todo)
<1>1. Removes(p, m)
  BY DEF Removing
<1>2. /\ Left \in 1 .. 5 /\ Len(p) = 5 /\ Follows(todo, p)
      /\ Allowed(h) /\ h.kind \notin {"write", "create", "configure"} /\ h.undo = <<>>
      /\ h.kind = "save" <=> Left = 3
      /\ h.kind = "remove" <=> Left = 1
      /\ h.kind = "delete" <=> Left = 4
      /\ Left = 3 => h.what = Retained(m)
  BY RemovingAllowed
<1> HIDE DEF h
<1>3. CASE Fail \/ Die
  <2>1. Sound'
    BY <1>2, <1>3, FailKeeps DEF h
  <2>2. todo' = <<>>
    BY <1>2, <1>3, FailIs DEF h
  <2> QED
    BY <2>1, <2>2
<1>4. CASE Do
  <2>1. Sound'
    BY <1>2, <1>4, DoKeeps DEF h
  <2>2. /\ Left = 3 => manifest' = Retained(m)
        /\ Left # 3 => manifest' = manifest
        /\ Left = 4 => service'.image = None
        /\ Left # 4 => service'.image = service.image
    BY <1>2, <1>4, DoIs DEF h
  <2>3. CASE Left # 1
    <3>1. Left' = Left - 1 /\ (todo' = <<>> \/ Follows(todo', p))
      <4>1. Left <= Len(p)
        BY <1>2
      <4> QED
        BY <1>2, <1>4, <2>3, <4>1, MainSteps DEF h
    <3>2. CASE Follows(todo', p)
      BY <1>1, <1>2, <2>1, <2>2, <2>3, <3>1, <3>2 DEF Removing, Installed
    <3> QED
      BY <2>1, <3>1, <3>2
  <2>4. CASE Left = 1
    <3> DEFINE t == Tail(todo)
    <3>1. Len(t) = 0 /\ (t = <<>> \/ Follows(t, p))
      BY <1>2, <2>4, Further DEF Left
    <3> HIDE DEF t
    <3>2. t = <<>>
      BY <3>1, EmptySeq, LenProperties DEF Follows
    <3>3. todo' = todo \/ todo' = t
      BY <1>2, <1>4, <2>4, DoIs DEF h, t
    <3>4. CASE todo' = todo
      <4>1. Left' = 1 /\ Follows(todo', p)
        BY <1>2, <2>4, <3>4 DEF Left
      <4> QED
        BY <1>1, <2>1, <2>2, <2>4, <4>1 DEF Removing, Installed
    <3> QED
      BY <2>1, <3>2, <3>3, <3>4
  <2> QED
    BY <2>3, <2>4
<1> QED
  BY <1>3, <1>4

-----------------------------------------------------------------------------
(* The requests. *)

LEMMA SoundStays ==
    ASSUME Sound, UNCHANGED <<installation, troubles>>
    PROVE  Sound'
<1>1. /\ roots' = roots /\ payload' = payload /\ manifest' = manifest
      /\ service' = service /\ troubles' = troubles
  BY DEF installation
<1> QED
  BY <1>1 DEF Sound, Parameters, Fits, Installed, Whole

LEMMA KnownFits ==
    ASSUME Sound, Known
    PROVE  Fits(manifest) /\ manifest \in Manifest /\ manifest.current \in Builds
<1>1. Fits(manifest)
  BY DEF Sound, Known
<1> QED
  BY <1>1 DEF Fits, FitsTo, Manifest

LEMMA QuietStage ==
    ASSUME NEW b \in Builds
    PROVE  Quiet(Stage(b))
<1>1. /\ Stage(b) \in Seq(Early) /\ Len(Stage(b)) = 3
      /\ \A i \in 1 .. 3 : Stage(b)[i].kind = "write" => i < 3
  BY StageTyped
<1>2. \A i \in 1 .. 3 : Stage(b)[i] \in Early
  BY <1>1, ElementOfSeq
<1>3. Stage(b) \in Seq(Simple)
  <2>1. Early \subseteq Simple
    BY DEF Early
  <2> QED
    BY <1>1, <2>1, SeqMonotonic
<1> QED
  BY <1>1, <1>2, <1>3 DEF Quiet, Early, Harmless

LEMMA InstallKeeps ==
    ASSUME IInv, NEW b \in Builds, Install(b)
    PROVE  IInv'
<1> DEFINE p == Installation(b)
<1>1. Installs(p, b)
  <2>1. None \notin Builds
    BY DEF IInv, Sound, Parameters
  <2> QED
    BY <2>1, InstalledSteps
<1>2. ~Installed /\ todo' = p /\ UNCHANGED <<installation, troubles>>
  BY DEF Install, Ask
<1> HIDE DEF p
<1>3. p \in Seq(Steps) /\ Len(p) = 10 /\ p # <<>>
  <2>1. p = <<>> => Len(p) = 0
    BY NothingIsShort
  <2> QED
    BY <1>1, <2>1 DEF Installs
<1>4. Follows(todo', p) /\ Left' = 10
  BY <1>2, <1>3, BeginsAlone DEF Left
<1>5. ~Installed'
  BY <1>2 DEF Installed, installation
<1>6. Installing(p, b)'
  BY <1>1, <1>4, <1>5 DEF Installing
<1>7. Sound'
  BY <1>2, SoundStays DEF IInv
<1> QED
  BY <1>3, <1>6, <1>7 DEF IInv, AtWork

\* With a prelude or none.
LEMMA SwitchBegins ==
    ASSUME IInv, NEW b \in Builds, NEW s \in Seq(Early), MaySwitch(manifest), Known,
           \A i \in 1 .. Len(s) : s[i].kind = "write" => i < Len(s),
           todo' = s \o Switched(manifest, b), UNCHANGED <<installation, troubles>>
    PROVE  IInv'
<1>1. Sound /\ Fits(manifest) /\ manifest \in Manifest /\ manifest.current \in Builds
  BY KnownFits DEF IInv
<1>2. PICK old \in Manifest : old = manifest
  BY <1>1
<1> DEFINE p == Switched(old, b)
<1>3. Switches(p, old, b)
  BY SwitchedSteps
<1>4. todo' = s \o p
  BY <1>2
<1> HIDE DEF p
<1>5. p \in Seq(Steps) /\ Len(p) = 7 /\ p # <<>>
  <2>1. p = <<>> => Len(p) = 0
    BY NothingIsShort
  <2> QED
    BY <1>3, <2>1 DEF Switches
<1>6. Follows(todo', p) /\ Left' >= 7 /\ Left' \in Nat
  <2>1. Len(s) \in Nat
    BY LenProperties
  <2>2. Follows(s \o p, p) /\ Len(s \o p) = Len(s) + Len(p)
    BY <1>5, Begins
  <2> QED
    BY <1>4, <1>5, <2>1, <2>2 DEF Left
<1>7. /\ ~old.pending /\ Installed /\ service.image = old.current /\ Whole(old.current)
  BY <1>1, <1>2 DEF MaySwitch, Fits, FitsTo, Sound, Installed
<1>8. /\ manifest' = old /\ service' = service /\ payload' = payload
  BY <1>2 DEF installation
<1>9. (Left <= 6 => Whole(b))' /\ (Left <= 3 => service.image = b)'
  BY <1>6
<1>10. Changing(p, old, b)'
  BY <1>3, <1>6, <1>7, <1>8 DEF Changing, Installed, Whole
<1>11. Sound'
  BY <1>1, SoundStays
<1> QED
  BY <1>5, <1>10, <1>11 DEF IInv, AtWork

LEMMA RepairBegins ==
    ASSUME IInv, NEW s \in Seq(Early), Known,
           \A i \in 1 .. Len(s) : s[i].kind = "write" => i < Len(s),
           todo' = s \o Repaired(manifest), UNCHANGED <<installation, troubles>>
    PROVE  IInv'
<1>1. Sound /\ Fits(manifest) /\ manifest \in Manifest /\ manifest.current \in Builds
  BY KnownFits DEF IInv
<1>2. PICK old \in Manifest : old = manifest
  BY <1>1
<1>3. Repairs(Repaired(old), old)
  BY RepairedSteps
<1>4. PICK p : p = Repaired(old)
  OBVIOUS
<1>5. Repairs(p, old) /\ todo' = s \o p
  BY <1>2, <1>3, <1>4
<1>6. p \in Seq(Steps) /\ Len(p) = 7 /\ p # <<>>
  <2>1. p = <<>> => Len(p) = 0
    BY NothingIsShort
  <2> QED
    BY <1>5, <2>1 DEF Repairs
<1>7. Follows(todo', p) /\ Left' >= 7 /\ Left' \in Nat
  <2>1. Len(s) \in Nat
    BY LenProperties
  <2>2. Follows(s \o p, p) /\ Len(s \o p) = Len(s) + Len(p)
    BY <1>6, Begins
  <2> QED
    BY <1>5, <1>6, <2>1, <2>2 DEF Left
<1>8. manifest' = old /\ service' = service /\ payload' = payload
  BY <1>2 DEF installation
<1>9. Fits(manifest)'
  BY <1>1, <1>2, <1>8 DEF Fits
<1>10. Mending(p, old)'
  BY <1>5, <1>7, <1>8, <1>9 DEF Mending
<1>11. Sound'
  BY <1>1, SoundStays
<1> QED
  BY <1>6, <1>10, <1>11 DEF IInv, AtWork

LEMMA QuietBegins ==
    ASSUME IInv, Quiet(todo'), UNCHANGED <<installation, troubles>>
    PROVE  IInv'
  BY SoundStays DEF IInv

LEMMA UpgradeKeeps ==
    ASSUME IInv, NEW b \in Builds, Upgrade(b)
    PROVE  IInv'
<1>1. /\ Known /\ UNCHANGED <<installation, troubles>>
      /\ todo' = Stage(b) \o IF MaySwitch(manifest) THEN Switched(manifest, b) ELSE <<>>
  BY DEF Upgrade, Ask
<1>2. CASE MaySwitch(manifest)
  BY <1>1, <1>2, StageTyped, SwitchBegins
<1>3. CASE ~MaySwitch(manifest)
  <2>1. todo' = Stage(b)
    BY <1>1, <1>3, StageTyped, ConcatEmptySeq
  <2> QED
    BY <1>1, <2>1, QuietStage, QuietBegins
<1> QED
  BY <1>2, <1>3

LEMMA RepairKeeps ==
    ASSUME IInv, NEW b \in Builds, Repair(b)
    PROVE  IInv'
<1> DEFINE s == IF b = manifest.current THEN Stage(b) ELSE <<>>
<1>1. /\ Known /\ UNCHANGED <<installation, troubles>>
      /\ todo' = s \o IF Trusted(manifest) THEN Repaired(manifest) ELSE <<>>
  BY DEF Repair, Ask
<1>2. /\ s \in Seq(Early) /\ Quiet(s)
      /\ \A i \in 1 .. Len(s) : s[i].kind = "write" => i < Len(s)
  <2>1. CASE b = manifest.current
    BY <2>1, StageTyped, QuietStage
  <2>2. CASE b # manifest.current
    <3>1. s = <<>>
      BY <2>2
    <3> HIDE DEF s
    <3>2. <<>> \in Seq(Early) /\ \A i \in 1 .. Len(<<>>) : FALSE
      BY EmptySeq, NothingIsShort
    <3> QED
      BY <3>1, <3>2, NothingLeft
  <2> QED
    BY <2>1, <2>2
<1>3. PICK q : q = s
  OBVIOUS
<1> HIDE DEF s
<1>4. CASE Trusted(manifest)
  <2>1. todo' = q \o Repaired(manifest)
    BY <1>1, <1>3, <1>4
  <2> QED
    BY <1>1, <1>2, <1>3, <2>1, RepairBegins
<1>5. CASE ~Trusted(manifest)
  <2>1. todo' = q
    BY <1>1, <1>2, <1>3, <1>5, ConcatEmptySeq
  <2> QED
    BY <1>1, <1>2, <1>3, <2>1, QuietBegins
<1> QED
  BY <1>4, <1>5

LEMMA RollbackKeeps ==
    ASSUME IInv, Rollback
    PROVE  IInv'
<1>1. /\ Known /\ manifest.previous # None /\ MaySwitch(manifest)
      /\ UNCHANGED <<installation, troubles>>
      /\ todo' = Switched(manifest, manifest.previous)
  BY DEF Rollback, Ask
<1>2. manifest \in Manifest
  BY <1>1, KnownFits DEF IInv
<1>3. manifest.previous \in Builds
  BY <1>1, <1>2 DEF Manifest
<1>4. PICK b \in Builds : b = manifest.previous
  BY <1>3
<1>5. Switched(manifest, b) \in Seq(Steps)
  BY <1>2, SwitchedSteps DEF Switches
<1>6. todo' = <<>> \o Switched(manifest, b)
  BY <1>1, <1>4, <1>5, ConcatEmptySeq
<1>7. <<>> \in Seq(Early) /\ \A i \in 1 .. Len(<<>>) : <<>>[i].kind = "write" => i < Len(<<>>)
  BY EmptySeq, NothingIsShort
<1> QED
  BY <1>1, <1>6, <1>7, SwitchBegins

LEMMA UninstallKeeps ==
    ASSUME IInv, Uninstall
    PROVE  IInv'
<1>1. Sound /\ Known /\ UNCHANGED <<installation, troubles>> /\ todo' = Removed(manifest)
  BY DEF Uninstall, Ask, IInv
<1>2. manifest \in Manifest
  BY <1>1, KnownFits
<1>3. PICK old \in Manifest : old = manifest
  BY <1>2
<1> DEFINE p == Removed(old)
<1>4. Removes(p, old) /\ todo' = p
  BY <1>1, <1>3, RemovedSteps
<1> HIDE DEF p
<1>5. p \in Seq(Steps) /\ Len(p) = 5 /\ p # <<>>
  <2>1. p = <<>> => Len(p) = 0
    BY NothingIsShort
  <2> QED
    BY <1>4, <2>1 DEF Removes
<1>6. Follows(todo', p) /\ Left' = 5
  BY <1>4, <1>5, BeginsAlone DEF Left
<1>7. manifest' = old
  BY <1>1, <1>3 DEF installation
<1>8. Removing(p, old)'
  BY <1>4, <1>6, <1>7 DEF Removing
<1>9. Sound'
  BY <1>1, SoundStays
<1> QED
  BY <1>5, <1>8, <1>9 DEF IInv, AtWork

LEMMA ServiceKeeps ==
    ASSUME IInv, StartService \/ StopService
    PROVE  IInv'
<1>1. CASE StopService
  BY <1>1, QuietUndo, QuietBegins DEF StopService, Ask
<1>2. CASE StartService
  <2> DEFINE v == Step("verify", manifest.current)
             q == <<v>> \o Begun
  <2>1. Known /\ todo' = q /\ UNCHANGED <<installation, troubles>>
    BY <1>2 DEF StartService, Ask
  <2>2. v \in Simple /\ v.kind = "verify"
    <3>1. manifest.current \in Builds
      BY <2>1, KnownFits DEF IInv
    <3>2. v \in Simple
      BY <3>1, StepsTyped DEF Objects, Kinds
    <3> QED
      BY <3>2 DEF Step
  <2> HIDE DEF v
  <2>3. <<v>> \in Seq(Simple) /\ Len(<<v>>) = 1 /\ <<v>>[1] = v
    BY <2>2
  <2>4. q \in Seq(Simple) /\ Paired(q, <<v>>, Begun)
    BY <2>3, BegunTyped, InTwo, Zenon
  <2> HIDE DEF q
  <2>5. /\ Len(q) = 3 /\ q[1].kind = "verify" /\ q[2].kind = "start" /\ q[3].kind = "health"
    BY <2>2, <2>3, <2>4, BegunTyped DEF Paired, Step
  <2>6. Quiet(q)
    BY <2>4, <2>5 DEF Quiet, Harmless
  <2> QED
    BY <2>1, <2>6, QuietBegins
<1> QED
  BY <1>1, <1>2

-----------------------------------------------------------------------------
(* The invariant holds, and what it says. *)

LEMMA InitInv ==
    ASSUME Parameters, Init
    PROVE  IInv
<1>1. /\ roots = FALSE /\ payload = [b \in Builds |-> "none"] /\ manifest = None
      /\ service = [image |-> None, running |-> FALSE] /\ todo = <<>> /\ troubles = 0
  BY DEF Init
<1>2. troubles \in 0 .. MaxTroubles
  BY <1>1 DEF Parameters
<1>3. service.image = None /\ ~service.running
      /\ service \in [image : Builds \cup {None}, running : BOOLEAN]
  BY <1>1
<1>4. Sound
  BY <1>1, <1>2, <1>3 DEF Sound, Installed
<1> QED
  BY <1>1, <1>4, NothingLeft DEF IInv

LEMMA PlanKeeps ==
    ASSUME Sound, NEW p \in Seq(Steps), AtWork(p), Do \/ Fail \/ Die
    PROVE  IInv'
<1>1. CASE \E b \in Builds : Installing(p, b)
  <2>1. PICK b \in Builds : Installing(p, b)
    BY <1>1
  <2>2. Sound' /\ (Quiet(todo') \/ Installing(p, b)')
    BY <2>1, InstallingGoes
  <2> QED
    BY <2>2 DEF IInv, AtWork
<1>2. CASE \E old \in Manifest, b \in Builds : Changing(p, old, b) \/ Undone(p, old, b)
  <2>1. PICK old \in Manifest, b \in Builds : Changing(p, old, b) \/ Undone(p, old, b)
    BY <1>2
  <2>2. CASE Changing(p, old, b) /\ Do
    <3>1. Sound' /\ (todo' = <<>> \/ Changing(p, old, b)')
      BY <2>2, ChangingGoes
    <3> QED
      BY <3>1, NothingLeft DEF IInv, AtWork
  <2>3. CASE Changing(p, old, b) /\ (Fail \/ Die)
    <3>1. Sound' /\ (Quiet(todo') \/ \E q \in Seq(Steps) : Undone(q, old, b)')
      BY <2>3, ChangingFails
    <3> QED
      BY <3>1 DEF IInv, AtWork
  <2>4. CASE Undone(p, old, b)
    <3>1. Sound' /\ (todo' = <<>> \/ Undone(p, old, b)')
      BY <2>4, UndoneGoes
    <3> QED
      BY <3>1, NothingLeft DEF IInv, AtWork
  <2> QED
    BY <2>1, <2>2, <2>3, <2>4
<1>3. CASE \E m \in Manifest : Mending(p, m) \/ Removing(p, m)
  <2>1. PICK m \in Manifest : Mending(p, m) \/ Removing(p, m)
    BY <1>3
  <2>2. CASE Mending(p, m)
    <3>1. Sound' /\ (Quiet(todo') \/ Mending(p, m)')
      BY <2>2, MendingGoes
    <3> QED
      BY <3>1 DEF IInv, AtWork
  <2>3. CASE Removing(p, m)
    <3>1. Sound' /\ (todo' = <<>> \/ Removing(p, m)')
      BY <2>3, RemovingGoes
    <3> QED
      BY <3>1, NothingLeft DEF IInv, AtWork
  <2> QED
    BY <2>1, <2>2, <2>3
<1> QED
  BY <1>1, <1>2, <1>3 DEF AtWork

LEMMA NextKeeps ==
    ASSUME IInv, [Next]_vars
    PROVE  IInv'
<1>1. CASE Next
  <2>1. CASE Do \/ Fail \/ Die
    <3>1. todo # <<>>
      BY <2>1 DEF Do, Fail, Die
    <3>2. CASE Quiet(todo)
      <4>1. Sound' /\ Quiet(todo')
        BY <2>1, <3>1, <3>2, QuietSteps DEF IInv
      <4> QED
        BY <4>1 DEF IInv
    <3>3. CASE \E p \in Seq(Steps) : AtWork(p)
      BY <2>1, <3>3, PlanKeeps DEF IInv
    <3> QED
      BY <3>2, <3>3 DEF IInv
  <2> QED
    BY <1>1, <2>1, InstallKeeps, UpgradeKeeps, RepairKeeps, RollbackKeeps,
       UninstallKeeps, ServiceKeeps DEF Next
<1>2. CASE UNCHANGED vars
  <2>1. UNCHANGED <<installation, troubles>> /\ todo' = todo
    BY <1>2 DEF vars, installation
  <2>2. Sound'
    BY <2>1, SoundStays DEF IInv
  <2>3. /\ payload' = payload /\ manifest' = manifest /\ service' = service
    BY <2>1 DEF installation
  <2>4. \A p \in Seq(Steps) : AtWork(p) => AtWork(p)'
    BY <2>1, <2>3 DEF AtWork, Installing, Changing, Undone, Mending, Removing,
       Left, Installed, Whole, Fits
  <2> QED
    BY <2>1, <2>2, <2>4 DEF IInv
<1> QED
  BY <1>1, <1>2

LEMMA InvTypeOK ==
    ASSUME IInv
    PROVE  TypeOK
<1>1. \A i \in DOMAIN todo : todo[i].kind \in Kinds
  <2>1. CASE Quiet(todo)
    <3>1. todo \in Seq(Simple)
      BY <2>1 DEF Quiet
    <3>2. \A i \in DOMAIN todo : todo[i] \in Simple
      BY <3>1, ElementOfSeq, LenProperties
    <3> QED
      BY <3>2 DEF Simple
  <2>2. CASE \E p \in Seq(Steps) : AtWork(p)
    <3>1. PICK p \in Seq(Steps) : AtWork(p)
      BY <2>2
    <3>2. Follows(todo, p)
      BY <3>1 DEF AtWork, Installing, Changing, Undone, Mending, Removing
    <3>3. \A i \in DOMAIN todo : todo[i] \in Steps
      BY <3>2, ElementOfSeq, LenProperties DEF Follows
    <3> QED
      BY <3>3 DEF Steps
  <2> QED
    BY <2>1, <2>2 DEF IInv
<1>2. manifest \in Manifest \cup {None}
  BY DEF IInv, Sound, Fits, FitsTo
<1> QED
  BY <1>1, <1>2 DEF IInv, Sound, TypeOK

LEMMA InvRepairable ==
    ASSUME IInv
    PROVE  AlwaysRepairable
<1>1. Sound
  BY DEF IInv
<1>2. CASE Known
  <2>1. Fits(manifest)
    BY <1>1, <1>2, KnownFits
  <2> QED
    BY <1>1, <2>1 DEF Sound, Fits, FitsTo, Installed, Whole, AlwaysRepairable
<1>3. CASE ~Known
  BY <1>1, <1>3 DEF Sound, Installed, Whole, AlwaysRepairable
<1> QED
  BY <1>2, <1>3

\* Wherever an installer stopped, whatever failed before, the next one finds
\* an installation it recognises and can mend: lifecycle.rs and mod.rs save the
\* manifest, copy, configure and start in an order that never leaves the
\* manifest, the payloads and the service at odds.
THEOREM Repairable ==
    ASSUME Parameters
    PROVE  Spec => [](TypeOK /\ AlwaysRepairable)
<1>1. Init => IInv
  BY InitInv
<1>2. IInv /\ [Next]_vars => IInv'
  BY NextKeeps
<1>3. IInv => TypeOK /\ AlwaysRepairable
  BY InvTypeOK, InvRepairable
<1> QED
  BY <1>1, <1>2, <1>3, PTL DEF Spec
=============================================================================
