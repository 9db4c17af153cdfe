----------------------------- MODULE SessionProofs -----------------------------
(***************************************************************************)
(* Proofs about the two sides of Session, for any number of threads, limit *)
(* of calls, calls of a response and length of the context.                *)
(*                                                                         *)
(* That a turn changes the computer once follows from how the three flags  *)
(* stand after each question (AskInv); that a request is well formed from  *)
(* which calls of the last assistant message are still unanswered          *)
(* (Closed), as trimming and errors see the messages between the calls.    *)
(*                                                                         *)
(* That the threads never wait for each other in a circle follows from an  *)
(* order of the mutexes (Rank) which every command keeps (Block), however  *)
(* it is put together, and from what a thread holds being what the rest of *)
(* its steps will drop (LocksInv).                                         *)
(***************************************************************************)
EXTENDS Session, SequenceTheorems, WellFoundedInduction, TLAPS

Serving == phase \in {"calling", "asking"}

\* The messages, with the last n calls of the last assistant message, and
\* no others, still without an answer.
Closed(context, n) ==
    /\ \A i \in DOMAIN context : context[i].role = "calls" =>
          /\ i + context[i].calls <= Len(context) + n
          /\ \A k \in 1 .. context[i].calls :
                i + k <= Len(context) => context[i + k].role = "tool"
    /\ \A i \in DOMAIN context : context[i].role = "tool" =>
          \E k \in 1 .. MaxCalls :
              i - k > 0 /\ context[i - k].role = "calls" /\ context[i - k].calls >= k
    /\ n > 0 => \E i \in DOMAIN context :
                    context[i].role = "calls" /\ i + context[i].calls = Len(context) + n

HasUser(context) == \E i \in DOMAIN context : context[i].role = "user"

Due == IF Serving /\ ~local THEN Len(calls) ELSE 0

MessagesInv ==
    /\ Closed(messages, Due)
    /\ phase = "requesting" \/ (Serving /\ ~local) => HasUser(messages)

\* How far the turn is, and what is left of its limits.
CallsInv ==
    /\ ~Serving => calls = <<>>
    /\ Serving => calls # <<>> /\ (local => Len(calls) = 1 /\ used = 0)
    /\ phase = "requesting" => ~local /\ used < ToolLimit
    /\ phase = "calling" /\ ~local => used + Len(calls) < ToolLimit + MaxCalls
    /\ phase = "asking" /\ ~local => used + Len(calls) <= ToolLimit + MaxCalls
    /\ Serving => Len(messages) + Due <= MaxHistory + MaxCalls + 1

\* Something was asked after which nothing may be asked.
Spent ==
    \E i \in DOMAIN asked :
        asked[i].tool \in {"app", "maint"} \/ asked[i].outcome \in {"no", "unknown"}

AskInv ==
    /\ OneChangePerTurn
    /\ asked # <<>> /\ phase # "ready" =>
          ~local /\ (Spent => blocked) /\ (desktop => appUsed /\ maintUsed)
    /\ phase = "asking" =>
          /\ Head(calls) \in Changing /\ ~Spent
          /\ Head(calls) \in {"app", "maint"} => asked = <<>>
          /\ ~local => /\ desktop => appUsed /\ maintUsed
                       /\ Head(calls) \in {"app", "maint"} => blocked

IInv == TypeOK /\ CallsInv /\ MessagesInv /\ AskInv

-----------------------------------------------------------------------------
(* Conversations. *)

LEMMA PlainIs ==
    /\ \A role \in {"user", "note", "answer", "tool"} :
          Plain(role) \in Message /\ Plain(role).role = role /\ Plain(role).calls = 0
    /\ \A m \in Message : m.calls \in Nat /\ (m.role = "calls" => m.calls \in 1 .. MaxCalls)
  BY BoundsAssumption DEF Plain, Message

LEMMA EmptyIsClosed == <<>> \in Seq(Message) /\ Closed(<<>>, 0) /\ Len(<<>>) = 0
  BY DEF Closed

LEMMA NoMessages ==
    ASSUME NEW c, c = <<>>
    PROVE  c \in Seq(Message) /\ Closed(c, 0) /\ Len(c) <= MaxHistory + MaxCalls + 3
<1>1. 0 <= MaxHistory + MaxCalls + 3
  BY BoundsAssumption
<1> QED
  BY <1>1, EmptyIsClosed, Zenon

\* The answer to a call.
LEMMA ClosedByTool ==
    ASSUME NEW c \in Seq(Message), NEW n \in Nat \ {0}, Closed(c, n)
    PROVE  /\ Append(c, Plain("tool")) \in Seq(Message)
           /\ Len(Append(c, Plain("tool"))) = Len(c) + 1
           /\ Closed(Append(c, Plain("tool")), n - 1)
           /\ HasUser(c) => HasUser(Append(c, Plain("tool")))
<1> DEFINE m == Plain("tool")
           d == Append(c, m)
<1>1. m \in Message /\ m.role = "tool"
  BY PlainIs
<1> HIDE DEF m
<1>2. /\ d \in Seq(Message) /\ Len(d) = Len(c) + 1 /\ d[Len(c) + 1] = m
      /\ \A i \in 1 .. Len(c) : d[i] = c[i]
      /\ DOMAIN d = 1 .. Len(c) + 1 /\ DOMAIN c = 1 .. Len(c) /\ Len(c) \in Nat
  BY <1>1, AppendProperties, LenProperties
<1> HIDE DEF d
<1>3. \A i \in 1 .. Len(c) : c[i].role = "calls" => c[i].calls \in 1 .. MaxCalls
  BY PlainIs, ElementOfSeq
<1>4. \A i \in DOMAIN d : d[i].role = "calls" =>
          /\ i + d[i].calls <= Len(d) + (n - 1)
          /\ \A k \in 1 .. d[i].calls : i + k <= Len(d) => d[i + k].role = "tool"
  <2> SUFFICES ASSUME NEW i \in DOMAIN d, d[i].role = "calls"
               PROVE  /\ i + d[i].calls <= Len(d) + (n - 1)
                      /\ \A k \in 1 .. d[i].calls : i + k <= Len(d) => d[i + k].role = "tool"
    OBVIOUS
  <2>1. i \in 1 .. Len(c) /\ d[i] = c[i]
    BY <1>1, <1>2
  <2>2. c[i].calls \in Nat /\ i + c[i].calls <= Len(c) + n
    BY <1>2, <1>3, <2>1, BoundsAssumption DEF Closed
  <2>3. \A k \in 1 .. c[i].calls : i + k <= Len(c) => c[i + k].role = "tool"
    BY <1>2, <2>1 DEF Closed
  <2> QED
    BY <1>1, <1>2, <2>1, <2>2, <2>3
<1>5. \A i \in DOMAIN d : d[i].role = "tool" =>
          \E k \in 1 .. MaxCalls : i - k > 0 /\ d[i - k].role = "calls" /\ d[i - k].calls >= k
  <2> SUFFICES ASSUME NEW i \in DOMAIN d, d[i].role = "tool"
               PROVE  \E k \in 1 .. MaxCalls :
                         i - k > 0 /\ d[i - k].role = "calls" /\ d[i - k].calls >= k
    OBVIOUS
  <2>1. CASE i \in 1 .. Len(c)
    <3>1. PICK k \in 1 .. MaxCalls : i - k > 0 /\ c[i - k].role = "calls" /\ c[i - k].calls >= k
      BY <1>2, <2>1 DEF Closed
    <3> QED
      BY <1>2, <2>1, <3>1, BoundsAssumption
  <2>2. CASE i = Len(c) + 1
    <3>1. PICK j \in 1 .. Len(c) : c[j].role = "calls" /\ j + c[j].calls = Len(c) + n
      BY <1>2 DEF Closed
    <3>2. /\ Len(c) + 1 - j \in 1 .. MaxCalls /\ c[j].calls >= Len(c) + 1 - j
          /\ d[j] = c[j] /\ i - (Len(c) + 1 - j) = j
      BY <1>2, <1>3, <2>2, <3>1, BoundsAssumption
    <3> QED
      BY <3>1, <3>2
  <2> QED
    BY <1>2, <2>1, <2>2
<1>6. n - 1 > 0 => \E i \in DOMAIN d :
                       d[i].role = "calls" /\ i + d[i].calls = Len(d) + (n - 1)
  <2>1. PICK j \in 1 .. Len(c) : c[j].role = "calls" /\ j + c[j].calls = Len(c) + n
    BY <1>2 DEF Closed
  <2>2. /\ j \in DOMAIN d /\ d[j] = c[j] /\ c[j].calls \in Nat
        /\ Len(c) + n = Len(d) + (n - 1)
    BY <1>2, <1>3, <2>1, BoundsAssumption
  <2> QED
    BY <2>1, <2>2
<1>7. HasUser(c) => HasUser(d)
  BY <1>2 DEF HasUser
<1>8. Closed(d, n - 1)
  BY <1>4, <1>5, <1>6 DEF Closed
<1> QED
  BY <1>2, <1>7, <1>8 DEF d, m

\* A message that neither calls nor answers a call.
LEMMA ClosedByWords ==
    ASSUME NEW c \in Seq(Message), Closed(c, 0), NEW role \in {"user", "note", "answer"}
    PROVE  /\ Append(c, Plain(role)) \in Seq(Message)
           /\ Len(Append(c, Plain(role))) = Len(c) + 1
           /\ Closed(Append(c, Plain(role)), 0)
           /\ role = "user" => HasUser(Append(c, Plain(role)))
<1> DEFINE m == Plain(role)
           d == Append(c, m)
<1>1. m \in Message /\ m.role = role
  BY PlainIs
<1> HIDE DEF m
<1>2. /\ d \in Seq(Message) /\ Len(d) = Len(c) + 1 /\ d[Len(c) + 1] = m
      /\ \A i \in 1 .. Len(c) : d[i] = c[i]
      /\ DOMAIN d = 1 .. Len(c) + 1 /\ DOMAIN c = 1 .. Len(c) /\ Len(c) \in Nat
  BY <1>1, AppendProperties, LenProperties
<1> HIDE DEF d
<1>3. \A i \in 1 .. Len(c) : c[i].role = "calls" => c[i].calls \in 1 .. MaxCalls
  BY PlainIs, ElementOfSeq
<1>4. \A i \in DOMAIN d : d[i].role = "calls" =>
          /\ i + d[i].calls <= Len(d) + 0
          /\ \A k \in 1 .. d[i].calls : i + k <= Len(d) => d[i + k].role = "tool"
  <2> SUFFICES ASSUME NEW i \in DOMAIN d, d[i].role = "calls"
               PROVE  /\ i + d[i].calls <= Len(d) + 0
                      /\ \A k \in 1 .. d[i].calls : i + k <= Len(d) => d[i + k].role = "tool"
    OBVIOUS
  <2>1. i \in 1 .. Len(c) /\ d[i] = c[i]
    BY <1>1, <1>2
  <2>2. c[i].calls \in Nat /\ i + c[i].calls <= Len(c)
    BY <1>2, <1>3, <2>1, BoundsAssumption DEF Closed
  <2>3. \A k \in 1 .. c[i].calls : i + k <= Len(c) => c[i + k].role = "tool"
    BY <1>2, <2>1 DEF Closed
  <2> QED
    BY <1>1, <1>2, <2>1, <2>2, <2>3
<1>5. \A i \in DOMAIN d : d[i].role = "tool" =>
          \E k \in 1 .. MaxCalls : i - k > 0 /\ d[i - k].role = "calls" /\ d[i - k].calls >= k
  <2> SUFFICES ASSUME NEW i \in DOMAIN d, d[i].role = "tool"
               PROVE  \E k \in 1 .. MaxCalls :
                         i - k > 0 /\ d[i - k].role = "calls" /\ d[i - k].calls >= k
    OBVIOUS
  <2>1. i \in 1 .. Len(c) /\ c[i].role = "tool"
    BY <1>1, <1>2
  <2>2. PICK k \in 1 .. MaxCalls : i - k > 0 /\ c[i - k].role = "calls" /\ c[i - k].calls >= k
    BY <1>2, <2>1 DEF Closed
  <2> QED
    BY <1>2, <2>1, <2>2, BoundsAssumption
<1>6. role = "user" => HasUser(d)
  BY <1>1, <1>2 DEF HasUser
<1>7. ~(0 > 0)
  OBVIOUS
<1>8. Closed(d, 0)
  BY <1>4, <1>5, <1>7 DEF Closed
<1> QED
  BY <1>2, <1>6, <1>8 DEF d, m

\* An assistant message with n calls.
LEMMA ClosedByCalls ==
    ASSUME NEW c \in Seq(Message), Closed(c, 0), NEW n \in 1 .. MaxCalls
    PROVE  LET d == Append(c, [role |-> "calls", calls |-> n])
           IN  /\ d \in Seq(Message) /\ Len(d) = Len(c) + 1 /\ Closed(d, n)
               /\ HasUser(c) => HasUser(d)
<1> DEFINE m == [role |-> "calls", calls |-> n]
           d == Append(c, m)
<1>1. m \in Message /\ m.role = "calls" /\ m.calls = n
  BY DEF Message
<1> HIDE DEF m
<1>2. /\ d \in Seq(Message) /\ Len(d) = Len(c) + 1 /\ d[Len(c) + 1] = m
      /\ \A i \in 1 .. Len(c) : d[i] = c[i]
      /\ DOMAIN d = 1 .. Len(c) + 1 /\ DOMAIN c = 1 .. Len(c) /\ Len(c) \in Nat
  BY <1>1, AppendProperties, LenProperties
<1> HIDE DEF d
<1>3. \A i \in 1 .. Len(c) : c[i].role = "calls" => c[i].calls \in 1 .. MaxCalls
  BY PlainIs, ElementOfSeq
<1>4. \A i \in DOMAIN d : d[i].role = "calls" =>
          /\ i + d[i].calls <= Len(d) + n
          /\ \A k \in 1 .. d[i].calls : i + k <= Len(d) => d[i + k].role = "tool"
  <2> SUFFICES ASSUME NEW i \in DOMAIN d, d[i].role = "calls"
               PROVE  /\ i + d[i].calls <= Len(d) + n
                      /\ \A k \in 1 .. d[i].calls : i + k <= Len(d) => d[i + k].role = "tool"
    OBVIOUS
  <2>1. CASE i \in 1 .. Len(c)
    <3>1. c[i].calls \in Nat /\ i + c[i].calls <= Len(c) /\ d[i] = c[i]
      BY <1>2, <1>3, <2>1, BoundsAssumption DEF Closed
    <3>2. \A k \in 1 .. c[i].calls : i + k <= Len(c) => c[i + k].role = "tool"
      BY <1>2, <2>1, <3>1 DEF Closed
    <3> QED
      BY SMTT(30), <1>1, <1>2, <2>1, <3>1, <3>2
  <2>2. CASE i = Len(c) + 1
    BY <1>1, <1>2, <2>2
  <2> QED
    BY <1>2, <2>1, <2>2
<1>5. \A i \in DOMAIN d : d[i].role = "tool" =>
          \E k \in 1 .. MaxCalls : i - k > 0 /\ d[i - k].role = "calls" /\ d[i - k].calls >= k
  <2> SUFFICES ASSUME NEW i \in DOMAIN d, d[i].role = "tool"
               PROVE  \E k \in 1 .. MaxCalls :
                         i - k > 0 /\ d[i - k].role = "calls" /\ d[i - k].calls >= k
    OBVIOUS
  <2>1. i \in 1 .. Len(c) /\ c[i].role = "tool"
    BY <1>1, <1>2
  <2>2. PICK k \in 1 .. MaxCalls : i - k > 0 /\ c[i - k].role = "calls" /\ c[i - k].calls >= k
    BY <1>2, <2>1 DEF Closed
  <2> QED
    BY <1>2, <2>1, <2>2, BoundsAssumption
<1>6. \E i \in DOMAIN d : d[i].role = "calls" /\ i + d[i].calls = Len(d) + n
  BY <1>1, <1>2
<1>7. HasUser(c) => HasUser(d)
  BY <1>2 DEF HasUser
<1> QED
  BY <1>2, <1>4, <1>5, <1>6, <1>7 DEF Closed, d, m

\* Trimming at a message of the user cuts no answer from its call.
LEMMA ClosedWhenTrimmed ==
    ASSUME NEW c \in Seq(Message), Closed(c, 0), NEW j \in 1 .. Len(c),
           j = 1 \/ c[j].role = "user"
    PROVE  LET d == SubSeq(c, j, Len(c))
           IN  /\ d \in Seq(Message) /\ Len(d) = Len(c) - j + 1 /\ Closed(d, 0)
               /\ HasUser(c) => HasUser(d)
<1> DEFINE d == SubSeq(c, j, Len(c))
<1>1. DOMAIN c = 1 .. Len(c) /\ Len(c) \in Nat
  BY LenProperties
<1>2. \A i \in j .. Len(c) : c[i] \in Message
  BY <1>1, ElementOfSeq
<1>3. /\ d \in Seq(Message) /\ Len(d) = Len(c) - j + 1
      /\ \A i \in 1 .. Len(c) - j + 1 : d[i] = c[j + i - 1]
  BY <1>1, <1>2, SubSeqProperties
<1>4. DOMAIN d = 1 .. Len(c) - j + 1
  BY <1>3, LenProperties
<1> HIDE DEF d
<1>5. \A i \in 1 .. Len(c) : c[i].role = "calls" => c[i].calls \in 1 .. MaxCalls
  BY PlainIs, ElementOfSeq
<1>6. \A i \in DOMAIN d : d[i].role = "calls" =>
          /\ i + d[i].calls <= Len(d) + 0
          /\ \A k \in 1 .. d[i].calls : i + k <= Len(d) => d[i + k].role = "tool"
  <2> SUFFICES ASSUME NEW i \in DOMAIN d, d[i].role = "calls"
               PROVE  /\ i + d[i].calls <= Len(d) + 0
                      /\ \A k \in 1 .. d[i].calls : i + k <= Len(d) => d[i + k].role = "tool"
    OBVIOUS
  <2>1. j + i - 1 \in 1 .. Len(c) /\ d[i] = c[j + i - 1]
    BY SMTT(30), <1>1, <1>3, <1>4
  <2>2. c[j + i - 1].calls \in Nat /\ (j + i - 1) + c[j + i - 1].calls <= Len(c)
    BY <1>1, <1>5, <2>1, BoundsAssumption DEF Closed
  <2>3. \A k \in 1 .. c[j + i - 1].calls :
           (j + i - 1) + k <= Len(c) => c[(j + i - 1) + k].role = "tool"
    BY <1>1, <2>1 DEF Closed
  <2>4. \A k \in 1 .. d[i].calls : i + k <= Len(d) => d[i + k].role = "tool"
    <3> SUFFICES ASSUME NEW k \in 1 .. d[i].calls, i + k <= Len(d)
                 PROVE  d[i + k].role = "tool"
      OBVIOUS
    <3>1. i + k \in 1 .. Len(c) - j + 1 /\ (j + i - 1) + k <= Len(c) /\ k \in Nat
      BY <1>1, <1>3, <1>4, <2>1, <2>2
    <3>2. d[i + k] = c[(j + i - 1) + k]
      <4>1. d[i + k] = c[j + (i + k) - 1]
        BY <1>3, <3>1
      <4>2. j + (i + k) - 1 = (j + i - 1) + k
        BY <1>1, <1>4, <3>1
      <4> QED
        BY <4>1, <4>2
    <3> QED
      BY <2>1, <2>3, <3>1, <3>2
  <2> QED
    BY <1>1, <1>3, <1>4, <2>1, <2>2, <2>4
<1>7. \A i \in DOMAIN d : d[i].role = "tool" =>
          \E k \in 1 .. MaxCalls : i - k > 0 /\ d[i - k].role = "calls" /\ d[i - k].calls >= k
  <2> SUFFICES ASSUME NEW i \in DOMAIN d, d[i].role = "tool"
               PROVE  \E k \in 1 .. MaxCalls :
                         i - k > 0 /\ d[i - k].role = "calls" /\ d[i - k].calls >= k
    OBVIOUS
  <2>0. j + i - 1 \in 1 .. Len(c) /\ d[i] = c[j + i - 1]
    BY SMTT(30), <1>1, <1>3, <1>4
  <2> DEFINE p == j + i - 1
  <2>1. p \in 1 .. Len(c) /\ d[i] = c[p] /\ p >= j /\ p = j + i - 1
    BY <1>1, <1>4, <2>0
  <2> HIDE DEF p
  <2>2. PICK k \in 1 .. MaxCalls : p - k > 0 /\ c[p - k].role = "calls" /\ c[p - k].calls >= k
    BY <1>1, <2>1 DEF Closed
  <2>3. p - k >= j
    <3> SUFFICES ASSUME p - k < j
                 PROVE  FALSE
      BY <1>1, <2>1, BoundsAssumption
    <3>1. p - k \in DOMAIN c /\ p - k \in 1 .. Len(c) /\ j - (p - k) \in 1 .. c[p - k].calls
      BY <1>1, <1>5, <2>1, <2>2, BoundsAssumption
    <3>2. \A q \in 1 .. c[p - k].calls : (p - k) + q <= Len(c) => c[(p - k) + q].role = "tool"
      BY <2>2, <3>1 DEF Closed
    <3>3. (p - k) + (j - (p - k)) = j /\ j <= Len(c)
      BY <1>1, <2>1, BoundsAssumption
    <3>4. c[j].role = "tool"
      BY <3>1, <3>2, <3>3
    <3> QED
      BY <1>1, <2>1, <2>2, <3>4, BoundsAssumption
  <2>4. i - k \in 1 .. Len(c) - j + 1 /\ j + (i - k) - 1 = p - k
    BY SMTT(30), <1>1, <1>4, <2>1, <2>3, BoundsAssumption
  <2>5. d[i - k] = c[p - k]
    BY <1>3, <2>4
  <2> QED
    BY <2>2, <2>4, <2>5
<1>8. HasUser(c) => HasUser(d)
  <2>1. CASE j = 1
    BY <1>1, <1>3, <1>4, <2>1 DEF HasUser
  <2>2. CASE c[j].role = "user"
    <3>1. 1 \in DOMAIN d /\ d[1] = c[j]
      BY <1>1, <1>3, <1>4
    <3> QED
      BY <2>2, <3>1 DEF HasUser
  <2> QED
    BY <2>1, <2>2
<1>9. ~(0 > 0)
  OBVIOUS
<1>10. Closed(d, 0)
  BY <1>6, <1>7, <1>9 DEF Closed
<1> QED
  BY <1>3, <1>8, <1>10 DEF d

-----------------------------------------------------------------------------
(* The turn begins and ends. *)

LEMMA NothingAsked == <<>> \in Seq([tool : Changing, outcome : Outcomes])
  BY EmptySeq

\* A turn is over, with messages that leave no call without an answer.
LEMMA ReadyKeeps ==
    ASSUME IInv, phase' = "ready", calls' = <<>>, messages' \in Seq(Message),
           Closed(messages', 0), Len(messages') <= MaxHistory + MaxCalls + 3,
           {desktop', shared', local', stopped', blocked', appUsed', maintUsed'} \subseteq BOOLEAN,
           used' \in 0 .. ToolLimit + MaxCalls, asked' = asked \/ asked' = <<>>
    PROVE  IInv'
<1>1. TypeOK'
  <2>1. asked' \in Seq([tool : Changing, outcome : Outcomes])
    BY NothingAsked DEF IInv, TypeOK
  <2> QED
    BY <2>1, EmptySeq DEF TypeOK
<1>2. CallsInv'
  BY DEF CallsInv, Serving
<1>3. MessagesInv'
  BY DEF MessagesInv, Serving, Due
<1>4. OneChangePerTurn'
  BY DEF IInv, AskInv, OneChangePerTurn
<1>5. AskInv'
  BY <1>4 DEF AskInv
<1> QED
  BY <1>1, <1>2, <1>3, <1>5 DEF IInv

LEMMA WhenReady ==
    ASSUME IInv, ~Serving
    PROVE  /\ calls = <<>> /\ Closed(messages, 0) /\ messages \in Seq(Message)
           /\ Len(messages) \in Nat /\ used \in 0 .. ToolLimit + MaxCalls
           /\ {desktop, shared, local, stopped, blocked, appUsed, maintUsed} \subseteq BOOLEAN
  BY LenProperties DEF IInv, TypeOK, CallsInv, MessagesInv, Due

\* The messages of Say are those of before and one or two more.
LEMMA SayKeeps ==
    ASSUME IInv, NEW note \in BOOLEAN, Say(note)
    PROVE  IInv'
<1>1. /\ phase = "ready" /\ phase' = "requesting" /\ local' = FALSE /\ asked' = <<>>
      /\ used' = 0 /\ stopped' = FALSE /\ blocked' = FALSE /\ appUsed' = FALSE
      /\ maintUsed' = FALSE /\ UNCHANGED <<desktop, shared, calls>>
      /\ Len(messages) <= MaxHistory + MaxCalls + 1
  BY DEF Say, Fresh, Surface
<1>2. /\ calls = <<>> /\ Closed(messages, 0) /\ messages \in Seq(Message) /\ Len(messages) \in Nat
      /\ {desktop, shared, local, stopped, blocked, appUsed, maintUsed} \subseteq BOOLEAN
  BY <1>1, WhenReady DEF Serving
<1> DEFINE context == IF note THEN Append(messages, Plain("note")) ELSE messages
<1>3. /\ context \in Seq(Message) /\ Closed(context, 0)
      /\ Len(context) \in Nat /\ Len(context) <= MaxHistory + MaxCalls + 2
  BY <1>1, <1>2, ClosedByWords, BoundsAssumption
<1>4. messages' = Append(context, Plain("user"))
  <2>1. Plain("user") \in Message /\ Plain("note") \in Message
    BY PlainIs
  <2>2. messages' = messages \o (IF note THEN <<Plain("note")>> ELSE <<>>) \o <<Plain("user")>>
    BY DEF Say
  <2>3. context = messages \o (IF note THEN <<Plain("note")>> ELSE <<>>)
    BY <1>2, <2>1, AppendIsConcat, ConcatEmptySeq
  <2>4. Append(context, Plain("user")) = context \o <<Plain("user")>>
    BY <1>3, <2>1, AppendIsConcat
  <2> QED
    BY <2>2, <2>3, <2>4
<1> HIDE DEF context
<1>5. /\ messages' \in Seq(Message) /\ Closed(messages', 0) /\ HasUser(messages')
      /\ Len(messages') <= MaxHistory + MaxCalls + 3
  BY <1>3, <1>4, ClosedByWords, BoundsAssumption
<1>6. TypeOK'
  <2>1. used' \in 0 .. ToolLimit + MaxCalls /\ calls' \in Seq(Tools)
    BY <1>1, <1>2, EmptySeq, BoundsAssumption
  <2>2. asked' \in Seq([tool : Changing, outcome : Outcomes])
    BY <1>1, NothingAsked
  <2> QED
    BY <1>1, <1>2, <1>5, <2>1, <2>2 DEF TypeOK
<1>7. CallsInv'
  BY <1>1, <1>2, BoundsAssumption DEF CallsInv, Serving
<1>8. MessagesInv'
  BY <1>1, <1>5 DEF MessagesInv, Serving, Due
<1>9. AskInv'
  BY <1>1 DEF AskInv, OneChangePerTurn
<1> QED
  BY <1>6, <1>7, <1>8, <1>9 DEF IInv

LEMMA ActKeeps ==
    ASSUME IInv, NEW tool \in Tools, Act(tool)
    PROVE  IInv'
<1>1. /\ phase = "ready" /\ phase' = "calling" /\ local' = TRUE /\ asked' = <<>>
      /\ used' = 0 /\ stopped' = FALSE /\ blocked' = FALSE /\ appUsed' = FALSE
      /\ maintUsed' = FALSE /\ UNCHANGED <<desktop, shared, messages>>
      /\ calls' = <<tool>> /\ Len(messages) <= MaxHistory + MaxCalls + 1
  BY DEF Act, Fresh, Surface
<1>2. Closed(messages, 0) /\ Len(messages) \in Nat
  BY <1>1, WhenReady DEF Serving
<1>3. calls' \in Seq(Tools) /\ calls' # <<>> /\ Len(calls') = 1
  BY <1>1
<1>4. TypeOK'
  <2>1. used' \in 0 .. ToolLimit + MaxCalls
    BY <1>1, BoundsAssumption
  <2>2. asked' \in Seq([tool : Changing, outcome : Outcomes])
    BY <1>1, NothingAsked
  <2>3. {desktop, shared} \subseteq BOOLEAN
    BY DEF IInv, TypeOK
  <2> QED
    BY <1>1, <1>3, <2>1, <2>2, <2>3 DEF IInv, TypeOK
<1>5. CallsInv'
  BY <1>1, <1>2, <1>3 DEF CallsInv, Serving, Due
<1>6. MessagesInv'
  BY <1>1, <1>2 DEF MessagesInv, Serving, Due
<1>7. AskInv'
  BY <1>1 DEF AskInv, OneChangePerTurn
<1> QED
  BY <1>4, <1>5, <1>6, <1>7 DEF IInv

LEMMA ExplainKeeps ==
    ASSUME IInv, Explain
    PROVE  IInv'
<1>1. /\ phase = "ready" /\ asked' = <<>> /\ used' = 0
      /\ {stopped', blocked', appUsed', maintUsed'} \subseteq BOOLEAN
      /\ UNCHANGED <<desktop, shared, phase, calls, local>>
      /\ Len(messages) <= MaxHistory + MaxCalls + 1
  BY DEF Explain, Fresh, Surface
<1>2. /\ calls = <<>> /\ Closed(messages, 0) /\ messages \in Seq(Message) /\ Len(messages) \in Nat
      /\ {desktop, shared, local} \subseteq BOOLEAN
  BY <1>1, WhenReady DEF Serving
<1> DEFINE context == Append(messages, Plain("note"))
<1>3. context \in Seq(Message) /\ Closed(context, 0) /\ Len(context) = Len(messages) + 1
  BY <1>2, ClosedByWords
<1>4. messages' \in {Append(context, Plain("answer")), <<>>}
  <2>1. Plain("answer") \in Message /\ Plain("note") \in Message
    BY PlainIs
  <2>2. messages \o <<Plain("note"), Plain("answer")>> = Append(context, Plain("answer"))
    BY <1>2, <2>1
  <2> QED
    BY <2>2 DEF Explain
<1> HIDE DEF context
<1>5. /\ messages' \in Seq(Message) /\ Closed(messages', 0)
      /\ Len(messages') <= MaxHistory + MaxCalls + 3
  <2>1. CASE messages' = <<>>
    BY <2>1, NoMessages
  <2>2. CASE messages' = Append(context, Plain("answer"))
    BY <1>1, <1>2, <1>3, <2>2, ClosedByWords, BoundsAssumption
  <2> QED
    BY <1>4, <2>1, <2>2
<1>6. /\ {desktop', shared', local', stopped', blocked', appUsed', maintUsed'} \subseteq BOOLEAN
      /\ used' \in 0 .. ToolLimit + MaxCalls /\ phase' = "ready" /\ calls' = <<>>
  BY <1>1, <1>2, BoundsAssumption
<1> QED
  BY <1>1, <1>5, <1>6, ReadyKeeps

LEMMA ResetKeeps ==
    ASSUME IInv, Reset
    PROVE  IInv'
<1>1. /\ phase = "ready" /\ messages' = <<>> /\ blocked' = FALSE /\ appUsed' = FALSE
      /\ UNCHANGED <<desktop, shared, phase, calls, local, used, stopped, maintUsed, asked>>
  BY DEF Reset, Surface
<1>2. /\ calls = <<>> /\ used \in 0 .. ToolLimit + MaxCalls
      /\ {desktop, shared, local, stopped, maintUsed} \subseteq BOOLEAN
  BY <1>1, WhenReady DEF Serving
<1>3. /\ messages' \in Seq(Message) /\ Closed(messages', 0)
      /\ Len(messages') <= MaxHistory + MaxCalls + 3
  BY <1>1, EmptyIsClosed, BoundsAssumption
<1> QED
  BY <1>1, <1>2, <1>3, ReadyKeeps

LEMMA CancelKeeps ==
    ASSUME IInv, Cancel
    PROVE  IInv'
<1>1. /\ stopped' = TRUE
      /\ UNCHANGED <<desktop, shared, phase, calls, local, used, blocked, appUsed, maintUsed,
                     messages, asked>>
  BY DEF Cancel, Surface, flags
<1>2. TypeOK'
  BY <1>1 DEF IInv, TypeOK
<1>3. CallsInv'
  BY <1>1 DEF IInv, CallsInv, Serving, Due
<1>4. MessagesInv'
  BY <1>1 DEF IInv, MessagesInv, Serving, Due
<1>5. AskInv'
  BY <1>1 DEF IInv, AskInv, Spent, OneChangePerTurn
<1> QED
  BY <1>2, <1>3, <1>4, <1>5 DEF IInv

-----------------------------------------------------------------------------
(* The model. *)

LEMMA TrimmedIs ==
    ASSUME IInv, ~Serving, NEW context \in Trimmed
    PROVE  /\ context \in Seq(Message) /\ Closed(context, 0) /\ Len(context) \in Nat
           /\ Len(context) <= MaxHistory + MaxCalls + 3
           /\ HasUser(messages) => HasUser(context)
<1>1. /\ messages \in Seq(Message) /\ Closed(messages, 0) /\ Len(messages) \in Nat
      /\ Len(messages) <= MaxHistory + MaxCalls + 3
  BY WhenReady DEF IInv, TypeOK
<1>2. PICK i \in {1} \cup {j \in 2 .. Len(messages) : messages[j].role = "user"} :
          context = SubSeq(messages, i, Len(messages))
  BY DEF Trimmed
<1>3. CASE i \in 1 .. Len(messages)
  <2>1. /\ context \in Seq(Message) /\ Len(context) = Len(messages) - i + 1 /\ Closed(context, 0)
        /\ HasUser(messages) => HasUser(context)
    BY <1>1, <1>2, <1>3, ClosedWhenTrimmed
  <2> QED
    BY <1>1, <1>3, <2>1, BoundsAssumption
<1>4. CASE i \notin 1 .. Len(messages)
  <2>1. i = 1 /\ Len(messages) = 0
    BY <1>1, <1>2, <1>4
  <2>2. context = <<>>
    BY <1>1, <1>2, <2>1, SubSeqEmpty
  <2>3. ~HasUser(messages)
    BY <1>1, <2>1, LenProperties DEF HasUser
  <2> QED
    BY <2>2, <2>3, EmptyIsClosed, BoundsAssumption
<1> QED
  BY <1>3, <1>4

LEMMA RespondKeeps ==
    ASSUME IInv, Respond
    PROVE  IInv'
<1>1. /\ phase = "requesting"
      /\ UNCHANGED <<desktop, shared, local, used, stopped, blocked, appUsed, maintUsed, asked>>
  BY DEF Respond, Surface, flags
<1>2. /\ ~Serving /\ calls = <<>> /\ used \in 0 .. ToolLimit + MaxCalls /\ ~local
      /\ used < ToolLimit /\ HasUser(messages)
      /\ {desktop, shared, local, stopped, blocked, appUsed, maintUsed} \subseteq BOOLEAN
  BY <1>1, WhenReady DEF IInv, CallsInv, MessagesInv, Serving
<1>3. ASSUME NEW context \in Trimmed, NEW n \in 1 .. MaxCalls, Fits(context),
             calls' \in [1 .. n -> Tools], phase' = "calling",
             messages' = Append(context, [role |-> "calls", calls |-> n])
      PROVE  IInv'
  <2>1. /\ context \in Seq(Message) /\ Closed(context, 0) /\ Len(context) \in Nat
        /\ HasUser(context) /\ Len(context) <= MaxHistory
    BY <1>2, <1>3, TrimmedIs DEF Fits
  <2>2. /\ messages' \in Seq(Message) /\ Len(messages') = Len(context) + 1
        /\ Closed(messages', n) /\ HasUser(messages')
    BY <1>3, <2>1, ClosedByCalls
  <2>3. calls' \in Seq(Tools) /\ Len(calls') = n /\ calls' # <<>>
    <3>1. n \in Nat /\ calls' \in Seq(Tools)
      BY <1>3, SeqDef, BoundsAssumption
    <3>2. 1 .. Len(calls') = 1 .. n /\ Len(calls') \in Nat
      BY <1>3, <3>1, LenProperties
    <3>3. Len(calls') = n
      BY <3>1, <3>2
    <3> QED
      BY <3>1, <3>3, BoundsAssumption
  <2>4. TypeOK'
    BY <1>1, <1>3, <2>1, <2>2, <2>3, BoundsAssumption DEF IInv, TypeOK
  <2>5. Due' = n
    BY <1>1, <1>2, <1>3, <2>3 DEF Due, Serving
  <2>6. CallsInv'
    BY <1>1, <1>2, <1>3, <2>1, <2>2, <2>3, <2>5, BoundsAssumption DEF CallsInv, Serving
  <2>7. MessagesInv'
    BY <2>2, <2>5 DEF MessagesInv
  <2>8. AskInv'
    BY <1>1, <1>3 DEF IInv, AskInv, Spent, OneChangePerTurn
  <2> QED
    BY <2>4, <2>6, <2>7, <2>8 DEF IInv
<1>4. ASSUME NEW context \in Trimmed, Fits(context), phase' = "ready", UNCHANGED calls,
             messages' = Append(context, Plain("answer"))
      PROVE  IInv'
  <2>1. /\ context \in Seq(Message) /\ Closed(context, 0) /\ Len(context) \in Nat
        /\ Len(context) <= MaxHistory
    BY <1>2, <1>4, TrimmedIs DEF Fits
  <2>2. /\ messages' \in Seq(Message) /\ Closed(messages', 0)
        /\ Len(messages') <= MaxHistory + MaxCalls + 3
    BY <1>4, <2>1, ClosedByWords, BoundsAssumption
  <2> QED
    BY <1>1, <1>2, <1>4, <2>2, ReadyKeeps
<1>5. ASSUME NEW context \in Trimmed, Failed(context)
      PROVE  IInv'
  <2>1. /\ context \in Seq(Message) /\ Closed(context, 0) /\ Len(context) \in Nat
        /\ Len(context) <= MaxHistory + MaxCalls + 3
    BY <1>2, <1>5, TrimmedIs
  <2>2. phase' = "ready" /\ calls' = <<>> /\ messages' \in {context, <<>>}
    BY <1>5 DEF Failed
  <2>3. /\ messages' \in Seq(Message) /\ Closed(messages', 0)
        /\ Len(messages') <= MaxHistory + MaxCalls + 3
    BY <2>1, <2>2, NoMessages
  <2> QED
    BY <1>1, <1>2, <2>2, <2>3, ReadyKeeps
<1> QED
  BY <1>3, <1>4, <1>5 DEF Respond

-----------------------------------------------------------------------------
(* A call is answered. *)

LEMMA WhenServing ==
    ASSUME IInv, Serving
    PROVE  /\ calls \in Seq(Tools) /\ calls # <<>> /\ Head(calls) \in Tools
           /\ Tail(calls) \in Seq(Tools) /\ Len(Tail(calls)) = Len(calls) - 1
           /\ Len(calls) \in Nat \ {0} /\ used \in Nat /\ local \in BOOLEAN
           /\ messages \in Seq(Message) /\ Len(messages) \in Nat
           /\ Len(messages) + Due <= MaxHistory + MaxCalls + 1
           /\ local => Closed(messages, 0) /\ Due = 0 /\ Len(calls) = 1 /\ used = 0
           /\ ~local => Closed(messages, Len(calls)) /\ Due = Len(calls) /\ HasUser(messages)
<1>1. calls \in Seq(Tools) /\ calls # <<>> /\ messages \in Seq(Message)
  BY DEF IInv, TypeOK, CallsInv
<1>2. /\ Head(calls) \in Tools /\ Tail(calls) \in Seq(Tools)
      /\ Len(Tail(calls)) = Len(calls) - 1 /\ Len(calls) \in Nat \ {0}
  BY <1>1, HeadTailProperties, EmptySeq
<1> QED
  BY <1>1, <1>2, LenProperties, BoundsAssumption DEF IInv, TypeOK, CallsInv, MessagesInv, Due

\* What the flags and the questions must still be after an answer.
AskKept ==
    /\ OneChangePerTurn'
    /\ ~local /\ asked' # <<>> => (Spent' => blocked') /\ (desktop => appUsed' /\ maintUsed')

LEMMA ReplyKeeps ==
    ASSUME IInv, Serving, NEW count \in Nat, Reply(count), used' = count, AskKept,
           asked' \in Seq([tool : Changing, outcome : Outcomes]),
           local => count = 0, ~local => count + Len(calls) <= ToolLimit + MaxCalls,
           {stopped', blocked', appUsed', maintUsed'} \subseteq BOOLEAN,
           UNCHANGED <<desktop, shared, local>>
    PROVE  IInv'
<1> DEFINE replied == Append(messages, Plain("tool"))
<1>1. CASE local
  <2>1. /\ phase' = "ready" /\ calls' = <<>>
        /\ messages' \in {Append(messages, Plain("note")), messages, <<>>}
    BY <1>1 DEF Reply, Ended, Failed
  <2>2. /\ messages' \in Seq(Message) /\ Closed(messages', 0)
        /\ Len(messages') <= MaxHistory + MaxCalls + 3
    <3>1. CASE messages' = <<>>
      BY <3>1, NoMessages
    <3>2. /\ messages \in Seq(Message) /\ Closed(messages, 0)
          /\ Len(messages) \in Nat /\ Len(messages) <= MaxHistory + MaxCalls + 1
      BY <1>1, WhenServing, BoundsAssumption
    <3>3. CASE messages' = Append(messages, Plain("note"))
      BY <3>2, <3>3, ClosedByWords, BoundsAssumption
    <3>4. CASE messages' = messages
      BY <3>2, <3>4, BoundsAssumption
    <3> QED
      BY <2>1, <3>1, <3>3, <3>4
  <2>3. TypeOK'
    BY <1>1, <2>1, <2>2, BoundsAssumption DEF IInv, TypeOK
  <2>4. CallsInv'
    BY <2>1 DEF CallsInv, Serving
  <2>5. MessagesInv'
    BY <2>1, <2>2 DEF MessagesInv, Serving, Due
  <2>6. AskInv'
    BY <2>1 DEF AskKept, AskInv
  <2> QED
    BY <2>3, <2>4, <2>5, <2>6 DEF IInv
<1>2. CASE ~local
  <2>1. /\ replied \in Seq(Message) /\ Len(replied) = Len(messages) + 1
        /\ Closed(replied, Len(calls) - 1) /\ HasUser(replied)
    BY <1>2, WhenServing, ClosedByTool
  <2>2. /\ Len(messages) \in Nat /\ Len(calls) \in Nat \ {0}
        /\ Len(messages) + Len(calls) <= MaxHistory + MaxCalls + 1
    BY <1>2, WhenServing
  <2> HIDE DEF replied
  <2>3. Tail(calls) = <<>> => Len(calls) - 1 = 0
    BY WhenServing
  <2>4. CASE Tail(calls) # <<>> /\ phase' = "calling" /\ calls' = Tail(calls) /\ messages' = replied
    <3>1. Serving' /\ Due' = Len(calls) - 1
      BY <1>2, <2>4, WhenServing DEF Serving, Due
    <3>2. calls' \in Seq(Tools) /\ calls' # <<>> /\ Len(calls') = Len(calls) - 1
      BY <2>4, WhenServing
    <3>3. TypeOK'
      BY SMTT(30), <1>2, <2>1, <2>2, <2>4, <3>2, BoundsAssumption DEF IInv, TypeOK
    <3>4. CallsInv'
      BY SMTT(30), <1>2, <2>1, <2>2, <2>4, <3>1, <3>2, BoundsAssumption DEF CallsInv, Serving
    <3>5. MessagesInv'
      BY <2>1, <2>4, <3>1 DEF MessagesInv
    <3>6. AskInv'
      BY <1>2, <2>4 DEF AskKept, AskInv
    <3> QED
      BY <3>3, <3>4, <3>5, <3>6 DEF IInv
  <2>5. CASE /\ Tail(calls) = <<>> /\ calls' = <<>>
             /\ \/ phase' = "ready" /\ messages' \in {replied, <<>>}
                \/ phase' = "requesting" /\ messages' = replied /\ count < ToolLimit
    <3>1. /\ messages' \in Seq(Message) /\ Closed(messages', 0)
          /\ Len(messages') <= MaxHistory + MaxCalls + 3
      <4>1. CASE messages' = <<>>
        BY <4>1, NoMessages
      <4>2. CASE messages' = replied
        <5>1. Len(calls) - 1 = 0
          BY <2>3, <2>5
        <5>2. Closed(replied, 0)
          BY <2>1, <5>1, Zenon
        <5>3. Len(replied) <= MaxHistory + MaxCalls + 3
          BY <2>1, <2>2, BoundsAssumption
        <5> QED
          BY <2>1, <4>2, <5>2, <5>3
      <4> QED
        BY <2>5, <4>1, <4>2
    <3>2. ~Serving' /\ Due' = 0
      BY <2>5 DEF Serving, Due
    <3>3. TypeOK'
      BY <1>2, <2>2, <2>5, <3>1, BoundsAssumption DEF IInv, TypeOK
    <3>4. CallsInv'
      BY <1>2, <2>5, <3>2 DEF CallsInv, Serving
    <3>5. MessagesInv'
      BY <2>1, <2>5, <3>1, <3>2 DEF MessagesInv
    <3>6. AskInv'
      BY <1>2, <2>5 DEF AskKept, AskInv
    <3> QED
      BY <3>3, <3>4, <3>5, <3>6 DEF IInv
  <2>6. CASE Tail(calls) # <<>>
    BY <1>2, <2>4, <2>6 DEF Reply, replied
  <2>7. CASE Tail(calls) = <<>> /\ stopped
    BY <1>2, <2>5, <2>7 DEF Reply, Failed, replied
  <2>8. CASE Tail(calls) = <<>> /\ ~stopped
    <3>1. /\ phase' = IF count >= ToolLimit THEN "ready" ELSE "requesting"
          /\ calls' = <<>> /\ messages' = replied
      BY <1>2, <2>8 DEF Reply, replied
    <3> QED
      BY <2>5, <2>8, <3>1, BoundsAssumption
  <2> QED
    BY <2>6, <2>7, <2>8
<1>3. local \in BOOLEAN
  BY WhenServing
<1> QED
  BY <1>1, <1>2, <1>3

-----------------------------------------------------------------------------
(* A call. *)

LEMMA CountIs ==
    ASSUME IInv, phase = "calling", NEW tool
    PROVE  /\ Count(tool) \in Nat /\ (local => Count(tool) = 0)
           /\ ~local => Count(tool) + Len(calls) <= ToolLimit + MaxCalls
<1>1. used \in Nat /\ Len(calls) \in Nat
  BY WhenServing DEF Serving
<1>2. local => used = 0
  BY WhenServing DEF Serving
<1>3. ~local => used + Len(calls) < ToolLimit + MaxCalls
  BY DEF IInv, CallsInv
<1> QED
  BY <1>1, <1>2, <1>3, BoundsAssumption DEF Count

\* An answer to the model that asks nothing: no flag is taken back.
LEMMA AnsweredKeeps ==
    ASSUME IInv, phase = "calling", NEW tool, Answered(tool),
           {blocked', appUsed', maintUsed'} \subseteq BOOLEAN,
           ~local => (blocked => blocked') /\ (appUsed => appUsed') /\ (maintUsed => maintUsed'),
           UNCHANGED <<desktop, shared, local, stopped>>
    PROVE  IInv'
<1>1. Reply(Count(tool)) /\ used' = Count(tool) /\ asked' = asked
  BY DEF Answered
<1>2. AskKept
  BY <1>1 DEF AskKept, IInv, AskInv, OneChangePerTurn, Spent
<1>3. stopped' \in BOOLEAN /\ asked' \in Seq([tool : Changing, outcome : Outcomes]) /\ Serving
  BY <1>1 DEF IInv, TypeOK, Serving
<1> DEFINE count == Count(tool)
<1>4. /\ count \in Nat /\ (local => count = 0) /\ Reply(count) /\ used' = count
      /\ ~local => count + Len(calls) <= ToolLimit + MaxCalls
  BY <1>1, CountIs
<1> HIDE DEF count
<1> QED
  BY <1>2, <1>3, <1>4, ReplyKeeps

\* A question: nothing stands in its way, and the flags say that it is asked.
LEMMA AsksKeeps ==
    ASSUME IInv, phase = "calling", Asks(Head(calls)), Head(calls) \in Changing, ~Spent,
           Head(calls) \in {"app", "maint"} => asked = <<>>,
           ~local => /\ desktop => appUsed' /\ maintUsed'
                     /\ Head(calls) \in {"app", "maint"} => blocked',
           {blocked', appUsed', maintUsed'} \subseteq BOOLEAN,
           UNCHANGED <<desktop, shared, local, stopped>>
    PROVE  IInv'
<1>1. phase' = "asking" /\ used' = Count(Head(calls)) /\ UNCHANGED <<calls, messages, asked>>
  BY DEF Asks
<1>2. /\ Count(Head(calls)) \in Nat /\ (local => Count(Head(calls)) = 0)
      /\ ~local => Count(Head(calls)) + Len(calls) <= ToolLimit + MaxCalls
  BY CountIs
<1>3. local \in BOOLEAN /\ Len(calls) \in Nat \ {0} /\ calls # <<>> /\ (local => Len(calls) = 1)
  BY WhenServing DEF Serving
<1>4. Serving /\ Serving' /\ Due' = Due
  BY <1>1 DEF Serving, Due
<1>5. TypeOK'
  <2>1. used' \in 0 .. ToolLimit + MaxCalls
    BY <1>1, <1>2, <1>3, BoundsAssumption
  <2> QED
    BY <1>1, <2>1 DEF IInv, TypeOK
<1>6. CallsInv'
  BY <1>1, <1>2, <1>3, <1>4 DEF IInv, CallsInv
<1>7. MessagesInv'
  BY <1>1, <1>4 DEF IInv, MessagesInv
<1>8. asked # <<>> => ~local
  BY DEF IInv, AskInv
<1>9. AskInv'
  <2>1. Spent' = Spent /\ OneChangePerTurn'
    BY <1>1 DEF IInv, AskInv, OneChangePerTurn, Spent
  <2> QED
    BY <1>1, <1>8, <2>1 DEF AskInv
<1> QED
  BY <1>5, <1>6, <1>7, <1>9 DEF IInv

LEMMA CallKeeps ==
    ASSUME IInv, Call
    PROVE  IInv'
<1> DEFINE tool == Head(calls)
<1>1. /\ phase = "calling" /\ UNCHANGED <<desktop, shared, local, stopped>>
      /\ \/ Unserved(tool) \/ Read(tool) \/ Close(tool)
         \/ Open(tool) \/ Move(tool) \/ App(tool) \/ Maintain(tool)
  BY DEF Call, Surface
<1>2. {desktop, shared, local, blocked, appUsed, maintUsed} \subseteq BOOLEAN
  BY DEF IInv, TypeOK
<1>3. /\ asked # <<>> => ~local /\ (Spent => blocked) /\ (desktop => appUsed /\ maintUsed)
      /\ asked = <<>> => ~Spent
  BY <1>1 DEF IInv, AskInv, Spent
<1>4. /\ "app" \in Known => desktop
      /\ "maint" \in Known => desktop
      /\ "move" \in Known => ~desktop
  BY <1>2 DEF Known, Tools, Changing
<1> HIDE DEF tool
<1>5. CASE Unserved(tool) \/ Read(tool)
  <2>1. Answered(tool) /\ UNCHANGED <<blocked, appUsed, maintUsed>>
    BY <1>5 DEF Unserved, Read, flags
  <2> QED
    BY <1>1, <1>2, <2>1, AnsweredKeeps
<1>6. CASE Close(tool)
  <2>1. Answered(tool) /\ blocked' = (blocked \/ ~local) /\ appUsed' = TRUE /\ UNCHANGED maintUsed
    BY <1>6 DEF Close
  <2> QED
    BY <1>1, <1>2, <2>1, AnsweredKeeps
<1>7. CASE Open(tool)
  <2>1. /\ tool = "open"
        /\ maintUsed' = (maintUsed \/ desktop \/ ~blocked)
        /\ appUsed' = (appUsed \/ (desktop /\ ~blocked))
        /\ blocked' = (blocked /\ ~(local /\ desktop))
        /\ Answered(tool) \/ (Asks(tool) /\ ~blocked')
    BY <1>7 DEF Open
  <2>2. CASE Answered(tool)
    BY <1>1, <1>2, <2>1, <2>2, AnsweredKeeps
  <2>3. CASE Asks(tool) /\ ~blocked'
    <3>1. ~Spent
      BY <1>2, <1>3, <2>1, <2>3
    <3>2. ~local => (desktop => appUsed' /\ maintUsed')
      BY <1>2, <2>1, <2>3
    <3> QED
      BY <1>1, <1>2, <2>1, <2>3, <3>1, <3>2, AsksKeeps DEF tool, Changing
  <2> QED
    BY <2>1, <2>2, <2>3
<1>8. CASE Move(tool)
  <2>1. /\ tool = "move" /\ ~desktop /\ UNCHANGED <<blocked, appUsed, maintUsed>>
        /\ Answered(tool) \/ (Asks(tool) /\ ~blocked)
    BY <1>4, <1>8 DEF Move, Served, flags
  <2>2. CASE Answered(tool)
    BY <1>1, <1>2, <2>1, <2>2, AnsweredKeeps
  <2>3. CASE Asks(tool) /\ ~blocked
    BY <1>1, <1>2, <1>3, <2>1, <2>3, AsksKeeps DEF tool, Changing
  <2> QED
    BY <2>1, <2>2, <2>3
<1>9. CASE App(tool)
  <2>1. /\ tool = "app" /\ desktop /\ maintUsed' = TRUE /\ appUsed' = TRUE
        /\ blocked' = (blocked \/ ~local)
        /\ Answered(tool) \/ (Asks(tool) /\ ~appUsed)
    BY <1>4, <1>9 DEF App, Served
  <2>2. CASE Answered(tool)
    BY <1>1, <1>2, <2>1, <2>2, AnsweredKeeps
  <2>3. CASE Asks(tool) /\ ~appUsed
    <3>1. asked = <<>> /\ ~Spent
      BY <1>3, <2>1, <2>3
    <3> QED
      BY <1>1, <1>2, <2>1, <2>3, <3>1, AsksKeeps DEF tool, Changing
  <2> QED
    BY <2>1, <2>2, <2>3
<1>10. CASE Maintain(tool)
  <2>1. /\ tool = "maint" /\ desktop /\ blocked' = TRUE
        /\ appUsed' = (appUsed \/ ~blocked)
        /\ maintUsed' = (maintUsed \/ (~blocked /\ (local \/ shared)))
        /\ Answered(tool) \/ (Asks(tool) /\ ~blocked /\ ~maintUsed /\ (local \/ shared))
    BY <1>4, <1>10 DEF Maintain, Served
  <2>2. CASE Answered(tool)
    BY <1>1, <1>2, <2>1, <2>2, AnsweredKeeps
  <2>3. CASE Asks(tool) /\ ~blocked /\ ~maintUsed /\ (local \/ shared)
    <3>1. asked = <<>> /\ ~Spent
      BY <1>3, <2>1, <2>3
    <3>2. appUsed' = TRUE /\ maintUsed' = TRUE
      BY <1>2, <2>1, <2>3
    <3> QED
      BY <1>1, <1>2, <2>1, <2>3, <3>1, <3>2, AsksKeeps DEF tool, Changing
  <2> QED
    BY <2>1, <2>2, <2>3
<1> QED
  BY <1>1, <1>5, <1>6, <1>7, <1>8, <1>9, <1>10

-----------------------------------------------------------------------------
(* The question and what follows from it. *)

LEMMA SettleKeeps ==
    ASSUME IInv, NEW outcome \in Outcomes, Settle(outcome)
    PROVE  IInv'
<1> DEFINE tool == Head(calls)
           question == [tool |-> tool, outcome |-> outcome]
<1>1. /\ phase = "asking" /\ asked' = Append(asked, question) /\ (outcome = "lost" => tool = "move")
      /\ blocked' = (blocked \/ Blocks(tool, outcome)) /\ Reply(used)
      /\ UNCHANGED <<desktop, shared, local, used, stopped, appUsed, maintUsed>>
  BY DEF Settle, Surface
<1>2. /\ tool \in Changing /\ ~Spent
      /\ tool \in {"app", "maint"} => asked = <<>>
      /\ ~local => /\ desktop => appUsed /\ maintUsed
                   /\ tool \in {"app", "maint"} => blocked
      /\ OneChangePerTurn
  BY <1>1 DEF IInv, AskInv
<1>3. /\ asked \in Seq([tool : Changing, outcome : Outcomes])
      /\ {desktop, shared, local, stopped, blocked, appUsed, maintUsed} \subseteq BOOLEAN
  BY DEF IInv, TypeOK
<1>4. question.tool = tool /\ question.outcome = outcome
      /\ question \in [tool : Changing, outcome : Outcomes]
  BY <1>2
<1> HIDE DEF question, tool
<1>5. /\ asked' \in Seq([tool : Changing, outcome : Outcomes])
      /\ DOMAIN asked = 1 .. Len(asked) /\ Len(asked) \in Nat
      /\ DOMAIN asked' = 1 .. Len(asked) + 1 /\ asked'[Len(asked) + 1] = question
      /\ \A i \in 1 .. Len(asked) : asked'[i] = asked[i]
  BY <1>1, <1>3, <1>4, AppendProperties, LenProperties
<1>6. blocked' \in BOOLEAN /\ (Blocks(tool, outcome) => blocked') /\ (blocked => blocked')
  BY <1>1, <1>3 DEF Blocks
<1>7. OneChangePerTurn'
  <2> SUFFICES ASSUME NEW i \in DOMAIN asked', NEW j \in DOMAIN asked', i < j
               PROVE  /\ asked'[i].tool \notin {"app", "maint"}
                      /\ asked'[j].tool \notin {"app", "maint"}
                      /\ asked'[i].outcome \notin {"no", "unknown"}
    BY DEF OneChangePerTurn
  <2>1. i \in 1 .. Len(asked) /\ asked'[i] = asked[i] /\ asked # <<>>
    BY <1>5
  <2>2. asked[i].tool \notin {"app", "maint"} /\ asked[i].outcome \notin {"no", "unknown"}
    BY <1>2, <1>5, <2>1 DEF Spent
  <2>3. asked'[j].tool \notin {"app", "maint"}
    <3>1. CASE j = Len(asked) + 1
      BY <1>2, <1>4, <1>5, <2>1, <3>1
    <3>2. CASE j \in 1 .. Len(asked)
      BY <1>2, <1>5, <3>2 DEF Spent
    <3> QED
      BY <1>5, <3>1, <3>2
  <2> QED
    BY <2>1, <2>2, <2>3
<1>8. ~local => (Spent' => blocked')
  <2> SUFFICES ASSUME ~local, Spent'
               PROVE  blocked'
    OBVIOUS
  <2>1. PICK i \in DOMAIN asked' : asked'[i].tool \in {"app", "maint"} \/ asked'[i].outcome \in {"no", "unknown"}
    BY DEF Spent
  <2>2. i = Len(asked) + 1
    BY <1>2, <1>5, <2>1 DEF Spent
  <2>3. tool \in {"app", "maint"} \/ outcome \in {"no", "unknown"}
    BY <1>4, <1>5, <2>1, <2>2
  <2>4. tool \notin {"app", "maint"} => tool \in {"open", "move"}
    BY <1>2 DEF Changing
  <2> QED
    BY <1>2, <1>6, <2>3, <2>4 DEF Blocks
<1>9. AskKept
  BY <1>1, <1>2, <1>7, <1>8 DEF AskKept
<1>10. /\ Serving /\ used \in Nat /\ used' = used /\ (local => used = 0)
       /\ ~local => used + Len(calls) <= ToolLimit + MaxCalls
  BY <1>1, WhenServing DEF Serving, IInv, CallsInv
<1>11. {stopped', blocked', appUsed', maintUsed'} \subseteq BOOLEAN
  BY <1>1, <1>3, <1>6
<1> QED
  BY <1>1, <1>5, <1>9, <1>10, <1>11, ReplyKeeps

-----------------------------------------------------------------------------
(* The invariant, and what follows from it. *)

LEMMA InitInv == Init => IInv
<1> SUFFICES ASSUME Init
             PROVE  IInv
  OBVIOUS
<1>1. TypeOK
  <2>1. 0 \in 0 .. ToolLimit + MaxCalls /\ calls \in Seq(Tools)
    BY EmptySeq, BoundsAssumption DEF Init
  <2>2. messages \in Seq(Message) /\ Len(messages) <= MaxHistory + MaxCalls + 3
    BY NoMessages DEF Init
  <2> QED
    BY <2>1, <2>2, NothingAsked DEF Init, TypeOK
<1>2. CallsInv /\ MessagesInv
  BY EmptyIsClosed DEF Init, CallsInv, MessagesInv, Serving, Due
<1>3. AskInv
  BY DEF Init, AskInv, OneChangePerTurn
<1> QED
  BY <1>1, <1>2, <1>3 DEF IInv

LEMMA NextKeeps ==
    ASSUME IInv, [Next]_vars
    PROVE  IInv'
<1>1. CASE Next
  BY <1>1, SayKeeps, ActKeeps, ExplainKeeps, ResetKeeps, CancelKeeps, RespondKeeps,
     CallKeeps, SettleKeeps DEF Next
<1>2. CASE UNCHANGED vars
  <2>1. UNCHANGED <<desktop, shared, phase, calls, local, used, stopped, blocked, appUsed,
                    maintUsed, messages, asked>>
    BY <1>2 DEF vars, flags
  <2>2. TypeOK' /\ CallsInv'
    BY <2>1 DEF IInv, TypeOK, CallsInv, Serving, Due
  <2>3. MessagesInv'
    BY <2>1 DEF IInv, MessagesInv, Serving, Due
  <2>4. AskInv'
    BY <2>1 DEF IInv, AskInv, Spent, OneChangePerTurn
  <2> QED
    BY <2>2, <2>3, <2>4 DEF IInv
<1> QED
  BY <1>1, <1>2

THEOREM Invariance == Spec => []IInv
  BY InitInv, NextKeeps, PTL DEF Spec

\* TypeOK, and with it that the calls of a turn and the messages that wait
\* for the next one stay within their limits.
THEOREM TypeCorrect == Spec => []TypeOK
<1>1. IInv => TypeOK
  BY DEF IInv
<1> QED
  BY <1>1, Invariance, PTL

\* OneChangePerTurn, in every state: whatever the model tries, in whatever
\* order, a launch, a termination or a maintenance write is the only question
\* of its turn, and nothing is asked after a refusal.
THEOREM ChangesOncePerTurn == Spec => []OneChangePerTurn
<1>1. IInv => OneChangePerTurn
  BY DEF IInv, AskInv
<1> QED
  BY <1>1, Invariance, PTL

\* RequestsWellFormed, in every state: every request is a conversation in
\* which each call has its answer, however it was trimmed.
THEOREM EveryRequestIsWellFormed == Spec => []RequestsWellFormed
<1>1. ASSUME IInv
      PROVE  RequestsWellFormed
  <2> SUFFICES ASSUME phase = "requesting", NEW context \in Trimmed
               PROVE  WellFormed(context)
    BY DEF RequestsWellFormed
  <2>1. ~Serving /\ HasUser(messages)
    BY <1>1 DEF Serving, IInv, MessagesInv
  <2>2. context \in Seq(Message) /\ Closed(context, 0) /\ HasUser(context)
    BY <1>1, <2>1, TrimmedIs
  <2>3. \A i \in 1 .. Len(context) :
            context[i].calls \in Nat
    BY <2>2, PlainIs, ElementOfSeq
  <2>4. DOMAIN context = 1 .. Len(context) /\ Len(context) \in Nat
    BY <2>2, LenProperties
  <2>5. \A i \in DOMAIN context : context[i].role = "calls" =>
            /\ i + context[i].calls <= Len(context)
            /\ \A k \in 1 .. context[i].calls : context[i + k].role = "tool"
    BY <2>2, <2>3, <2>4 DEF Closed
  <2> QED
    BY <2>2, <2>5 DEF WellFormed, Closed, HasUser
<1> QED
  BY <1>1, Invariance, PTL

-----------------------------------------------------------------------------
(* The mutexes of the bridge, in the order in which they are taken: one     *)
(* that is held when another is taken has the lower rank.                   *)

LEMMA NobodyIsNone == Nobody \notin Locks!Threads
  BY NobodyAssumption DEF Locks!Threads

\* A mutex is only waited for with mutexes of lower ranks held.
Rank(m) ==
    CASE m = "maintenance_confirmation" -> 1
      [] m = "processes" -> 2
      [] m = "active" -> 3
      [] m = "sessions" -> 4
      [] m = "workspace" -> 5
      [] m = "configuration_gate" -> 6
      [] m = "scanner" -> 7
      [] m = "settings" -> 8
      [] m = "inventory" -> 9
      [] m = "control" -> 10
      [] m = "applications" -> 11
      [] m = "overview" -> 12
      [] OTHER -> 0

\* The steps that commands are made of, and those that take a mutex.
Steps ==
    [op : {"lock", "drop"}, of : Locks!Mutexes]
    \cup [op : {"try"}, of : Locks!Mutexes, skip : Nat]
    \cup [op : {"wait"}, of : {"person"}]

Takes(x) == x.op \in {"lock", "try"}

\* The mutexes that are held where the steps from position i are left.
Held(s, i) ==
    {m \in Locks!Mutexes : \E j \in i .. Len(s) :
        /\ s[j].op = "drop" /\ s[j].of = m
        /\ \A k \in i .. j - 1 : ~(Takes(s[k]) /\ s[k].of = m)}

\* A step fits what is held before it and what is held behind it: what is
\* taken will be dropped once, in the order of the ranks, a try that fails
\* leaves out its scope, and the person is waited for with nothing held.
SoundAt(s, i) ==
    /\ Takes(s[i]) => s[i].of \in Held(s, i + 1)
    /\ s[i].op = "lock" => \A m \in Held(s, i) : Rank(m) < Rank(s[i].of)
    /\ s[i].op = "try" =>
          i + 1 + s[i].skip <= Len(s) + 1 /\ Held(s, i + 1 + s[i].skip) = Held(s, i)
    /\ s[i].op = "drop" => s[i].of \notin Held(s, i + 1)
    /\ s[i].op = "wait" => Held(s, i) = {}
Sound(s) == s \in Seq(Steps) /\ \A i \in DOMAIN s : SoundAt(s, i)

\* A part of a command that may stand where mutexes of rank r or less are held.
Above(x, r) == IF x.op = "wait" THEN r = 0 ELSE Rank(x.of) > r

Block(s, r) ==
    /\ Sound(s) /\ Held(s, 1) = {}
    /\ \A i \in DOMAIN s : Above(s[i], r)

\* A thread holds exactly what its remaining steps will drop.
LocksInv ==
    /\ k1 \in [Locks!Threads -> Seq(Steps)]
    /\ k2 \in [Locks!Mutexes -> Locks!Threads \cup {Nobody}]
    /\ \A t \in Locks!Threads : Sound(k1[t])
    /\ \A t \in Locks!Threads, m \in Locks!Mutexes : k2[m] = t <=> m \in Held(k1[t], 1)

\* Sets of natural numbers have a least element.
LEMMA LeastIs ==
    ASSUME NEW S \in SUBSET Nat, S # {}
    PROVE  \E m \in S : \A k \in S : m <= k
<1> DEFINE R == {ss \in Nat \X Nat : ss[1] < ss[2]}
<1>1. \A x, y \in Nat : x < y => <<x, y>> \in R
  OBVIOUS
<1>2. IsWellFoundedOn(R, Nat)
  BY NatLessThanWellFounded, Zenon DEF OpToRel
<1> HIDE DEF R
<1>3. PICK x \in S : \A y \in S : ~ (<<y, x>> \in R)
  BY <1>2, WFMin, Zenon
<1>4. \A y \in S : y \in Nat /\ x \in Nat
  OBVIOUS
<1>5. \A y \in S : ~(y < x)
  BY <1>1, <1>3, <1>4
<1> QED
  BY <1>4, <1>5

\* The ranks, as numbers.
LEMMA Ranks ==
    /\ Rank("maintenance_confirmation") = 1 /\ Rank("processes") = 2 /\ Rank("active") = 3
    /\ Rank("sessions") = 4 /\ Rank("workspace") = 5 /\ Rank("configuration_gate") = 6
    /\ Rank("scanner") = 7 /\ Rank("settings") = 8 /\ Rank("inventory") = 9
    /\ Rank("control") = 10 /\ Rank("applications") = 11 /\ Rank("overview") = 12
    /\ \A m \in Locks!Mutexes : Rank(m) \in 1 .. 12
<1>1. /\ Rank("maintenance_confirmation") = 1 /\ Rank("processes") = 2 /\ Rank("active") = 3
      /\ Rank("sessions") = 4 /\ Rank("workspace") = 5 /\ Rank("configuration_gate") = 6
      /\ Rank("scanner") = 7 /\ Rank("settings") = 8 /\ Rank("inventory") = 9
      /\ Rank("control") = 10 /\ Rank("applications") = 11 /\ Rank("overview") = 12
  BY DEF Rank
<1> QED
  BY <1>1 DEF Locks!Mutexes

\* What kinds of steps there are.
LEMMA StepIs ==
    ASSUME NEW x \in Steps
    PROVE  /\ x.op \in {"lock", "drop", "try", "wait"}
           /\ x.op # "wait" => x.of \in Locks!Mutexes
           /\ x.op = "try" => x.skip \in Nat
           /\ x.op = "drop" => x = [op |-> "drop", of |-> x.of]
  BY DEF Steps

-----------------------------------------------------------------------------
(* What is left of a sequence of steps. *)

LEMMA LeftIs ==
    ASSUME NEW s \in Seq(Steps), NEW n \in 0 .. Len(s)
    PROVE  LET left == SubSeq(s, n + 1, Len(s))
           IN  /\ left \in Seq(Steps) /\ Len(left) = Len(s) - n
               /\ \A j \in 1 .. Len(left) : left[j] = s[n + j]
  OBVIOUS

\* What is held at a position, counted from the part that is left.
LEMMA HeldLeft ==
    ASSUME NEW s \in Seq(Steps), NEW n \in 0 .. Len(s), NEW i \in Nat \ {0}
    PROVE  Held(SubSeq(s, n + 1, Len(s)), i) = Held(s, n + i)
<1> DEFINE left == SubSeq(s, n + 1, Len(s))
<1>1. /\ Len(left) = Len(s) - n /\ Len(s) \in Nat /\ n \in Nat
      /\ \A j \in 1 .. Len(left) : left[j] = s[n + j]
  BY LeftIs
<1> HIDE DEF left
<1>2. ASSUME NEW m \in Held(left, i)
      PROVE  m \in Held(s, n + i)
  <2>1. PICK j \in i .. Len(left) :
          /\ left[j].op = "drop" /\ left[j].of = m
          /\ \A k \in i .. j - 1 : ~(Takes(left[k]) /\ left[k].of = m)
    BY <1>2 DEF Held
  <2>2. n + j \in n + i .. Len(s) /\ s[n + j] = left[j]
    BY <1>1
  <2>3. \A k \in n + i .. n + j - 1 : ~(Takes(s[k]) /\ s[k].of = m)
    <3> TAKE k \in n + i .. n + j - 1
    <3>1. k - n \in i .. j - 1 /\ k - n \in 1 .. Len(left) /\ n + (k - n) = k
      BY <1>1
    <3> QED
      BY <1>1, <2>1, <3>1
  <2> QED
    BY <1>2, <2>1, <2>2, <2>3 DEF Held
<1>3. ASSUME NEW m \in Held(s, n + i)
      PROVE  m \in Held(left, i)
  <2>1. PICK j \in n + i .. Len(s) :
          /\ s[j].op = "drop" /\ s[j].of = m
          /\ \A k \in n + i .. j - 1 : ~(Takes(s[k]) /\ s[k].of = m)
    BY <1>3 DEF Held
  <2>2. j - n \in i .. Len(left) /\ left[j - n] = s[j]
    <3>1. j - n \in i .. Len(left) /\ j - n \in 1 .. Len(left) /\ n + (j - n) = j
      BY <1>1
    <3> QED
      BY <1>1, <3>1
  <2>3. \A k \in i .. (j - n) - 1 : ~(Takes(left[k]) /\ left[k].of = m)
    <3> TAKE k \in i .. (j - n) - 1
    <3>1. n + k \in n + i .. j - 1 /\ k \in 1 .. Len(left)
      BY <1>1
    <3> QED
      BY <1>1, <2>1, <3>1
  <2> QED
    BY <1>3, <2>1, <2>2, <2>3 DEF Held
<1> QED
  BY <1>2, <1>3 DEF left

\* What is left of a command is sound when the command is.
LEMMA SoundLeft ==
    ASSUME NEW s, Sound(s), NEW n \in 0 .. Len(s)
    PROVE  Sound(SubSeq(s, n + 1, Len(s)))
<1> DEFINE left == SubSeq(s, n + 1, Len(s))
<1>1. s \in Seq(Steps)
  BY DEF Sound
<1>2. /\ left \in Seq(Steps) /\ Len(left) = Len(s) - n /\ Len(s) \in Nat /\ n \in Nat
      /\ \A j \in 1 .. Len(left) : left[j] = s[n + j]
  BY <1>1, LeftIs
<1>3. \A i \in Nat \ {0} : Held(left, i) = Held(s, n + i)
  BY <1>1, HeldLeft
<1> HIDE DEF left
<1>4. ASSUME NEW i \in DOMAIN left
      PROVE  SoundAt(left, i)
  <2>1. i \in 1 .. Len(left) /\ i \in Nat \ {0} /\ n + i \in DOMAIN s /\ left[i] = s[n + i]
    BY <1>1, <1>2
  <2>2. SoundAt(s, n + i)
    BY <2>1 DEF Sound
  <2>3. Held(left, i) = Held(s, n + i) /\ Held(left, i + 1) = Held(s, n + i + 1)
    <3>1. i + 1 \in Nat \ {0} /\ n + (i + 1) = n + i + 1
      BY <1>2, <2>1
    <3> QED
      BY <1>3, <2>1, <3>1
  <2>4. ASSUME left[i].op = "try"
        PROVE  /\ i + 1 + left[i].skip <= Len(left) + 1
               /\ Held(left, i + 1 + left[i].skip) = Held(left, i)
    <3>1. left[i].skip \in Nat
      BY <1>2, <2>4, StepIs
    <3>2. /\ n + i + 1 + left[i].skip <= Len(s) + 1
          /\ Held(s, n + i + 1 + left[i].skip) = Held(s, n + i)
      BY <2>1, <2>2, <2>4 DEF SoundAt
    <3>3. /\ i + 1 + left[i].skip \in Nat \ {0}
          /\ n + (i + 1 + left[i].skip) = n + i + 1 + left[i].skip
          /\ i + 1 + left[i].skip <= Len(left) + 1
      <4> DEFINE skip == left[i].skip
      <4>1. i \in Nat /\ n \in Nat /\ Len(s) \in Nat /\ skip \in Nat
        BY <1>2, <2>1, <3>1
      <4>2. Len(left) = Len(s) - n /\ n + i + 1 + skip <= Len(s) + 1
        BY <1>2, <3>2
      <4> HIDE DEF skip
      <4>3. /\ i + 1 + skip \in Nat \ {0} /\ n + (i + 1 + skip) = n + i + 1 + skip
            /\ i + 1 + skip <= Len(left) + 1
        BY <4>1, <4>2
      <4> QED
        BY <4>3 DEF skip
    <3> QED
      BY <1>3, <2>3, <3>2, <3>3
  <2> QED
    BY <2>1, <2>2, <2>3, <2>4 DEF SoundAt
<1> QED
  BY <1>2, <1>4 DEF Sound, left

\* The steps that Past takes with another are drops.
LEMMA DropsAre ==
    ASSUME NEW s \in Seq(Steps)
    PROVE  Locks!Drops(s) \in 0 .. Len(s) /\ \A i \in 1 .. Locks!Drops(s) : s[i].op = "drop"
<1> DEFINE Other == {k \in 0 .. Len(s) : k = Len(s) \/ s[k + 1].op # "drop"}
<1>1. Len(s) \in Nat /\ Len(s) \in Other /\ Other \in SUBSET Nat
  OBVIOUS
<1>2. PICK k \in Other : \A j \in Other : k <= j
  BY <1>1, LeastIs
<1>3. \A i \in 1 .. k : s[i].op = "drop"
  <2> TAKE i \in 1 .. k
  <2>1. k \in Nat /\ k <= Len(s)
    BY <1>1, <1>2
  <2>2. i - 1 \in 0 .. Len(s) /\ i - 1 # Len(s) /\ (i - 1) + 1 = i /\ ~(k <= i - 1)
    BY <1>1, <2>1
  <2>3. i - 1 \notin Other
    BY <1>2, <2>2
  <2> QED
    BY <2>2, <2>3
<1>4. k \in 0 .. Len(s) /\ (k < Len(s) => s[k + 1].op # "drop")
  BY <1>1
<1> QED
  BY <1>3, <1>4 DEF Locks!Drops

-----------------------------------------------------------------------------
(* The steps of the threads. *)

\* Once it is dropped, a mutex is not held until it is taken again.
LEMMA HeldPast ==
    ASSUME NEW s, Sound(s), NEW n \in 0 .. Len(s), \A i \in 1 .. n : s[i].op = "drop"
    PROVE  Held(s, n + 1) = {m \in Held(s, 1) : ~\E i \in 1 .. n : s[i].of = m}
<1>1. s \in Seq(Steps) /\ Len(s) \in Nat /\ n \in Nat
  BY DEF Sound
<1>2. \A i \in 1 .. n : ~Takes(s[i])
  BY DEF Takes
<1>3. ASSUME NEW m \in Held(s, n + 1)
      PROVE  m \in Held(s, 1) /\ ~\E i \in 1 .. n : s[i].of = m
  <2>1. PICK j \in n + 1 .. Len(s) :
          /\ s[j].op = "drop" /\ s[j].of = m
          /\ \A k \in n + 1 .. j - 1 : ~(Takes(s[k]) /\ s[k].of = m)
    BY <1>3 DEF Held
  <2>2. ASSUME NEW i \in 1 .. n + 1
        PROVE  m \in Held(s, i)
    <3>1. j \in i .. Len(s)
      BY <1>1, <2>1
    <3>2. \A k \in i .. j - 1 : ~(Takes(s[k]) /\ s[k].of = m)
      <4> TAKE k \in i .. j - 1
      <4>1. k \in 1 .. n \/ k \in n + 1 .. j - 1
        BY <1>1
      <4> QED
        BY <1>2, <2>1, <4>1
    <3> QED
      BY <1>3, <2>1, <3>1, <3>2 DEF Held
  <2>3. ASSUME NEW i \in 1 .. n
        PROVE  s[i].of # m
    <3>1. i \in DOMAIN s /\ i + 1 \in 1 .. n + 1
      BY <1>1
    <3>2. SoundAt(s, i) /\ s[i].op = "drop"
      BY <3>1 DEF Sound
    <3> QED
      BY <2>2, <3>1, <3>2 DEF SoundAt
  <2>4. 1 \in 1 .. n + 1
    BY <1>1
  <2> QED
    BY <2>2, <2>3, <2>4
<1>4. ASSUME NEW m \in Held(s, 1), ~\E i \in 1 .. n : s[i].of = m
      PROVE  m \in Held(s, n + 1)
  <2>1. PICK j \in 1 .. Len(s) :
          /\ s[j].op = "drop" /\ s[j].of = m
          /\ \A k \in 1 .. j - 1 : ~(Takes(s[k]) /\ s[k].of = m)
    BY <1>4 DEF Held
  <2>2. j \in n + 1 .. Len(s)
    <3>1. j \notin 1 .. n
      BY <1>4, <2>1
    <3> QED
      BY <1>1, <3>1
  <2>3. \A k \in n + 1 .. j - 1 : ~(Takes(s[k]) /\ s[k].of = m)
    BY <1>1, <2>1
  <2> QED
    BY <1>4, <2>1, <2>2, <2>3 DEF Held
<1> QED
  BY <1>3, <1>4

\* The part of the invariant that is about one thread.
ThreadFits(t, steps, owns) ==
    /\ Sound(steps)
    /\ \A m \in Locks!Mutexes : owns[m] = t <=> m \in Held(steps, 1)

\* The n steps that are taken change the owners as the steps themselves say.
LEMMA PastKeeps ==
    ASSUME LocksInv, NEW t \in Locks!Threads, NEW n \in 0 .. Len(k1[t]),
           NEW owns \in [Locks!Mutexes -> Locks!Threads \cup {Nobody}],
           \A m \in Locks!Mutexes : owns[m] = t <=> m \in Held(k1[t], n + 1),
           \A u \in Locks!Threads \ {t}, m \in Locks!Mutexes : owns[m] = u <=> k2[m] = u,
           Locks!Past(t, n, owns)
    PROVE  LocksInv'
<1> DEFINE left == SubSeq(k1[t], n + 1, Len(k1[t]))
           k == Locks!Drops(left)
           rest == SubSeq(left, k + 1, Len(left))
           dropped(m) == \E i \in 1 .. k : left[i].of = m
<1>1. Sound(k1[t]) /\ k1[t] \in Seq(Steps) /\ k1 \in [Locks!Threads -> Seq(Steps)]
  BY DEF LocksInv, Sound
<1>2. Sound(left) /\ left \in Seq(Steps)
  BY <1>1, SoundLeft DEF Sound
<1>3. k \in 0 .. Len(left) /\ \A i \in 1 .. k : left[i].op = "drop"
  BY <1>2, DropsAre
<1>4. Held(left, 1) = Held(k1[t], n + 1)
  BY <1>1, HeldLeft
<1>5. /\ k1' = [k1 EXCEPT ![t] = rest]
      /\ k2' = [m \in Locks!Mutexes |-> IF dropped(m) THEN Nobody ELSE owns[m]]
  BY DEF Locks!Past
<1> HIDE DEF left, k
<1>6. Sound(rest) /\ rest \in Seq(Steps)
  BY <1>2, <1>3, SoundLeft DEF Sound
<1>7. \A m \in Locks!Mutexes : m \in Held(rest, 1) <=> m \in Held(left, 1) /\ ~dropped(m)
  <2>1. Held(rest, 1) = Held(left, k + 1)
    BY <1>2, <1>3, HeldLeft
  <2>2. Held(left, k + 1) = {m \in Held(left, 1) : ~dropped(m)}
    BY <1>2, <1>3, HeldPast
  <2> QED
    BY <2>1, <2>2
<1>8. \A m \in Locks!Mutexes : dropped(m) => m \in Held(left, 1)
  <2> SUFFICES ASSUME NEW m \in Locks!Mutexes, NEW i \in 1 .. k, left[i].of = m
               PROVE  m \in Held(left, 1)
    OBVIOUS
  <2>1. i \in 1 .. Len(left) /\ \A j \in 1 .. i - 1 : ~Takes(left[j])
    BY <1>2, <1>3 DEF Takes
  <2> QED
    BY <1>3, <2>1 DEF Held
<1> HIDE DEF rest, dropped
<1>9. /\ k1' \in [Locks!Threads -> Seq(Steps)] /\ k1'[t] = rest
      /\ \A u \in Locks!Threads \ {t} : k1'[u] = k1[u]
  BY <1>1, <1>5, <1>6
<1>10. /\ k2' \in [Locks!Mutexes -> Locks!Threads \cup {Nobody}]
       /\ \A m \in Locks!Mutexes : k2'[m] = IF dropped(m) THEN Nobody ELSE owns[m]
  BY <1>5
<1>11. \A m \in Locks!Mutexes : k2'[m] = t <=> m \in Held(k1'[t], 1)
  BY <1>4, <1>7, <1>9, <1>10, NobodyIsNone
<1>12. \A u \in Locks!Threads \ {t}, m \in Locks!Mutexes : k2'[m] = u <=> m \in Held(k1'[u], 1)
  <2> TAKE u \in Locks!Threads \ {t}, m \in Locks!Mutexes
  <2>1. k2[m] = u <=> m \in Held(k1[u], 1)
    BY DEF LocksInv
  <2>2. dropped(m) => owns[m] = t
    BY <1>4, <1>8
  <2> QED
    BY <1>9, <1>10, <2>1, <2>2, NobodyIsNone
<1>13. \A u \in Locks!Threads : Sound(k1'[u])
  BY <1>6, <1>9 DEF LocksInv
<1>14. \A u \in Locks!Threads, m \in Locks!Mutexes : k2'[m] = u <=> m \in Held(k1'[u], 1)
  BY <1>11, <1>12
<1>15. LocksInv' <=>
         /\ k1' \in [Locks!Threads -> Seq(Steps)]
         /\ k2' \in [Locks!Mutexes -> Locks!Threads \cup {Nobody}]
         /\ \A u \in Locks!Threads : Sound(k1'[u])
         /\ \A u \in Locks!Threads, m \in Locks!Mutexes : k2'[m] = u <=> m \in Held(k1'[u], 1)
  BY DEF LocksInv
<1> QED
  BY <1>9, <1>10, <1>13, <1>14, <1>15

\* The first step of a thread.
LEMMA HeadIs ==
    ASSUME LocksInv, NEW t \in Locks!Threads, k1[t] # <<>>
    PROVE  /\ Head(k1[t]) = k1[t][1] /\ k1[t][1] \in Steps
           /\ 1 \in DOMAIN k1[t] /\ 1 \in 0 .. Len(k1[t])
           /\ Sound(k1[t]) /\ k1[t] \in Seq(Steps) /\ SoundAt(k1[t], 1)
<1>1. k1[t] \in Seq(Steps) /\ Sound(k1[t])
  BY DEF LocksInv, Sound
<1>2. Head(k1[t]) = k1[t][1] /\ 1 \in DOMAIN k1[t] /\ 1 \in 0 .. Len(k1[t])
  BY <1>1
<1> QED
  BY <1>1, <1>2 DEF Sound

\* A mutex that is about to be taken is not held, the others stay held.
LEMMA HeldNext ==
    ASSUME NEW s \in Seq(Steps), NEW i \in DOMAIN s
    PROVE  /\ Takes(s[i]) => Held(s, i) = Held(s, i + 1) \ {s[i].of}
           /\ s[i].op = "drop" => Held(s, i) = Held(s, i + 1) \cup {s[i].of}
           /\ s[i].op = "wait" => Held(s, i) = Held(s, i + 1)
<1>1. i \in Nat /\ i >= 1 /\ i <= Len(s) /\ Len(s) \in Nat /\ s[i] \in Steps
  OBVIOUS
<1>2. ASSUME NEW m \in Held(s, i), ~(s[i].op = "drop" /\ s[i].of = m)
      PROVE  m \in Held(s, i + 1) /\ ~(Takes(s[i]) /\ s[i].of = m)
  <2>1. PICK j \in i .. Len(s) :
          /\ s[j].op = "drop" /\ s[j].of = m
          /\ \A k \in i .. j - 1 : ~(Takes(s[k]) /\ s[k].of = m)
    BY <1>2 DEF Held
  <2>2. j # i
    BY <1>2, <2>1
  <2>3. j \in i + 1 .. Len(s) /\ i \in i .. j - 1
    BY <1>1, <2>2
  <2>4. \A k \in i + 1 .. j - 1 : ~(Takes(s[k]) /\ s[k].of = m)
    BY <1>1, <2>1
  <2> QED
    BY <1>2, <2>1, <2>3, <2>4 DEF Held
<1>3. ASSUME NEW m \in Held(s, i + 1), ~(Takes(s[i]) /\ s[i].of = m)
      PROVE  m \in Held(s, i)
  <2>1. PICK j \in i + 1 .. Len(s) :
          /\ s[j].op = "drop" /\ s[j].of = m
          /\ \A k \in i + 1 .. j - 1 : ~(Takes(s[k]) /\ s[k].of = m)
    BY <1>3 DEF Held
  <2>2. j \in i .. Len(s)
    BY <1>1
  <2>3. \A k \in i .. j - 1 : ~(Takes(s[k]) /\ s[k].of = m)
    BY <1>1, <1>3, <2>1
  <2> QED
    BY <1>3, <2>1, <2>2, <2>3 DEF Held
<1>4. s[i].op = "drop" => s[i].of \in Held(s, i)
  <2> SUFFICES ASSUME s[i].op = "drop" PROVE s[i].of \in Held(s, i)
    OBVIOUS
  <2>1. s[i].of \in Locks!Mutexes
    BY <1>1, StepIs
  <2>2. i \in i .. Len(s) /\ i .. i - 1 = {}
    BY <1>1
  <2> QED
    BY <2>1, <2>2 DEF Held
<1>5. Takes(s[i]) => s[i].op # "drop"
  BY DEF Takes
<1>6. Takes(s[i]) => Held(s, i) = Held(s, i + 1) \ {s[i].of}
  BY <1>2, <1>3, <1>5
<1>7. s[i].op = "drop" => Held(s, i) = Held(s, i + 1) \cup {s[i].of}
  BY <1>2, <1>3, <1>4, <1>5
<1>8. s[i].op = "wait" => Held(s, i) = Held(s, i + 1)
  BY <1>2, <1>3 DEF Takes
<1> QED
  BY <1>6, <1>7, <1>8

\* A mutex is taken.
LEMMA TakeKeeps ==
    ASSUME LocksInv, NEW t \in Locks!Threads, k1[t] # <<>>, Takes(Head(k1[t])), Locks!Free(t),
           Locks!Past(t, 1, Locks!Owned(t))
    PROVE  LocksInv'
<1> DEFINE m == Head(k1[t]).of
           owns == [k2 EXCEPT ![m] = t]
<1>1. /\ Head(k1[t]) = k1[t][1] /\ k1[t][1] \in Steps /\ 1 \in DOMAIN k1[t]
      /\ 1 \in 0 .. Len(k1[t]) /\ k1[t] \in Seq(Steps) /\ SoundAt(k1[t], 1)
  BY HeadIs
<1>2. m \in Locks!Mutexes /\ m \in Held(k1[t], 2)
  <2>1. k1[t][1].op # "wait"
    BY <1>1 DEF Takes
  <2>2. 1 + 1 = 2
    OBVIOUS
  <2> QED
    BY <1>1, <2>1, <2>2, StepIs DEF SoundAt
<1>3. Held(k1[t], 1) = Held(k1[t], 2) \ {m}
  <2>1. 1 + 1 = 2
    OBVIOUS
  <2> QED
    BY <1>1, <2>1, HeldNext
<1>4. k2[m] = Nobody /\ Locks!Owned(t) = owns
  BY DEF Locks!Free, Locks!Mutex, Locks!Owned
<1> HIDE DEF m
<1>5. k2 \in [Locks!Mutexes -> Locks!Threads \cup {Nobody}]
  BY DEF LocksInv
<1>6. /\ owns \in [Locks!Mutexes -> Locks!Threads \cup {Nobody}] /\ owns[m] = t
      /\ \A o \in Locks!Mutexes \ {m} : owns[o] = k2[o]
  BY <1>2, <1>5
<1>7. \A o \in Locks!Mutexes : k2[o] = t <=> o \in Held(k1[t], 1)
  BY DEF LocksInv
<1>8. \A o \in Locks!Mutexes : owns[o] = t <=> o \in Held(k1[t], 1 + 1)
  <2>1. 1 + 1 = 2
    OBVIOUS
  <2> QED
    BY <1>2, <1>3, <1>6, <1>7, <2>1
<1>9. \A u \in Locks!Threads \ {t}, o \in Locks!Mutexes : owns[o] = u <=> k2[o] = u
  BY <1>4, <1>6, NobodyIsNone
<1> HIDE DEF owns
<1> QED
  BY <1>1, <1>4, <1>6, <1>8, <1>9, PastKeeps

\* Steps are left out that change nothing of what is held.
LEMMA SkipKeeps ==
    ASSUME LocksInv, NEW t \in Locks!Threads, NEW n \in 0 .. Len(k1[t]),
           Held(k1[t], n + 1) = Held(k1[t], 1), Locks!Past(t, n, k2)
    PROVE  LocksInv'
<1>1. /\ k2 \in [Locks!Mutexes -> Locks!Threads \cup {Nobody}]
      /\ \A o \in Locks!Mutexes : k2[o] = t <=> o \in Held(k1[t], 1)
  BY DEF LocksInv
<1> QED
  BY <1>1, PastKeeps

\* In a circle one thread would wait for a mutex of the highest rank.
LEMMA NoCircle == LocksInv => Locks!TypeOK /\ Locks!NobodyWaitsInACircle
<1> SUFFICES ASSUME LocksInv PROVE Locks!TypeOK /\ Locks!NobodyWaitsInACircle
  OBVIOUS
<1>1. Locks!TypeOK
  <2>1. ASSUME NEW m \in Locks!Mutexes, k2[m] # Nobody
        PROVE  \E i \in DOMAIN k1[k2[m]] :
                  k1[k2[m]][i] = [op |-> "drop", of |-> m]
    <3> DEFINE t == k2[m]
    <3>1. t \in Locks!Threads /\ k1[t] \in Seq(Steps) /\ m \in Held(k1[t], 1)
      BY <2>1 DEF LocksInv
    <3>2. PICK j \in 1 .. Len(k1[t]) : k1[t][j].op = "drop" /\ k1[t][j].of = m
      BY <3>1 DEF Held
    <3>3. j \in DOMAIN k1[t] /\ k1[t][j] \in Steps
      BY <3>1
    <3> QED
      BY <3>2, <3>3, StepIs
  <2> QED
    BY <2>1 DEF Locks!TypeOK, LocksInv
<1>2. ASSUME NEW T \in SUBSET Locks!Threads, T # {}, \A u \in T : Locks!Before(u) \in T
      PROVE  FALSE
  <2>1. ASSUME NEW u \in T
        PROVE  /\ Locks!Doing(u, "lock") /\ Locks!Mutex(u) \in Locks!Mutexes
               /\ Locks!Before(u) \in T /\ Locks!Mutex(u) \in Held(k1[Locks!Before(u)], 1)
    <3>1. Locks!Doing(u, "lock") /\ Locks!Before(u) = k2[Locks!Mutex(u)]
      BY <1>2, NobodyIsNone DEF Locks!Before
    <3>2. Locks!Mutex(u) \in Locks!Mutexes
      <4>1. k1[u] # <<>> /\ Head(k1[u]).op = "lock"
        BY <3>1 DEF Locks!Doing
      <4> QED
        BY <4>1, HeadIs, StepIs DEF Locks!Mutex
    <3>3. Locks!Before(u) \in T
      BY <1>2
    <3> QED
      BY <3>1, <3>2, <3>3 DEF LocksInv
  <2>2. ASSUME NEW u \in T
        PROVE  Rank(Locks!Mutex(u)) < Rank(Locks!Mutex(Locks!Before(u)))
    <3> DEFINE v == Locks!Before(u)
    <3>1. v \in T /\ Locks!Doing(v, "lock") /\ Locks!Mutex(u) \in Held(k1[v], 1)
      BY <2>1
    <3> HIDE DEF v
    <3>2. k1[v] # <<>> /\ Head(k1[v]).op = "lock"
      BY <3>1 DEF Locks!Doing
    <3>3. SoundAt(k1[v], 1) /\ Head(k1[v]) = k1[v][1]
      BY <3>1, <3>2, HeadIs
    <3>4. Rank(Locks!Mutex(u)) < Rank(Locks!Mutex(v))
      BY <3>1, <3>2, <3>3 DEF SoundAt, Locks!Mutex
    <3> QED
      BY <3>4 DEF v
  <2> DEFINE Below == {12 - Rank(Locks!Mutex(u)) : u \in T}
  <2>3. \A u \in T : Rank(Locks!Mutex(u)) \in 1 .. 12
    BY <2>1, Ranks
  <2>4. Below \in SUBSET Nat /\ Below # {}
    BY <1>2, <2>3
  <2>5. PICK b \in Below : \A c \in Below : b <= c
    BY <2>4, LeastIs
  <2>6. PICK u \in T : b = 12 - Rank(Locks!Mutex(u))
    BY <2>5
  <2>7. Locks!Before(u) \in T /\ 12 - Rank(Locks!Mutex(Locks!Before(u))) \in Below
    BY <2>1
  <2> HIDE DEF Below
  <2>8. b <= 12 - Rank(Locks!Mutex(Locks!Before(u)))
    BY <2>5, <2>7
  <2> QED
    BY <2>2, <2>3, <2>6, <2>7, <2>8
<1>3. ASSUME NEW t \in Locks!Threads, Locks!Doing(t, "wait"), NEW m \in Locks!Mutexes
      PROVE  k2[m] # t
  <2>1. k1[t] # <<>> /\ Head(k1[t]).op = "wait"
    BY <1>3 DEF Locks!Doing
  <2>2. Held(k1[t], 1) = {}
    BY <2>1, HeadIs DEF SoundAt
  <2> QED
    BY <2>2 DEF LocksInv
<1> QED
  BY <1>1, <1>2, <1>3 DEF Locks!NobodyWaitsInACircle

-----------------------------------------------------------------------------
(* How commands are put together. *)

\* The empty command.
LEMMA EmptyBlock == \A r : Block(<<>>, r)
<1>1. <<>> \in Seq(Steps) /\ DOMAIN <<>> = {} /\ Len(<<>>) = 0
  OBVIOUS
<1>2. Held(<<>>, 1) = {}
  BY <1>1 DEF Held
<1> QED
  BY <1>1, <1>2 DEF Block, Sound

\* One after the other.
LEMMA ThenBlock ==
    ASSUME NEW r \in Nat, NEW a, Block(a, r), NEW b, Block(b, r)
    PROVE  Block(a \o b, r)
<1> DEFINE s == a \o b
           n == Len(a)
<1>1. /\ a \in Seq(Steps) /\ b \in Seq(Steps) /\ n \in Nat /\ Len(b) \in Nat
      /\ Held(a, 1) = {} /\ Held(b, 1) = {}
  BY DEF Block, Sound
<1>2. /\ s \in Seq(Steps) /\ Len(s) = n + Len(b)
      /\ \A i \in 1 .. n : s[i] = a[i]
      /\ \A i \in 1 .. Len(b) : s[n + i] = b[i]
      /\ \A i \in n + 1 .. n + Len(b) : s[i] = b[i - n]
  BY <1>1
<1>3. b = SubSeq(s, n + 1, Len(s)) /\ n \in 0 .. Len(s)
  BY <1>1, <1>2
<1>4. \A i \in Nat \ {0} : Held(b, i) = Held(s, n + i)
  BY <1>2, <1>3, HeldLeft
<1> HIDE DEF s, n
<1>5. ASSUME NEW i \in 1 .. n + 1
      PROVE  Held(s, i) = Held(a, i)
  <2>1. ASSUME NEW m \in Held(s, i)
        PROVE  m \in Held(a, i)
    <3>1. PICK j \in i .. Len(s) :
            /\ s[j].op = "drop" /\ s[j].of = m
            /\ \A k \in i .. j - 1 : ~(Takes(s[k]) /\ s[k].of = m)
      BY <2>1 DEF Held
    <3>2. ASSUME j > n PROVE FALSE
      <4>1. j - n \in 1 .. Len(b) /\ b[j - n] = s[j]
        BY <1>1, <1>2, <3>2
      <4>2. \A k \in 1 .. (j - n) - 1 : ~(Takes(b[k]) /\ b[k].of = m)
        <5> TAKE k \in 1 .. (j - n) - 1
        <5>1. n + k \in i .. j - 1 /\ k \in 1 .. Len(b)
          BY <1>1, <1>2, <3>2
        <5> QED
          BY <1>2, <3>1, <5>1
      <4>3. m \in Held(b, 1)
        BY <2>1, <3>1, <4>1, <4>2 DEF Held
      <4> QED
        BY <1>1, <4>3
    <3>3. j \in i .. n /\ a[j] = s[j]
      BY <1>1, <1>2, <3>2
    <3>4. \A k \in i .. j - 1 : ~(Takes(a[k]) /\ a[k].of = m)
      BY <1>1, <1>2, <3>1, <3>3
    <3> QED
      BY <2>1, <3>1, <3>3, <3>4 DEF Held, n
  <2>2. ASSUME NEW m \in Held(a, i)
        PROVE  m \in Held(s, i)
    <3>1. PICK j \in i .. n :
            /\ a[j].op = "drop" /\ a[j].of = m
            /\ \A k \in i .. j - 1 : ~(Takes(a[k]) /\ a[k].of = m)
      BY <2>2 DEF Held, n
    <3>2. j \in i .. Len(s) /\ s[j] = a[j]
      BY <1>1, <1>2
    <3>3. \A k \in i .. j - 1 : ~(Takes(s[k]) /\ s[k].of = m)
      BY <1>1, <1>2, <3>1
    <3> QED
      BY <2>2, <3>1, <3>2, <3>3 DEF Held
  <2> QED
    BY <2>1, <2>2
<1>6. ASSUME NEW i \in 1 .. n
      PROVE  SoundAt(s, i) /\ Above(s[i], r)
  <2>1. /\ SoundAt(a, i) /\ Above(a[i], r) /\ s[i] = a[i]
        /\ Held(s, i) = Held(a, i) /\ Held(s, i + 1) = Held(a, i + 1)
    <3>1. i \in DOMAIN a /\ i \in 1 .. n + 1 /\ i + 1 \in 1 .. n + 1
      BY <1>1 DEF n
    <3> QED
      BY <1>2, <1>5, <3>1 DEF Block, Sound
  <2>2. ASSUME a[i].op = "try"
        PROVE  /\ i + 1 + a[i].skip <= Len(s) + 1
               /\ Held(s, i + 1 + a[i].skip) = Held(s, i)
    <3>1. a[i].skip \in Nat
      <4>1. a[i] \in Steps
        BY <1>1 DEF n
      <4> QED
        BY <2>2, <4>1, StepIs
    <3>2. i + 1 + a[i].skip <= n + 1 /\ Held(a, i + 1 + a[i].skip) = Held(a, i)
      BY <2>1, <2>2 DEF SoundAt, n
    <3>3. i + 1 + a[i].skip \in 1 .. n + 1 /\ i + 1 + a[i].skip <= Len(s) + 1
      <4> DEFINE skip == a[i].skip
      <4>1. i \in Nat /\ n \in Nat /\ Len(b) \in Nat /\ skip \in Nat
        BY <1>1, <3>1
      <4>2. Len(s) = n + Len(b) /\ i + 1 + skip <= n + 1
        BY <1>2, <3>2
      <4> HIDE DEF skip
      <4>3. i + 1 + skip \in 1 .. n + 1 /\ i + 1 + skip <= Len(s) + 1
        BY <4>1, <4>2
      <4> QED
        BY <4>3 DEF skip
    <3> QED
      BY <1>5, <2>1, <3>2, <3>3
  <2> QED
    BY <2>1, <2>2 DEF SoundAt
<1>7. ASSUME NEW i \in 1 .. Len(b)
      PROVE  SoundAt(s, n + i) /\ Above(s[n + i], r)
  <2>1. /\ SoundAt(b, i) /\ Above(b[i], r) /\ s[n + i] = b[i]
        /\ Held(s, n + i) = Held(b, i) /\ Held(s, n + i + 1) = Held(b, i + 1)
    <3>1. i \in DOMAIN b /\ i \in Nat \ {0} /\ i + 1 \in Nat \ {0} /\ n + (i + 1) = n + i + 1
      BY <1>1
    <3>2. Held(b, i) = Held(s, n + i) /\ Held(b, i + 1) = Held(s, n + (i + 1))
      BY <1>4, <3>1
    <3> QED
      BY <1>2, <3>1, <3>2 DEF Block, Sound
  <2>2. ASSUME b[i].op = "try"
        PROVE  /\ n + i + 1 + b[i].skip <= Len(s) + 1
               /\ Held(s, n + i + 1 + b[i].skip) = Held(s, n + i)
    <3>1. b[i].skip \in Nat
      <4>1. b[i] \in Steps
        BY <1>1
      <4> QED
        BY <2>2, <4>1, StepIs
    <3>2. i + 1 + b[i].skip <= Len(b) + 1 /\ Held(b, i + 1 + b[i].skip) = Held(b, i)
      BY <2>1, <2>2 DEF SoundAt
    <3>3. /\ i + 1 + b[i].skip \in Nat \ {0}
          /\ n + (i + 1 + b[i].skip) = n + i + 1 + b[i].skip
          /\ n + i + 1 + b[i].skip <= Len(s) + 1
      <4> DEFINE skip == b[i].skip
      <4>1. i \in Nat /\ n \in Nat /\ Len(b) \in Nat /\ skip \in Nat
        BY <1>1, <3>1
      <4>2. Len(s) = n + Len(b) /\ i + 1 + skip <= Len(b) + 1
        BY <1>2, <3>2
      <4> HIDE DEF skip
      <4>3. /\ i + 1 + skip \in Nat \ {0} /\ n + (i + 1 + skip) = n + i + 1 + skip
            /\ n + i + 1 + skip <= Len(s) + 1
        BY <4>1, <4>2
      <4> QED
        BY <4>3 DEF skip
    <3> QED
      BY <1>4, <2>1, <3>2, <3>3
  <2> QED
    BY <2>1, <2>2 DEF SoundAt
<1>8. \A i \in DOMAIN s : SoundAt(s, i) /\ Above(s[i], r)
  <2> TAKE i \in DOMAIN s
  <2>1. i \in 1 .. n \/ (i - n \in 1 .. Len(b) /\ n + (i - n) = i)
    BY <1>1, <1>2
  <2> QED
    BY <1>6, <1>7, <2>1
<1>9. Held(s, 1) = {}
  <2>1. 1 \in 1 .. n + 1
    BY <1>1
  <2> QED
    BY <1>1, <1>5, <2>1
<1>10. Block(s, r)
  BY <1>2, <1>8, <1>9 DEF Block, Sound
<1> QED
  BY <1>10 DEF s

\* A scope in which one more mutex is held, of a lower rank than what it takes.
LEMMA ScopeBlock ==
    ASSUME NEW r \in Nat, NEW m \in Locks!Mutexes, Rank(m) > r,
           NEW scope, Block(scope, Rank(m)),
           NEW first \in Steps, Takes(first), first.of = m,
           first.op = "try" => first.skip = Len(scope) + 1
    PROVE  Block(<<first>> \o scope \o <<[op |-> "drop", of |-> m]>>, r)
<1> DEFINE last == [op |-> "drop", of |-> m]
           s == <<first>> \o scope \o <<last>>
           n == Len(scope)
<1>1. /\ scope \in Seq(Steps) /\ n \in Nat /\ Held(scope, 1) = {} /\ last \in Steps
      /\ last.op = "drop" /\ last.of = m
      /\ \A i \in 1 .. n : SoundAt(scope, i) /\ Above(scope[i], Rank(m)) /\ scope[i] \in Steps
  BY DEF Block, Sound, Steps
<1> HIDE DEF last
<1>2. /\ s \in Seq(Steps) /\ Len(s) = n + 2 /\ s[1] = first /\ s[n + 2] = last
      /\ \A i \in 1 .. n : s[i + 1] = scope[i]
      /\ \A i \in 2 .. n + 1 : s[i] = scope[i - 1]
  <2>1. /\ <<first>> \o scope \in Seq(Steps) /\ Len(<<first>> \o scope) = n + 1
        /\ (<<first>> \o scope)[1] = first
        /\ \A i \in 2 .. n + 1 : (<<first>> \o scope)[i] = scope[i - 1]
    BY <1>1
  <2>2. /\ s \in Seq(Steps) /\ Len(s) = n + 2 /\ s[n + 2] = last
        /\ \A i \in 1 .. n + 1 : s[i] = (<<first>> \o scope)[i]
    BY <1>1, <2>1
  <2>3. s[1] = first /\ \A i \in 2 .. n + 1 : s[i] = scope[i - 1]
    <3>1. 1 \in 1 .. n + 1 /\ \A i \in 2 .. n + 1 : i \in 1 .. n + 1
      BY <1>1
    <3> QED
      BY <2>1, <2>2, <3>1
  <2>4. \A i \in 1 .. n : s[i + 1] = scope[i]
    <3> TAKE i \in 1 .. n
    <3>1. i + 1 \in 2 .. n + 1 /\ (i + 1) - 1 = i
      BY <1>1
    <3> QED
      BY <2>3, <3>1
  <2> QED
    BY <2>2, <2>3, <2>4
<1> HIDE DEF s, n
<1>3. Rank(m) \in Nat /\ Rank(m) > 0
  BY Ranks
<1>4. \A i \in 1 .. n : /\ scope[i].op # "wait" /\ Rank(scope[i].of) > Rank(m)
                        /\ scope[i].of \in Locks!Mutexes /\ scope[i].of # m
  <2> TAKE i \in 1 .. n
  <2>1. Above(scope[i], Rank(m)) /\ scope[i] \in Steps
    BY <1>1
  <2>2. scope[i].op # "wait" /\ Rank(scope[i].of) > Rank(m)
    BY <1>3, <2>1 DEF Above
  <2> QED
    BY <1>3, <2>1, <2>2, StepIs
<1>5. ASSUME NEW i \in 1 .. n + 1
      PROVE  Held(s, i + 1) = Held(scope, i) \cup {m}
  <2>1. ASSUME NEW o \in Held(s, i + 1), o # m
        PROVE  o \in Held(scope, i)
    <3>1. PICK j \in i + 1 .. Len(s) :
            /\ s[j].op = "drop" /\ s[j].of = o
            /\ \A k \in i + 1 .. j - 1 : ~(Takes(s[k]) /\ s[k].of = o)
      BY <2>1 DEF Held
    <3>2. j # n + 2
      BY <1>1, <1>2, <2>1, <3>1
    <3>3. j - 1 \in i .. n /\ j \in 2 .. n + 1
      BY <1>1, <1>2, <3>2
    <3>4. \A k \in i .. (j - 1) - 1 : ~(Takes(scope[k]) /\ scope[k].of = o)
      <4> TAKE k \in i .. (j - 1) - 1
      <4>1. k + 1 \in i + 1 .. j - 1 /\ k \in 1 .. n
        BY <1>1, <3>3
      <4> QED
        BY <1>2, <3>1, <4>1
    <3>5. scope[j - 1] = s[j]
      BY <1>2, <3>3
    <3> QED
      BY <2>1, <3>1, <3>3, <3>4, <3>5 DEF Held, n
  <2>2. ASSUME NEW o \in Held(scope, i)
        PROVE  o \in Held(s, i + 1)
    <3>1. PICK j \in i .. n :
            /\ scope[j].op = "drop" /\ scope[j].of = o
            /\ \A k \in i .. j - 1 : ~(Takes(scope[k]) /\ scope[k].of = o)
      BY <2>2 DEF Held, n
    <3>2. j + 1 \in i + 1 .. Len(s) /\ j \in 1 .. n
      BY <1>1, <1>2
    <3>3. \A k \in i + 1 .. (j + 1) - 1 : ~(Takes(s[k]) /\ s[k].of = o)
      <4> TAKE k \in i + 1 .. (j + 1) - 1
      <4>1. k - 1 \in i .. j - 1 /\ k \in 2 .. n + 1
        BY <1>1
      <4> QED
        BY <1>2, <3>1, <4>1
    <3> QED
      BY <1>2, <2>2, <3>1, <3>2, <3>3 DEF Held
  <2>3. m \in Held(s, i + 1)
    <3>1. n + 2 \in i + 1 .. Len(s) /\ s[n + 2].op = "drop" /\ s[n + 2].of = m
      BY <1>1, <1>2
    <3>2. \A k \in i + 1 .. (n + 2) - 1 : ~(Takes(s[k]) /\ s[k].of = m)
      <4> TAKE k \in i + 1 .. (n + 2) - 1
      <4>1. k - 1 \in 1 .. n /\ k \in 2 .. n + 1
        BY <1>1
      <4> QED
        BY <1>2, <1>4, <4>1
    <3> QED
      BY <3>1, <3>2 DEF Held
  <2> QED
    BY <2>1, <2>2, <2>3
<1>6. Held(s, n + 3) = {}
  BY <1>1, <1>2 DEF Held
<1>7. Held(s, 2) = {m} /\ Held(s, 1) = {}
  <2>1. 1 \in 1 .. n + 1 /\ 1 + 1 = 2 /\ 1 \in DOMAIN s
    BY <1>1, <1>2
  <2>2. Held(s, 2) = {m}
    BY <1>1, <1>5, <2>1
  <2>3. Held(s, 1) = Held(s, 2) \ {m}
    BY <1>2, <2>1, HeldNext
  <2> QED
    BY <2>2, <2>3
<1>8. SoundAt(s, 1) /\ Above(s[1], r)
  <2>1. Takes(s[1]) /\ s[1].of = m /\ s[1].op \in {"lock", "try"}
        /\ m \in Held(s, 1 + 1)
    BY <1>2, <1>7 DEF Takes
  <2>2. ASSUME s[1].op = "try"
        PROVE  1 + 1 + s[1].skip <= Len(s) + 1 /\ Held(s, 1 + 1 + s[1].skip) = Held(s, 1)
    <3>1. 1 + 1 + s[1].skip = n + 3 /\ n + 3 <= Len(s) + 1
      BY <1>1, <1>2, <2>2 DEF n
    <3> QED
      BY <1>6, <1>7, <3>1
  <2>3. SoundAt(s, 1)
    BY <1>7, <2>1, <2>2 DEF SoundAt
  <2>4. Above(s[1], r)
    BY <2>1 DEF Above
  <2> QED
    BY <2>3, <2>4
<1>9. SoundAt(s, n + 2) /\ Above(s[n + 2], r)
  <2>1. s[n + 2].op = "drop" /\ s[n + 2].of = m /\ (n + 2) + 1 = n + 3
    BY <1>1, <1>2
  <2> QED
    BY <1>6, <2>1 DEF SoundAt, Above, Takes
<1>10. ASSUME NEW i \in 1 .. n
       PROVE  SoundAt(s, i + 1) /\ Above(s[i + 1], r)
  <2>1. /\ SoundAt(scope, i) /\ s[i + 1] = scope[i] /\ scope[i] \in Steps
        /\ scope[i].op # "wait" /\ Rank(scope[i].of) > Rank(m)
        /\ scope[i].of \in Locks!Mutexes /\ scope[i].of # m
    BY <1>1, <1>2, <1>4
  <2>2. /\ Held(s, i + 1) = Held(scope, i) \cup {m}
        /\ Held(s, (i + 1) + 1) = Held(scope, i + 1) \cup {m}
    <3>1. i \in 1 .. n + 1 /\ i + 1 \in 1 .. n + 1
      BY <1>1
    <3> QED
      BY <1>5, <3>1
  <2>3. ASSUME scope[i].op = "try"
        PROVE  /\ (i + 1) + 1 + scope[i].skip <= Len(s) + 1
               /\ Held(s, (i + 1) + 1 + scope[i].skip) = Held(s, i + 1)
    <3>1. scope[i].skip \in Nat
      BY <2>1, <2>3, StepIs
    <3>2. i + 1 + scope[i].skip <= n + 1 /\ Held(scope, i + 1 + scope[i].skip) = Held(scope, i)
      BY <2>1, <2>3 DEF SoundAt, n
    <3>3. /\ i + 1 + scope[i].skip \in 1 .. n + 1
          /\ (i + 1 + scope[i].skip) + 1 = (i + 1) + 1 + scope[i].skip
          /\ (i + 1) + 1 + scope[i].skip <= Len(s) + 1
      <4> DEFINE skip == scope[i].skip
      <4>1. i \in Nat /\ n \in Nat /\ skip \in Nat
        BY <1>1, <3>1
      <4>2. Len(s) = n + 2 /\ i + 1 + skip <= n + 1
        BY <1>2, <3>2
      <4> HIDE DEF skip
      <4>3. /\ i + 1 + skip \in 1 .. n + 1 /\ (i + 1 + skip) + 1 = (i + 1) + 1 + skip
            /\ (i + 1) + 1 + skip <= Len(s) + 1
        BY <4>1, <4>2
      <4> QED
        BY <4>3 DEF skip
    <3>4. Held(s, (i + 1 + scope[i].skip) + 1) = Held(scope, i + 1 + scope[i].skip) \cup {m}
      BY <1>5, <3>3
    <3> QED
      BY <2>2, <3>2, <3>3, <3>4
  <2>4. SoundAt(s, i + 1)
    BY <2>1, <2>2, <2>3 DEF SoundAt
  <2>5. Above(s[i + 1], r)
    <3>1. Rank(scope[i].of) \in Nat
      BY <2>1, Ranks
    <3> QED
      BY <1>3, <2>1, <3>1 DEF Above
  <2> QED
    BY <2>4, <2>5
<1>11. \A i \in DOMAIN s : SoundAt(s, i) /\ Above(s[i], r)
  <2> TAKE i \in DOMAIN s
  <2>1. i = 1 \/ i = n + 2 \/ (i - 1 \in 1 .. n /\ (i - 1) + 1 = i)
    BY <1>1, <1>2
  <2> QED
    BY <1>8, <1>9, <1>10, <2>1
<1>12. Block(s, r)
  BY <1>2, <1>7, <1>11 DEF Block, Sound
<1> QED
  BY <1>12 DEF s, last

-----------------------------------------------------------------------------
(* The commands. *)

\* A guard over its scope.
LEMMA WithBlock ==
    ASSUME NEW r \in Nat, NEW m \in Locks!Mutexes, Rank(m) > r,
           NEW scope, Block(scope, Rank(m))
    PROVE  Block(Locks!With(m, scope), r)
<1> DEFINE first == [op |-> "lock", of |-> m]
<1>1. first \in Steps /\ Takes(first) /\ first.of = m /\ first.op = "lock"
  BY DEF Steps, Takes
<1> HIDE DEF first
<1>2. Block(<<first>> \o scope \o <<[op |-> "drop", of |-> m]>>, r)
  BY <1>1, ScopeBlock
<1> QED
  BY <1>2 DEF Locks!With, first

\* The same for a mutex that is only tried.
LEMMA TryWithBlock ==
    ASSUME NEW r \in Nat, NEW m \in Locks!Mutexes, Rank(m) > r,
           NEW scope, Block(scope, Rank(m))
    PROVE  Block(Locks!TryWith(m, scope), r)
<1> DEFINE first == [op |-> "try", of |-> m, skip |-> Len(scope) + 1]
<1>1. Len(scope) \in Nat
  BY DEF Block, Sound
<1>2. /\ first \in Steps /\ Takes(first) /\ first.of = m
      /\ first.skip = Len(scope) + 1
  BY <1>1 DEF Steps, Takes
<1> HIDE DEF first
<1>3. Block(<<first>> \o scope \o <<[op |-> "drop", of |-> m]>>, r)
  BY <1>2, ScopeBlock
<1> QED
  BY <1>3 DEF Locks!TryWith, first

\* A mutex that is taken and dropped at once.
LEMMA TouchBlock ==
    ASSUME NEW r \in Nat, NEW m \in Locks!Mutexes, Rank(m) > r
    PROVE  Block(Locks!Touch(m), r)
<1>1. Rank(m) \in Nat
  BY Ranks
<1> QED
  BY <1>1, EmptyBlock, WithBlock DEF Locks!Touch

\* Waiting for the person with nothing held.
LEMMA PersonBlock == Block(Locks!Person, 0)
<1> DEFINE x == [op |-> "wait", of |-> "person"]
<1>1. /\ Locks!Person \in Seq(Steps) /\ Len(Locks!Person) = 1 /\ DOMAIN Locks!Person = {1}
      /\ Locks!Person[1] = x /\ x.op = "wait"
  BY DEF Locks!Person, Steps
<1> HIDE DEF x
<1>2. Held(Locks!Person, 1) = {}
  BY <1>1 DEF Held
<1>3. SoundAt(Locks!Person, 1) /\ Above(Locks!Person[1], 0)
  BY <1>1, <1>2 DEF SoundAt, Takes, Above
<1> QED
  BY <1>1, <1>2, <1>3 DEF Block, Sound

\* The mutexes, and what may be taken under each.
LEMMA MutexNames ==
    /\ "active" \in Locks!Mutexes /\ "sessions" \in Locks!Mutexes /\ "workspace" \in Locks!Mutexes
    /\ "maintenance_confirmation" \in Locks!Mutexes /\ "processes" \in Locks!Mutexes
    /\ "applications" \in Locks!Mutexes /\ "overview" \in Locks!Mutexes
    /\ "configuration_gate" \in Locks!Mutexes /\ "settings" \in Locks!Mutexes
    /\ "inventory" \in Locks!Mutexes /\ "scanner" \in Locks!Mutexes /\ "control" \in Locks!Mutexes
  BY DEF Locks!Mutexes

\* Every command holds nothing at its ends and takes the mutexes by their ranks.
LEMMA CommandsBlock == \A c \in Locks!MainCommands \cup Locks!WorkerCommands : Block(c, 0)
<1>1. /\ \A m \in Locks!Mutexes : Rank(m) > 0 /\ Rank(m) \in Nat
      /\ 0 \in Nat /\ 1 \in Nat /\ 2 \in Nat /\ 3 \in Nat /\ 4 \in Nat /\ 6 \in Nat /\ 7 \in Nat
  BY Ranks
<1>2. \A m \in Locks!Mutexes : Block(Locks!Touch(m), 0)
  BY <1>1, TouchBlock
<1>3. \A a, b : Block(a, 0) /\ Block(b, 0) => Block(a \o b, 0)
  BY <1>1, ThenBlock
<1>4. \A m \in Locks!Mutexes : \A scope : Block(scope, Rank(m)) => Block(Locks!With(m, scope), 0)
  BY <1>1, WithBlock
<1>5. /\ Block(Locks!Touch("active"), 1) /\ Block(Locks!Touch("control"), 2)
      /\ Block(Locks!Touch("sessions"), 3)
      /\ Block(Locks!Touch("control"), 3) /\ Block(Locks!Touch("control"), 4)
      /\ Block(Locks!Touch("workspace"), 4)
      /\ Block(Locks!Touch("settings"), 6) /\ Block(Locks!Touch("inventory"), 6)
      /\ Block(Locks!Touch("inventory"), 7)
  BY <1>1, Ranks, MutexNames, TouchBlock
<1>6. Block(Locks!LoadWorkspace, 0) /\ Block(Locks!Register, 0) /\ Block(Locks!SaveWorkspace, 0)
  BY <1>2, <1>3, <1>4, <1>5, Ranks, MutexNames
  DEF Locks!LoadWorkspace, Locks!Register, Locks!SaveWorkspace
<1>7. Block(Locks!Touch("sessions") \o Locks!Touch("control"), 3)
  BY <1>1, <1>5, ThenBlock
<1>8. Block(Locks!Answer, 0) /\ Block(Locks!Answer, 1)
  <2>1. Block(Locks!With("active", Locks!Touch("sessions") \o Locks!Touch("control")), 0)
    BY <1>4, <1>7, Ranks, MutexNames
  <2>2. Block(Locks!With("active", Locks!Touch("sessions") \o Locks!Touch("control")), 1)
    BY <1>1, <1>7, Ranks, MutexNames, WithBlock
  <2> QED
    BY <2>1, <2>2 DEF Locks!Answer
<1>9. Block(Locks!Confirm, 0) /\ Block(Locks!ConfirmMaintenance, 0)
  BY <1>2, <1>3, <1>4, <1>8, Ranks, MutexNames DEF Locks!Confirm, Locks!ConfirmMaintenance
<1>10. /\ Block(Locks!CancelFor, 0) /\ Block(Locks!Reserve, 0)
       /\ Block(Locks!Release, 0) /\ Block(Locks!Release, 2)
  <2>1. Block(Locks!With("active", Locks!Touch("control")), 0)
    BY <1>4, <1>5, Ranks, MutexNames
  <2>2. Block(Locks!With("active", Locks!Touch("control")), 2)
    BY <1>1, <1>5, Ranks, MutexNames, WithBlock
  <2> QED
    BY <2>1, <2>2 DEF Locks!CancelFor, Locks!Reserve, Locks!Release
<1>11. Block(Locks!Cancel, 0)
  <2>1. Block(Locks!TryWith("processes", Locks!Touch("control")), 0)
    BY <1>1, <1>5, Ranks, MutexNames, TryWithBlock
  <2> QED
    BY <1>2, <1>3, <2>1, MutexNames DEF Locks!Cancel
<1>12. Block(Locks!With("active", Locks!With("sessions", Locks!Touch("control"))), 0)
  <2>1. Block(Locks!With("sessions", Locks!Touch("control")), 3)
    BY <1>1, <1>5, Ranks, MutexNames, WithBlock
  <2> QED
    BY <1>4, <2>1, Ranks, MutexNames
<1>13. Block(Locks!With("active", Locks!With("sessions", Locks!Touch("workspace"))), 0)
  <2>1. Block(Locks!With("sessions", Locks!Touch("workspace")), 3)
    BY <1>1, <1>5, Ranks, MutexNames, WithBlock
  <2> QED
    BY <1>4, <2>1, Ranks, MutexNames
<1>14. Block(Locks!DeleteSession, 0)
  BY <1>2, <1>3, <1>12, <1>13, MutexNames DEF Locks!DeleteSession
<1>15. Block(Locks!InventoryCommand, 0) /\ Block(Locks!SetIndexPolicy, 0)
  BY <1>2, <1>3, <1>4, <1>5, <1>10, Ranks, MutexNames
  DEF Locks!InventoryCommand, Locks!SetIndexPolicy
<1>16. Block(Locks!Save, 0)
  <2> DEFINE both == Locks!Touch("settings") \o Locks!Touch("inventory")
             gate == Locks!With("configuration_gate", both)
             kept == Locks!With("sessions", gate)
  <2>1. Block(both, 6)
    BY <1>1, <1>5, ThenBlock
  <2> HIDE DEF both
  <2>2. Block(gate, 4)
    BY <1>1, <2>1, Ranks, MutexNames, WithBlock
  <2> HIDE DEF gate
  <2>3. Block(kept, 0)
    BY <1>4, <2>2, Ranks, MutexNames
  <2> HIDE DEF kept
  <2>4. Locks!Save = Locks!Reserve \o kept \o Locks!Release
    BY DEF Locks!Save, kept, gate, both
  <2> QED
    BY <1>3, <1>10, <2>3, <2>4
<1>17. Block(Locks!Overview, 0)
  BY <1>2, <1>3, <1>10, MutexNames DEF Locks!Overview
<1>18. Block(Locks!Prepare, 0) /\ Block(Locks!Resolve, 0) /\ Block(Locks!ApplicationAction, 0)
  BY <1>2, <1>3, <1>4, <1>5, <1>10, Ranks, MutexNames
  DEF Locks!Prepare, Locks!Resolve, Locks!ApplicationAction
<1>19. Block(Locks!Agreement, 0)
  BY <1>2, <1>3, PersonBlock, MutexNames DEF Locks!Agreement
<1>20. Block(Locks!Execute, 0)
  BY <1>2, <1>3, <1>10, <1>12, <1>19, MutexNames DEF Locks!Execute, Locks!ReserveFor
<1>21. Block(Locks!Watch, 0)
  BY <1>2, <1>3, <1>4, <1>5, Ranks, MutexNames DEF Locks!Watch
<1> QED
  BY <1>6, <1>9, <1>10, <1>11, <1>14, <1>15, <1>16, <1>17, <1>18, <1>20, <1>21
  DEF Locks!MainCommands, Locks!WorkerCommands

-----------------------------------------------------------------------------
(* The invariant. *)

LEMMA LocksStart == Locks!Init => LocksInv
<1> SUFFICES ASSUME Locks!Init PROVE LocksInv
  OBVIOUS
<1>1. /\ k1 = [t \in Locks!Threads |-> <<>>] /\ k2 = [m \in Locks!Mutexes |-> Nobody]
  BY DEF Locks!Init
<1>2. Sound(<<>>) /\ Held(<<>>, 1) = {} /\ <<>> \in Seq(Steps)
  BY EmptyBlock DEF Block
<1>3. \A t \in Locks!Threads : k1[t] = <<>>
  BY <1>1
<1>4. \A m \in Locks!Mutexes, t \in Locks!Threads : k2[m] # t
  BY <1>1, NobodyIsNone
<1> QED
  BY <1>1, <1>2, <1>3, <1>4 DEF LocksInv

LEMMA StartKeeps == ASSUME LocksInv, NEW t \in Locks!Threads, Locks!Start(t) PROVE LocksInv'
<1>1. PICK c \in Locks!MainCommands \cup Locks!WorkerCommands :
         k1' = [k1 EXCEPT ![t] = c] /\ k2' = k2 /\ k1[t] = <<>>
  BY DEF Locks!Start
<1>2. Sound(c) /\ c \in Seq(Steps) /\ Held(c, 1) = {}
  BY <1>1, CommandsBlock DEF Block, Sound
<1>3. Held(k1[t], 1) = {}
  BY <1>1, EmptyBlock DEF Block
<1>4. /\ k1 \in [Locks!Threads -> Seq(Steps)]
      /\ k2 \in [Locks!Mutexes -> Locks!Threads \cup {Nobody}]
      /\ \A u \in Locks!Threads : Sound(k1[u])
      /\ \A u \in Locks!Threads, m \in Locks!Mutexes : k2[m] = u <=> m \in Held(k1[u], 1)
  BY DEF LocksInv
<1>5. k1'[t] = c /\ \A u \in Locks!Threads \ {t} : k1'[u] = k1[u]
  BY <1>1, <1>4
<1>6. k1' \in [Locks!Threads -> Seq(Steps)] /\ \A u \in Locks!Threads : Sound(k1'[u])
  BY <1>1, <1>2, <1>4, <1>5
<1>7. \A u \in Locks!Threads, m \in Locks!Mutexes : k2'[m] = u <=> m \in Held(k1'[u], 1)
  BY <1>1, <1>2, <1>3, <1>4, <1>5
<1>8. LocksInv' <=>
         /\ k1' \in [Locks!Threads -> Seq(Steps)]
         /\ k2' \in [Locks!Mutexes -> Locks!Threads \cup {Nobody}]
         /\ \A u \in Locks!Threads : Sound(k1'[u])
         /\ \A u \in Locks!Threads, m \in Locks!Mutexes : k2'[m] = u <=> m \in Held(k1'[u], 1)
  BY DEF LocksInv
<1> QED
  BY <1>1, <1>4, <1>6, <1>7, <1>8

LEMMA LocksStep == LocksInv /\ [Locks!Next]_Locks!vars => LocksInv'
<1> SUFFICES ASSUME LocksInv, [Locks!Next]_Locks!vars PROVE LocksInv'
  OBVIOUS
<1>1. ASSUME UNCHANGED Locks!vars PROVE LocksInv'
  <2>1. k1' = k1 /\ k2' = k2
    BY <1>1 DEF Locks!vars
  <2> QED
    BY <2>1 DEF LocksInv
<1>2. ASSUME NEW t \in Locks!Threads, Locks!Start(t) PROVE LocksInv'
  BY <1>2, StartKeeps
<1>3. ASSUME NEW t \in Locks!Threads, Locks!Lock(t) PROVE LocksInv'
  <2>1. k1[t] # <<>> /\ Takes(Head(k1[t])) /\ Locks!Free(t) /\ Locks!Past(t, 1, Locks!Owned(t))
    BY <1>3 DEF Locks!Lock, Locks!Doing, Takes
  <2> QED
    BY <2>1, TakeKeeps
<1>4. ASSUME NEW t \in Locks!Threads, Locks!TryLock(t) PROVE LocksInv'
  <2>1. k1[t] # <<>> /\ Head(k1[t]).op = "try" /\ Takes(Head(k1[t]))
    BY <1>4 DEF Locks!TryLock, Locks!Doing, Takes
  <2>2. CASE Locks!Free(t)
    <3>1. Locks!Past(t, 1, Locks!Owned(t))
      BY <1>4, <2>2 DEF Locks!TryLock
    <3> QED
      BY <2>1, <2>2, <3>1, TakeKeeps
  <2>3. CASE ~Locks!Free(t)
    <3> DEFINE n == 1 + Head(k1[t]).skip
    <3>1. Locks!Past(t, n, k2)
      BY <1>4, <2>3 DEF Locks!TryLock
    <3>2. /\ Head(k1[t]) = k1[t][1] /\ k1[t][1] \in Steps
          /\ k1[t] \in Seq(Steps) /\ SoundAt(k1[t], 1)
      BY <2>1, HeadIs
    <3>3. Head(k1[t]).skip \in Nat /\ Len(k1[t]) \in Nat
      BY <2>1, <3>2, StepIs
    <3>4. /\ 1 + 1 + Head(k1[t]).skip <= Len(k1[t]) + 1
          /\ Held(k1[t], 1 + 1 + Head(k1[t]).skip) = Held(k1[t], 1)
      BY <2>1, <3>2 DEF SoundAt
    <3>5. n \in 0 .. Len(k1[t]) /\ n + 1 = 1 + 1 + Head(k1[t]).skip
      <4> DEFINE skip == Head(k1[t]).skip
      <4>1. skip \in Nat /\ 1 + 1 + skip <= Len(k1[t]) + 1 /\ Len(k1[t]) \in Nat
        BY <3>3, <3>4
      <4> HIDE DEF skip
      <4>2. 1 + skip \in 0 .. Len(k1[t]) /\ (1 + skip) + 1 = 1 + 1 + skip
        BY <4>1
      <4> QED
        BY <4>2 DEF skip
    <3> HIDE DEF n
    <3> QED
      BY <3>1, <3>4, <3>5, SkipKeeps
  <2> QED
    BY <2>2, <2>3
<1>5. ASSUME NEW t \in Locks!Threads, Locks!Heard(t) PROVE LocksInv'
  <2>1. k1[t] # <<>> /\ Head(k1[t]).op = "wait" /\ Locks!Past(t, 1, k2)
    BY <1>5 DEF Locks!Heard, Locks!Doing
  <2>2. /\ Head(k1[t]) = k1[t][1] /\ 1 \in DOMAIN k1[t] /\ 1 \in 0 .. Len(k1[t])
        /\ k1[t] \in Seq(Steps)
    BY <2>1, HeadIs
  <2>3. Held(k1[t], 1 + 1) = Held(k1[t], 1)
    BY <2>1, <2>2, HeldNext
  <2> QED
    BY <2>1, <2>2, <2>3, SkipKeeps
<1> QED
  BY <1>1, <1>2, <1>3, <1>4, <1>5 DEF Locks!Next

\* BridgeLocks, in every state: no threads of the desktop wait for each other's
\* mutexes in a circle, and none holds one while it waits for the person.
THEOREM NobodyIsStuck == Locks!Spec => []NobodyWaitsInACircle
<1>1. LocksInv => NobodyWaitsInACircle
  BY NoCircle DEF NobodyWaitsInACircle
<1> QED
  BY <1>1, LocksStart, LocksStep, PTL DEF Locks!Spec

================================================================================
