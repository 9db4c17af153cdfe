--------------------------- MODULE FileIndexProofs ---------------------------
(***************************************************************************)
(* Proofs about FileIndex, for any directories and files, journals and     *)
(* pages of any length, and troubles.                                      *)
(*                                                                         *)
(* What is wanted of an object depends on all that lies above it (Line),   *)
(* and one rename of a directory changes that for many; the first section  *)
(* is about how.  The invariant is Kept, of the published tables and of    *)
(* the update under way: the rows of an object are right, or it is known   *)
(* to be unavailable, or a record that is not read yet tells of it.        *)
(***************************************************************************)
EXTENDS FileIndex, WellFoundedInduction, FiniteSetTheorems, TLAPS

-----------------------------------------------------------------------------
(* What lies above a place: Line is the least set of places that holds it   *)
(* and, with a directory, what that is in.                                  *)

\* Induction: of any naturals there is a least one.
LEMMA Least ==
    ASSUME NEW S \in SUBSET Nat, S # {}
    PROVE  \E m \in S : \A k \in S : m <= k
<1> DEFINE R == {ss \in Nat \X Nat : ss[1] < ss[2]}
<1>1. \A x, y \in Nat : x < y => <<x, y>> \in R
  OBVIOUS
<1>2. IsWellFoundedOn(R, Nat)
  BY NatLessThanWellFounded, Zenon DEF OpToRel
<1> HIDE DEF R
<1>3. PICK x \in S : \A y \in S : ~ (<<y, x>> \in R)
  BY <1>2, WFMin, Zenon
<1>4. \A y \in S : y \in Nat /\ x \in Nat
  OBVIOUS
<1>5. \A y \in S : ~(y < x)
  BY <1>1, <1>3, <1>4
<1> QED
  BY <1>4, <1>5

Depth == Cardinality(Dirs) + 1
Up(table, places) == places \cup UNION {table[q] : q \in places \cap Dirs}
\* As far up as n levels.
Level(f, table, p, i) == IF i = 0 THEN {p} ELSE Up(table, f[i - 1])
Climbs(f, table, p, n) == f = [i \in 0 .. n |-> Level(f, table, p, i)]

LEMMA LineIs ==
    ASSUME IsFiniteSet(Dirs), NEW table, NEW p
    PROVE  \E f : /\ f[0] = {p}
                  /\ \A n \in 1 .. Depth : f[n] = Up(table, f[n - 1])
                  /\ Line(table, p) = f[Depth]
<1>1. Depth \in Nat \ {0}
  BY FS_CardinalityType DEF Depth
<1>2. \A n \in Nat : \E f : Climbs(f, table, p, n)
  <2> DEFINE S == {n \in Nat : ~\E f : Climbs(f, table, p, n)}
  <2>1. SUFFICES ASSUME S # {}
                 PROVE  FALSE
    OBVIOUS
  <2>2. PICK n \in S : \A k \in S : n <= k
    BY <2>1, Least
  <2>3. n \in Nat
    OBVIOUS
  <2>4. CASE n = 0
    <3> DEFINE f == [i \in 0 .. 0 |-> {p}]
    <3>1. Climbs(f, table, p, 0)
      BY DEF Climbs, Level
    <3> QED
      BY <2>4, <3>1
  <2>5. CASE n # 0
    <3>1. n - 1 \in Nat /\ n - 1 \notin S
      BY <2>2, <2>3, <2>5
    <3>2. PICK g : Climbs(g, table, p, n - 1)
      BY <3>1
    <3> DEFINE f == [i \in 0 .. n |-> IF i = n THEN Up(table, g[n - 1]) ELSE g[i]]
    <3>3. \A i \in 0 .. n - 1 : f[i] = Level(f, table, p, i)
      <4>1. \A i \in 0 .. n - 1 : g[i] = Level(g, table, p, i)
        BY <3>2 DEF Climbs
      <4>2. \A i \in 0 .. n - 1 : f[i] = g[i] /\ (i # 0 => f[i - 1] = g[i - 1])
        BY <2>3
      <4>3. \A i \in 0 .. n - 1 : Level(f, table, p, i) = Level(g, table, p, i)
        BY <4>2 DEF Level
      <4> QED
        BY <4>1, <4>2, <4>3
    <3>4. f[n] = Level(f, table, p, n)
      <4>1. f[n] = Up(table, g[n - 1]) /\ f[n - 1] = g[n - 1]
        BY <2>3, <2>5
      <4> QED
        BY <2>5, <4>1 DEF Level
    <3>5. f = [i \in 0 .. n |-> f[i]]
      OBVIOUS
    <3> HIDE DEF f
    <3>6. \A i \in 0 .. n : f[i] = Level(f, table, p, i)
      BY <2>3, <3>3, <3>4
    <3>7. Climbs(f, table, p, n)
      BY <3>5, <3>6 DEF Climbs
    <3> QED
      BY <3>7
  <2> QED
    BY <2>4, <2>5
<1> DEFINE above == CHOOSE f : Climbs(f, table, p, Depth)
<1>3. Climbs(above, table, p, Depth)
  <2>1. \E f : Climbs(f, table, p, Depth)
    BY <1>1, <1>2
  <2> QED
    BY <2>1, Zenon
<1>4. Line(table, p) = above[Depth]
  BY Zenon DEF Line, Climbs, Level, Up, Depth
<1> HIDE DEF above
<1>5. above[0] = {p} /\ \A n \in 1 .. Depth : above[n] = Up(table, above[n - 1])
  <2>1. \A n \in 0 .. Depth : above[n] = Level(above, table, p, n)
    BY <1>3 DEF Climbs
  <2> QED
    BY <1>1, <2>1 DEF Level
<1> QED
  BY <1>4, <1>5

\* What lies above a place: itself, with a directory its parents, nothing else.
Upward(table, places) == \A q \in places \cap Dirs : table[q] \subseteq places

LEMMA LineLeast ==
    ASSUME IsFiniteSet(Dirs), NEW table, NEW p, NEW S, p \in S, Upward(table, S)
    PROVE  Line(table, p) \subseteq S
<1>1. PICK f : /\ f[0] = {p}
               /\ \A n \in 1 .. Depth : f[n] = Up(table, f[n - 1])
               /\ Line(table, p) = f[Depth]
  BY LineIs
<1>2. Depth \in Nat \ {0}
  BY FS_CardinalityType DEF Depth
<1> DEFINE T == {n \in 0 .. Depth : ~(f[n] \subseteq S)}
<1>3. CASE T = {}
  <2>1. Depth \notin T
    BY <1>3
  <2> QED
    BY <1>1, <1>2, <2>1
<1>4. CASE T # {}
  <2>1. T \subseteq Nat
    BY <1>2
  <2>2. PICK n \in T : \A k \in T : n <= k
    BY <1>4, <2>1, Least
  <2>3. n # 0
    BY <1>1
  <2>4. n - 1 \in 0 .. Depth /\ n \in 1 .. Depth /\ n - 1 \notin T
    BY <1>2, <2>2, <2>3
  <2>5. f[n - 1] \subseteq S /\ f[n] = Up(table, f[n - 1])
    BY <1>1, <2>4
  <2>6. f[n] \subseteq S
    BY <2>5 DEF Up, Upward
  <2> QED
    BY <2>6
<1> QED
  BY <1>3, <1>4

LEMMA LineUpward ==
    ASSUME IsFiniteSet(Dirs), NEW table, NEW p
    PROVE  p \in Line(table, p) /\ Upward(table, Line(table, p))
<1>1. PICK f : /\ f[0] = {p}
               /\ \A n \in 1 .. Depth : f[n] = Up(table, f[n - 1])
               /\ Line(table, p) = f[Depth]
  BY LineIs
<1>2. Depth \in Nat \ {0} /\ Depth = Cardinality(Dirs) + 1 /\ Cardinality(Dirs) \in Nat
  BY FS_CardinalityType DEF Depth
<1>3. \A n \in 0 .. Depth : /\ IsFiniteSet(f[n] \cap Dirs)
                            /\ Cardinality(f[n] \cap Dirs) \in Nat
                            /\ Cardinality(f[n] \cap Dirs) <= Cardinality(Dirs)
  <2> SUFFICES ASSUME NEW n \in 0 .. Depth
               PROVE  /\ IsFiniteSet(f[n] \cap Dirs)
                      /\ Cardinality(f[n] \cap Dirs) \in Nat
                      /\ Cardinality(f[n] \cap Dirs) <= Cardinality(Dirs)
    OBVIOUS
  <2>1. f[n] \cap Dirs \in SUBSET Dirs
    OBVIOUS
  <2>2. IsFiniteSet(f[n] \cap Dirs) /\ Cardinality(f[n] \cap Dirs) <= Cardinality(Dirs)
    BY <2>1, FS_Subset
  <2> QED
    BY <2>2, FS_CardinalityType
\* Every level that is not the last has another directory.
<1> DEFINE Grown(n) == Upward(table, f[n]) \/ Cardinality(f[n] \cap Dirs) >= n
           T == {n \in 0 .. Depth : ~Grown(n)}
<1>4. \A n \in 1 .. Depth : Upward(table, f[n - 1]) => Upward(table, f[n])
  <2> SUFFICES ASSUME NEW n \in 1 .. Depth, Upward(table, f[n - 1])
               PROVE  Upward(table, f[n])
    OBVIOUS
  <2>1. f[n] = Up(table, f[n - 1])
    BY <1>1
  <2>2. f[n] = f[n - 1]
    BY <2>1 DEF Up, Upward
  <2> QED
    BY <2>2
<1>5. \A n \in 1 .. Depth : ~Upward(table, f[n]) =>
         Cardinality(f[n] \cap Dirs) > Cardinality(f[n - 1] \cap Dirs)
  <2> SUFFICES ASSUME NEW n \in 1 .. Depth, ~Upward(table, f[n])
               PROVE  Cardinality(f[n] \cap Dirs) > Cardinality(f[n - 1] \cap Dirs)
    OBVIOUS
  <2>1. f[n] = Up(table, f[n - 1])
    BY <1>1
  <2>2. f[n - 1] \cap Dirs \in SUBSET (f[n] \cap Dirs)
    BY <2>1 DEF Up
  <2>3. f[n - 1] \cap Dirs # f[n] \cap Dirs
    BY <2>1 DEF Up, Upward
  <2>4. n \in 0 .. Depth /\ n - 1 \in 0 .. Depth
    BY <1>2
  <2>5. /\ IsFiniteSet(f[n] \cap Dirs)
        /\ Cardinality(f[n] \cap Dirs) \in Nat /\ Cardinality(f[n - 1] \cap Dirs) \in Nat
    BY <1>3, <2>4
  <2>6. /\ Cardinality(f[n - 1] \cap Dirs) <= Cardinality(f[n] \cap Dirs)
        /\ Cardinality(f[n - 1] \cap Dirs) # Cardinality(f[n] \cap Dirs)
    BY <2>2, <2>3, <2>5, FS_Subset
  <2> QED
    BY <2>5, <2>6
<1>6. T = {}
  <2> SUFFICES ASSUME T # {} PROVE FALSE
    OBVIOUS
  <2>1. T \subseteq Nat
    BY <1>2
  <2> HIDE DEF Grown
  <2>2. PICK n \in T : \A k \in T : n <= k
    BY <2>1, Least
  <2> USE DEF Grown
  <2>3. n \in 0 .. Depth /\ ~Grown(n)
    OBVIOUS
  <2>4. n # 0
    <3>1. Cardinality(f[0] \cap Dirs) \in Nat
      BY <1>2, <1>3
    <3> QED
      BY <2>3, <3>1
  <2>5. n \in 1 .. Depth /\ n - 1 \in 0 .. Depth /\ n - 1 \notin T
    BY <1>2, <2>2, <2>3, <2>4
  <2>6. Grown(n - 1) /\ ~Upward(table, f[n])
    BY <2>3, <2>5
  <2>7. Cardinality(f[n - 1] \cap Dirs) >= n - 1
    BY <1>4, <2>5, <2>6
  <2>8. Cardinality(f[n] \cap Dirs) > Cardinality(f[n - 1] \cap Dirs)
    BY <1>5, <2>5, <2>6
  <2>9. ~(Cardinality(f[n] \cap Dirs) >= n)
    BY <2>3
  <2>10. /\ Cardinality(f[n - 1] \cap Dirs) \in Nat /\ Cardinality(f[n] \cap Dirs) \in Nat
         /\ n \in Nat
    BY <1>2, <1>3, <2>5
  <2> HIDE DEF Grown, T
  <2> QED
    BY <2>7, <2>8, <2>9, <2>10
<1>7. Upward(table, f[Depth])
  <2>1. Grown(Depth) /\ Depth \in 0 .. Depth
    BY <1>2, <1>6
  <2>2. ~(Cardinality(f[Depth] \cap Dirs) >= Depth)
    <3>1. /\ Cardinality(f[Depth] \cap Dirs) <= Cardinality(Dirs)
          /\ Cardinality(f[Depth] \cap Dirs) \in Nat
      BY <1>3, <2>1
    <3> QED
      BY <1>2, <3>1
  <2> QED
    BY <2>1, <2>2
<1>8. p \in f[Depth]
  <2> DEFINE U == {n \in 0 .. Depth : p \notin f[n]}
  <2>1. CASE U # {}
    <3>1. U \subseteq Nat
      BY <1>2
    <3>2. PICK n \in U : \A k \in U : n <= k
      BY <2>1, <3>1, Least
    <3>3. n # 0
      BY <1>1
    <3>4. n \in 1 .. Depth /\ n - 1 \in 0 .. Depth /\ n - 1 \notin U
      BY <1>2, <3>2, <3>3
    <3>5. p \in f[n - 1] /\ f[n] = Up(table, f[n - 1])
      BY <1>1, <3>4
    <3> QED
      BY <3>5 DEF Up
  <2>2. CASE U = {}
    BY <1>2, <2>2
  <2> QED
    BY <2>1, <2>2
<1> QED
  BY <1>1, <1>7, <1>8

-----------------------------------------------------------------------------
(* The tree of directories, and what a change of it leaves as it was. *)

Parameters ==
    /\ IsFiniteSet(Dirs) /\ Dirs \cap Files = {}
    /\ Root \notin Objects /\ Bin \notin Objects /\ Root # Bin
    /\ {PageSize, MaxRecords, MaxJournals, MaxTroubles} \subseteq Nat /\ MaxJournals >= 1

There(table, p) == p \in Dirs => table[p] # {}
Excluded(table, p) == Bin \in Line(table, p)

\* Names hang on directories that are there, and no directory is in itself.
Tree(table, made) ==
    /\ table \in [Objects -> SUBSET Places] /\ made \subseteq Objects
    /\ \A x \in Objects : table[x] # {} => x \in made
    /\ \A x \in Objects : \A p \in table[x] : There(table, p)
    /\ \A d \in Dirs : \A p \in table[d] : d \notin Line(table, p)

\* No place of those made so far comes into or out of the excluded directory.
Steady(old, new, made) ==
    \A p \in Places : There(new, p) /\ (p \in Dirs => p \in made) =>
        There(old, p) /\ (Excluded(new, p) <=> Excluded(old, p))

LEMMA SameLine ==
    ASSUME Parameters, NEW t, NEW u, NEW p, \A q \in Line(t, p) \cap Dirs : u[q] = t[q]
    PROVE  Line(u, p) = Line(t, p)
<1>1. p \in Line(t, p) /\ Upward(t, Line(t, p)) /\ p \in Line(u, p) /\ Upward(u, Line(u, p))
  BY LineUpward DEF Parameters
<1>2. Line(u, p) \subseteq Line(t, p)
  <2>1. Upward(u, Line(t, p))
    BY <1>1 DEF Upward
  <2> QED
    BY <1>1, <2>1, LineLeast DEF Parameters
<1>3. Line(t, p) \subseteq Line(u, p)
  <2>1. Upward(t, Line(u, p))
    BY <1>1, <1>2 DEF Upward
  <2> QED
    BY <1>1, <2>1, LineLeast DEF Parameters
<1> QED
  BY <1>2, <1>3

LEMMA LineAbove ==
    ASSUME Parameters, NEW t, NEW p, NEW q \in Line(t, p)
    PROVE  Line(t, q) \subseteq Line(t, p)
<1>1. Upward(t, Line(t, p))
  BY LineUpward DEF Parameters
<1> QED
  BY <1>1, LineLeast DEF Parameters

\* A set of places that reaches up and does not hold what is changed.
Untouched(t, u, X) == Upward(t, X) /\ \A q \in X \cap Dirs : u[q] = t[q]

LEMMA UpSame ==
    ASSUME Parameters, NEW t, NEW u, NEW X, Untouched(t, u, X)
    PROVE  \A p \in X : Line(u, p) = Line(t, p) /\ Line(t, p) \subseteq X
<1> SUFFICES ASSUME NEW p \in X
             PROVE  Line(u, p) = Line(t, p) /\ Line(t, p) \subseteq X
  OBVIOUS
<1>1. Line(t, p) \subseteq X
  BY LineLeast DEF Parameters, Untouched
<1>2. \A q \in Line(t, p) \cap Dirs : u[q] = t[q]
  BY <1>1 DEF Untouched
<1> QED
  BY <1>1, <1>2, SameLine

LEMMA CreateTree ==
    ASSUME Parameters, NEW t, NEW made, Tree(t, made), NEW o \in Objects, o \notin made,
           NEW p \in Places, There(t, p), NEW u, u = [t EXCEPT ![o] = {p}]
    PROVE  Tree(u, made \cup {o}) /\ Steady(t, u, made)
<1> DEFINE X == {s \in Places : s # o /\ There(t, s)}
<1>1. t[o] = {} /\ u[o] = {p} /\ \A x \in Objects : x # o => u[x] = t[x]
  BY DEF Tree
<1>2. Dirs \subseteq Objects /\ Dirs \subseteq Places
  BY DEF Objects, Places
<1>3. \A x \in Objects : t[x] \subseteq X
  <2> SUFFICES ASSUME NEW x \in Objects, NEW s \in t[x]
               PROVE  s \in X
    OBVIOUS
  <2>1. s \in Places /\ There(t, s)
    BY DEF Tree
  <2>2. s # o
    BY <1>1, <2>1 DEF There, Places, Parameters
  <2> QED
    BY <2>1, <2>2
<1>4. Untouched(t, u, X)
  BY <1>1, <1>2, <1>3 DEF Upward, Untouched
<1>5. p \in X
  BY <1>1 DEF There, Places, Parameters
<1> HIDE DEF X
<1>6. \A s \in X : Line(u, s) = Line(t, s) /\ Line(t, s) \subseteq X /\ o \notin X
  <2>1. \A s \in X : Line(u, s) = Line(t, s) /\ Line(t, s) \subseteq X
    BY <1>4, UpSame
  <2> QED
    BY <2>1 DEF X
<1>7. Tree(u, made \cup {o})
  <2>1. u \in [Objects -> SUBSET Places] /\ made \cup {o} \subseteq Objects
    BY DEF Tree
  <2>2. \A x \in Objects : u[x] # {} => x \in made \cup {o}
    BY <1>1 DEF Tree
  <2>3. \A x \in Objects : u[x] \subseteq X
    BY <1>1, <1>3, <1>5
  <2>4. \A s \in X : There(u, s)
    BY <1>1, <1>2 DEF X, There
  <2>5. \A d \in Dirs : \A s \in u[d] : d \notin Line(u, s)
    BY <1>1, <1>2, <1>6, <2>3 DEF Tree
  <2> QED
    BY <2>1, <2>2, <2>3, <2>4, <2>5 DEF Tree
<1>8. ASSUME NEW s \in Places, There(u, s), s \in Dirs => s \in made
      PROVE  There(t, s) /\ (Excluded(u, s) <=> Excluded(t, s))
  <2>1. s # o
    BY <1>8 DEF Places, Parameters
  <2>2. There(t, s)
    BY <1>1, <1>2, <1>8, <2>1 DEF There
  <2>3. s \in X
    BY <2>1, <2>2 DEF X
  <2> QED
    BY <1>6, <2>2, <2>3 DEF Excluded
<1> QED
  BY <1>7, <1>8 DEF Steady

LEMMA DeleteTree ==
    ASSUME Parameters, NEW t, NEW made, Tree(t, made), NEW o \in Objects,
           \A x \in Objects : o \notin t[x], NEW u, u = [t EXCEPT ![o] = {}]
    PROVE  Tree(u, made) /\ Steady(t, u, made)
<1> DEFINE X == Places \ {o}
<1>1. u[o] = {} /\ \A x \in Objects : x # o => u[x] = t[x]
  BY DEF Tree
<1>2. Dirs \subseteq Objects /\ Dirs \subseteq Places
  BY DEF Objects, Places
<1>3. \A x \in Objects : t[x] \subseteq X
  BY DEF Tree
<1>4. Untouched(t, u, X)
  BY <1>1, <1>2, <1>3 DEF Upward, Untouched
<1> HIDE DEF X
<1>6. \A s \in X : Line(u, s) = Line(t, s)
  BY <1>4, UpSame
<1>7. Tree(u, made)
  <2>1. u \in [Objects -> SUBSET Places] /\ made \subseteq Objects
    BY DEF Tree
  <2>2. \A x \in Objects : u[x] # {} => x \in made
    BY <1>1 DEF Tree
  <2>3. \A x \in Objects : u[x] \subseteq t[x]
    BY <1>1
  <2>4. \A x \in Objects : \A s \in u[x] : There(u, s)
    <3> SUFFICES ASSUME NEW x \in Objects, NEW s \in u[x]
                 PROVE  There(u, s)
      OBVIOUS
    <3>1. s \in t[x] /\ s # o
      BY <2>3
    <3>2. There(t, s)
      BY <3>1 DEF Tree
    <3> QED
      BY <1>1, <1>2, <3>1, <3>2 DEF There
  <2>5. \A d \in Dirs : \A s \in u[d] : d \notin Line(u, s)
    BY <1>2, <1>3, <1>6, <2>3 DEF Tree
  <2> QED
    BY <2>1, <2>2, <2>4, <2>5 DEF Tree
<1>8. ASSUME NEW s \in Places, There(u, s)
      PROVE  There(t, s) /\ (Excluded(u, s) <=> Excluded(t, s))
  <2>1. s # o
    <3>1. CASE s \in Dirs
      BY <1>1, <1>8, <3>1 DEF There
    <3>2. CASE s \notin Dirs
      BY <3>2 DEF Places, Parameters
    <3> QED
      BY <3>1, <3>2
  <2>2. There(t, s)
    BY <1>1, <1>2, <1>8, <2>1 DEF There
  <2>3. s \in X
    BY <2>1 DEF X
  <2> QED
    BY <1>6, <2>2, <2>3 DEF Excluded
<1> QED
  BY <1>7, <1>8 DEF Steady

\* The names of a file.
LEMMA FileTree ==
    ASSUME Parameters, NEW t, NEW made, Tree(t, made), NEW o \in Files, t[o] # {},
           NEW w \in SUBSET Places, \A p \in w : There(t, p), NEW u, u = [t EXCEPT ![o] = w]
    PROVE  Tree(u, made) /\ Steady(t, u, made)
<1>1. o \in Objects /\ o \notin Dirs /\ Dirs \subseteq Objects
  BY DEF Objects, Parameters
<1>2. u[o] = w /\ \A x \in Objects : x # o => u[x] = t[x]
  BY <1>1 DEF Tree
<1>3. \A s : Line(u, s) = Line(t, s) /\ (There(u, s) <=> There(t, s))
  BY <1>1, <1>2, SameLine DEF There
<1>4. Tree(u, made)
  <2>1. u \in [Objects -> SUBSET Places] /\ made \subseteq Objects
    BY DEF Tree
  <2> QED
    BY <1>1, <1>2, <1>3, <2>1 DEF Tree
<1> QED
  BY <1>3, <1>4 DEF Steady, Excluded

\* A directory is moved, but never into itself.
Moves(t, u, o, p, q) == u = [t EXCEPT ![o] = (@ \ {p}) \cup {q}]
LEMMA MoveTree ==
    ASSUME Parameters, NEW t, NEW made, Tree(t, made), NEW o \in Dirs, NEW p \in t[o],
           NEW q \in Places, There(t, q), o \notin Line(t, q),
           NEW u, Moves(t, u, o, p, q)
    PROVE  /\ Tree(u, made)
           /\ Line(u, p) = Line(t, p) /\ Line(u, q) = Line(t, q)
           /\ (Excluded(t, p) <=> Excluded(t, q)) => Steady(t, u, made)
<1>1. o \in Objects /\ Dirs \subseteq Objects
  BY DEF Objects
<1>2. u[o] = (t[o] \ {p}) \cup {q} /\ \A x \in Objects : x # o => u[x] = t[x]
  BY <1>1 DEF Tree, Moves
<1>3. \A s : o \notin Line(t, s) => Line(u, s) = Line(t, s)
  <2> SUFFICES ASSUME NEW s, o \notin Line(t, s)
               PROVE  Line(u, s) = Line(t, s)
    OBVIOUS
  <2>1. \A r \in Line(t, s) \cap Dirs : u[r] = t[r]
    BY <1>1, <1>2
  <2> QED
    BY <2>1, SameLine
<1>4. \A s \in t[o] : o \notin Line(t, s)
  BY DEF Tree
<1>5. \A s : There(t, s) <=> There(u, s)
  BY <1>1, <1>2 DEF There
<1>6. \A s : s \in Line(t, s) /\ Upward(t, Line(t, s)) /\ Upward(u, Line(u, s))
  BY LineUpward DEF Parameters
<1>7. Tree(u, made)
  <2>1. u \in [Objects -> SUBSET Places] /\ made \subseteq Objects
    BY <1>1 DEF Tree, Moves
  <2>2. \A x \in Objects : u[x] # {} => x \in made
    BY <1>1, <1>2 DEF Tree
  <2>3. \A x \in Objects : \A s \in u[x] : There(u, s)
    BY <1>1, <1>2, <1>5 DEF Tree
  <2>4. ASSUME NEW d \in Dirs, NEW s \in u[d], d \in Line(u, s)
        PROVE  FALSE
    <3>1. CASE o \notin Line(t, s)
      <4>1. d \in Line(t, s)
        BY <1>3, <2>4, <3>1
      <4>2. d # o
        BY <3>1, <4>1
      <4>3. s \in t[d]
        BY <1>1, <1>2, <4>2
      <4> QED
        BY <4>1, <4>3 DEF Tree
    <3>2. CASE o \in Line(t, s)
      <4> DEFINE S == Line(t, s) \cup Line(t, q)
      <4>1. d # o /\ s \in t[d]
        BY <1>1, <1>2, <1>4, <2>4, <3>2
      <4>2. Upward(u, S) /\ s \in S
        BY <1>1, <1>2, <1>6 DEF Upward
      <4>3. Line(u, s) \subseteq S
        BY <4>2, LineLeast DEF Parameters
      <4>4. d \notin Line(t, s)
        BY <4>1 DEF Tree
      <4>5. d \in Line(t, q)
        BY <2>4, <4>3, <4>4
      <4>6. s \in Line(t, q)
        BY <1>6, <4>1, <4>5 DEF Upward
      <4>7. Line(t, s) \subseteq Line(t, q)
        BY <4>6, LineAbove
      <4> QED
        BY <3>2, <4>7
    <3> QED
      BY <3>1, <3>2
  <2> QED
    BY <2>1, <2>2, <2>3, <2>4 DEF Tree
<1>8. Line(u, p) = Line(t, p) /\ Line(u, q) = Line(t, q)
  BY <1>3, <1>4
<1>9. ASSUME Excluded(t, p) <=> Excluded(t, q)
      PROVE  \A s : Excluded(u, s) <=> Excluded(t, s)
  <2>1. Excluded(u, p) <=> Excluded(u, q)
    BY <1>8, <1>9 DEF Excluded
  <2>2. \A s : ~Excluded(t, s) => ~Excluded(u, s)
    <3> SUFFICES ASSUME NEW s, ~Excluded(t, s)
                 PROVE  ~Excluded(u, s)
      OBVIOUS
    <3> DEFINE N == {r \in Line(t, s) \cup Line(t, q) : ~Excluded(t, r)}
    <3>1. s \in N
      BY <1>6
    <3>2. ASSUME NEW r \in N, r \in Dirs
          PROVE  u[r] \subseteq N
      <4>1. t[r] \subseteq N
        <5> SUFFICES ASSUME NEW v \in t[r]
                     PROVE  v \in N
          OBVIOUS
        <5>1. v \in Line(t, r) /\ v \in Line(t, s) \cup Line(t, q)
          BY <1>6, <3>2 DEF Upward
        <5>2. Line(t, v) \subseteq Line(t, r)
          BY <5>1, LineAbove
        <5> QED
          BY <5>1, <5>2 DEF Excluded
      <4>2. CASE r # o
        BY <1>1, <1>2, <3>2, <4>1, <4>2
      <4>3. CASE r = o
        <5>1. p \in N
          BY <4>1, <4>3
        <5>2. q \in N
          BY <1>6, <1>9, <5>1
        <5> QED
          BY <1>2, <4>1, <4>3, <5>2
      <4> QED
        BY <4>2, <4>3
    <3>3. Upward(u, N)
      BY <3>2 DEF Upward
    <3> HIDE DEF N
    <3>4. Line(u, s) \subseteq N
      BY <3>1, <3>3, LineLeast DEF Parameters
    <3> USE DEF N
    <3>5. Bin \notin N
      BY <1>6 DEF Excluded
    <3> QED
      BY <3>4, <3>5 DEF Excluded
  <2>3. \A s : ~Excluded(u, s) => ~Excluded(t, s)
    <3> SUFFICES ASSUME NEW s, ~Excluded(u, s)
                 PROVE  ~Excluded(t, s)
      OBVIOUS
    <3> DEFINE N == {r \in Line(u, s) \cup Line(u, p) : ~Excluded(u, r)}
    <3>1. s \in Line(u, s) /\ p \in Line(u, p)
      BY LineUpward DEF Parameters
    <3>2. ASSUME NEW r \in N, r \in Dirs
          PROVE  t[r] \subseteq N
      <4>1. u[r] \subseteq N
        <5> SUFFICES ASSUME NEW v \in u[r]
                     PROVE  v \in N
          OBVIOUS
        <5>1. v \in Line(u, r) /\ v \in Line(u, s) \cup Line(u, p)
          BY <1>6, <3>2, LineUpward DEF Upward, Parameters
        <5>2. Line(u, v) \subseteq Line(u, r)
          BY <5>1, LineAbove
        <5> QED
          BY <5>1, <5>2 DEF Excluded
      <4>2. CASE r # o
        BY <1>1, <1>2, <3>2, <4>1, <4>2
      <4>3. CASE r = o
        <5>1. q \in N
          BY <1>2, <4>1, <4>3
        <5>2. p \in N
          BY <2>1, <3>1, <5>1
        <5> QED
          BY <1>2, <4>1, <4>3, <5>2
      <4> QED
        BY <4>2, <4>3
    <3>3. Upward(t, N) /\ s \in N
      BY <3>1, <3>2 DEF Upward
    <3> HIDE DEF N
    <3>4. Line(t, s) \subseteq N
      BY <3>3, LineLeast DEF Parameters
    <3> USE DEF N
    <3>5. Bin \notin N
      BY LineUpward DEF Excluded, Parameters
    <3> QED
      BY <3>4, <3>5 DEF Excluded
  <2> QED
    BY <2>2, <2>3
<1>10. (Excluded(t, p) <=> Excluded(t, q)) => Steady(t, u, made)
  BY <1>5, <1>9 DEF Steady
<1> QED
  BY <1>7, <1>8, <1>10

-----------------------------------------------------------------------------
(* The invariant. *)

Records == [id : Objects, kind : {"moved", "other"}, from : Places, to : Places,
            across : BOOLEAN]
Rows == [Objects -> SUBSET (Places \ {Bin})]
Points == [journal : Nat, next : Nat]
Publications == [exists : BOOLEAN, rows : Rows, unavailable : SUBSET Objects,
                 complete : BOOLEAN, point : Points, twice : BOOLEAN]
Works == [step : {"idle", "enumerate", "changes", "parents"}, rebuild : BOOLEAN,
          changed : BOOLEAN, rows : Rows, unavailable : SUBSET Objects, point : Points,
          todo : SUBSET Objects, seen : SUBSET Objects, caught : BOOLEAN, twice : BOOLEAN]

Typed ==
    /\ Parameters /\ Tree(names, born)
    /\ journal \in [id : 1 .. MaxJournals, first : Nat, log : Seq(Records)]
    /\ journal.first <= Len(journal.log)
    /\ published \in Publications /\ observed \in Points /\ work \in Works
    /\ troubles \in 0 .. MaxTroubles

\* What the journal says of the last move across the edge of the policy is
\* still so, unless a place it tells of is gone: later moves across tell of
\* themselves.
MadeBy(made) == {p \in Places : p \in Dirs => p \in made}
StillCrosses(table, r) ==
    There(table, r.from) /\ There(table, r.to)
    => ~(Excluded(table, r.from) <=> Excluded(table, r.to))
LogInv ==
    \A i \in 1 .. Len(journal.log) :
        /\ {journal.log[i].from, journal.log[i].to} \subseteq MadeBy(born)
        /\ journal.log[i].across =>
              /\ journal.log[i].kind = "moved" /\ journal.log[i].id \in Dirs
              /\ \/ \E j \in i + 1 .. Len(journal.log) : journal.log[j].across
                 \/ StillCrosses(names, journal.log[i])

\* Of what is read up to a point of the journal.
Reached(point) ==
    /\ point.journal <= journal.id
    /\ point.journal = journal.id => point.next <= Len(journal.log)
TellsOf(next, o) ==
    \E i \in next + 1 .. Len(journal.log) : journal.log[i].id = o \/ journal.log[i].across
Kept(rows, lost, point) ==
    point.journal = journal.id /\ point.next >= journal.first
    => \A o \in Objects : rows[o] = Wanted(o) \/ o \in lost \/ TellsOf(point.next, o)

PublishedInv ==
    /\ Reached(published.point) /\ Reached(observed)
    /\ published.exists /\ ~published.twice =>
          /\ Kept(published.rows, published.unavailable, published.point)
          /\ Kept(published.rows, published.unavailable, observed)

WorkInv ==
    /\ work.step = "idle" => work = Rest
    /\ work.step = "enumerate" =>
          work.rows = NoRows /\ work.unavailable = {} /\ work.todo = {}
    /\ Reached(work.point)
    /\ work.step \in {"changes", "parents"} /\ ~work.twice
       /\ (work.rebuild \/ ~published.twice)
          => Kept(work.rows, work.unavailable \cup work.todo, work.point)
    /\ work.step # "idle" /\ ~work.changed =>
          /\ ~work.rebuild /\ published.exists
          /\ work.rows = published.rows /\ work.unavailable = published.unavailable

IInv == Typed /\ LogInv /\ PublishedInv /\ WorkInv

LEMMA RestTyped == Parameters => Rest \in Works /\ NoRows \in Rows /\ NoPoint \in Points
  BY DEF Rest, Works, NoRows, Rows, NoPoint, Points

LEMMA InitInv ==
    ASSUME Parameters, Init
    PROVE  IInv
<1>1. Tree(names, born)
  <2>1. /\ names \in [Objects -> {{p} : p \in Places} \cup {{}}]
        /\ \A d \in Dirs : names[d] \subseteq {Root, Bin}
        /\ \A f \in Files : names[f] = {} \/ \E d \in Dirs : names[f] = {d} /\ names[d] # {}
        /\ born = {o \in Objects : names[o] # {}}
    BY DEF Init
  <2>2. Dirs \cup Files = Objects /\ Root \notin Dirs /\ Bin \notin Dirs
    BY DEF Objects, Parameters
  <2>3. \A o \in Objects : names[o] \in {{p} : p \in Places} \cup {{}}
    BY <2>1
  <2>4. \A o \in Objects : names[o] \subseteq Places
    BY <2>3
  <2>5. names \in [Objects -> SUBSET Places]
    BY <2>1, <2>4
  <2>6. \A x \in Objects : \A p \in names[x] : There(names, p)
    BY <2>1, <2>2 DEF There
  <2>7. ASSUME NEW d \in Dirs, NEW p \in names[d]
        PROVE  d \notin Line(names, p)
    <3>1. p \notin Dirs
      BY <2>1, <2>2, <2>7
    <3>2. Upward(names, {p})
      BY <3>1 DEF Upward
    <3>3. Line(names, p) \subseteq {p}
      BY <3>2, LineLeast DEF Parameters
    <3> QED
      BY <3>1, <3>3
  <2> QED
    BY <2>1, <2>5, <2>6, <2>7 DEF Tree
<1>2. /\ journal = [id |-> 1, first |-> 0, log |-> <<>>]
      /\ published = Nothing /\ observed = NoPoint /\ work = Rest /\ troubles = 0
  BY DEF Init
<1>3. journal \in [id : 1 .. MaxJournals, first : Nat, log : Seq(Records)]
  BY <1>2 DEF Parameters
<1>4. published \in Publications
  BY <1>2, RestTyped DEF Nothing, Publications
<1>5. Typed
  <2>1. journal.first = 0 /\ Len(journal.log) = 0
    BY <1>2
  <2>2. troubles \in 0 .. MaxTroubles
    BY <1>2 DEF Parameters
  <2> QED
    BY <1>1, <1>2, <1>3, <1>4, <2>1, <2>2, RestTyped DEF Typed
<1>6. LogInv
  BY <1>2 DEF LogInv
<1>7. Reached(NoPoint)
  BY <1>2 DEF Reached, NoPoint
<1>8. PublishedInv
  BY <1>2, <1>7 DEF PublishedInv, Nothing
<1>9. WorkInv
  BY <1>2, <1>7 DEF WorkInv, Rest
<1> QED
  BY <1>5, <1>6, <1>8, <1>9 DEF IInv

-----------------------------------------------------------------------------
(* What other programs do. *)

\* What they do to one object leaves what is wanted of the others, unless it
\* is told of.
LEMMA WantedStays ==
    ASSUME Typed, Tree(names', born'), Steady(names, names', born),
           NEW o, \A x \in Objects : x # o => names'[x] = names[x]
    PROVE  \A x \in Objects : x # o => Wanted(x)' = Wanted(x)
<1> SUFFICES ASSUME NEW x \in Objects, x # o
             PROVE  Wanted(x)' = Wanted(x)
  OBVIOUS
<1>1. names'[x] = names[x]
  OBVIOUS
<1>2. \A p \in names[x] : p \in Places /\ There(names', p) /\ (p \in Dirs => p \in born)
  <2>1. \A p \in names[x] : p \in Places /\ There(names, p)
    BY DEF Typed, Tree
  <2>2. \A p \in names[x] : There(names', p)
    BY <1>1 DEF Tree
  <2>3. \A p \in Dirs : names[p] # {} => p \in born
    BY DEF Typed, Tree, Objects
  <2> QED
    BY <2>1, <2>2, <2>3 DEF There
<1>3. \A p \in names[x] : Excluded(names', p) <=> Excluded(names, p)
  BY <1>2 DEF Steady
<1> QED
  BY <1>1, <1>3 DEF Wanted, Excluded

LEMMA AppendKeeps ==
    ASSUME IInv, NEW r \in Records, journal' = [journal EXCEPT !.log = Append(@, r)],
           born \subseteq born', Tree(names', born'),
           \A x \in Objects : x # r.id => names'[x] = names[x],
           {r.from, r.to} \subseteq MadeBy(born'),
           \/ r.across /\ r.kind = "moved" /\ r.id \in Dirs /\ StillCrosses(names', r)
           \/ ~r.across /\ Steady(names, names', born),
           UNCHANGED <<published, observed, work, troubles>>
    PROVE  IInv'
<1> DEFINE L == Len(journal.log)
<1>1. /\ journal \in [id : 1 .. MaxJournals, first : Nat, log : Seq(Records)]
      /\ journal.log \in Seq(Records) /\ L \in Nat /\ journal.first \in Nat
      /\ journal.first <= L
  BY DEF IInv, Typed
<1>2. /\ journal'.id = journal.id /\ journal'.first = journal.first
      /\ journal'.log = Append(journal.log, r)
  BY <1>1
<1>3. /\ journal'.log \in Seq(Records) /\ Len(journal'.log) = L + 1
      /\ \A i \in 1 .. L : journal'.log[i] = journal.log[i]
      /\ journal'.log[L + 1] = r
  BY <1>1, <1>2
<1>4. journal' \in [id : 1 .. MaxJournals, first : Nat, log : Seq(Records)]
  BY <1>1, <1>3
<1> HIDE DEF L
<1>5. Typed'
  BY <1>1, <1>2, <1>3, <1>4 DEF IInv, Typed, L
<1>6. LogInv'
  <2> SUFFICES ASSUME NEW i \in 1 .. L + 1
               PROVE  /\ {journal'.log[i].from, journal'.log[i].to} \subseteq MadeBy(born')
                      /\ journal'.log[i].across =>
                           /\ journal'.log[i].kind = "moved" /\ journal'.log[i].id \in Dirs
                           /\ \/ \E j \in i + 1 .. L + 1 : journal'.log[j].across
                              \/ StillCrosses(names', journal'.log[i])
    BY <1>3 DEF LogInv, StillCrosses, There, Excluded
  <2>1. CASE i = L + 1
    BY <1>3, <2>1
  <2>2. CASE i \in 1 .. L
    <3> DEFINE q == journal.log[i]
    <3>1. journal'.log[i] = q
      BY <1>3, <2>2
    <3>2. /\ {q.from, q.to} \subseteq MadeBy(born)
          /\ q.across =>
                /\ q.kind = "moved" /\ q.id \in Dirs
                /\ \/ \E j \in i + 1 .. L : journal.log[j].across
                   \/ StillCrosses(names, q)
      BY <2>2 DEF IInv, LogInv, L
    <3> HIDE DEF q
    <3>3. MadeBy(born) \subseteq MadeBy(born')
      BY DEF MadeBy
    <3>4. CASE r.across
      <4>1. L + 1 \in i + 1 .. L + 1 /\ journal'.log[L + 1].across
        BY <1>1, <1>3, <2>2, <3>4
      <4> QED
        BY <3>1, <3>2, <3>3, <4>1
    <3>5. CASE ~r.across
      <4>1. StillCrosses(names, q) => StillCrosses(names', q)
        BY <3>2, <3>5 DEF Steady, StillCrosses, MadeBy
      <4>2. (\E j \in i + 1 .. L : journal.log[j].across)
               => \E j \in i + 1 .. L + 1 : journal'.log[j].across
        BY <1>1, <1>3, <2>2
      <4> QED
        BY <3>1, <3>2, <3>3, <4>1, <4>2
    <3> QED
      BY <3>4, <3>5
  <2>3. i = L + 1 \/ i \in 1 .. L
    BY <1>1
  <2> QED
    BY <2>1, <2>2, <2>3
<1>7. ASSUME NEW point \in Points, Reached(point)
      PROVE  Reached(point)'
  BY <1>1, <1>2, <1>3, <1>7 DEF Reached, Points, L
<1>8. ASSUME NEW rows, NEW lost, NEW point \in Points, Reached(point), Kept(rows, lost, point)
      PROVE  Kept(rows, lost, point)'
  <2> SUFFICES ASSUME point.journal = journal.id, point.next >= journal.first,
                      NEW o \in Objects
               PROVE  (rows[o] = Wanted(o) \/ o \in lost \/ TellsOf(point.next, o))'
    BY <1>2 DEF Kept
  <2>1. point.next \in Nat /\ point.next <= L
    BY <1>8 DEF Reached, Points, L
  <2>2. rows[o] = Wanted(o) \/ o \in lost \/ TellsOf(point.next, o)
    BY <1>8 DEF Kept
  <2>3. TellsOf(point.next, o) => TellsOf(point.next, o)'
    <3> SUFFICES ASSUME NEW i \in point.next + 1 .. L,
                        journal.log[i].id = o \/ journal.log[i].across
                 PROVE  TellsOf(point.next, o)'
      BY DEF TellsOf, L
    <3>1. i \in 1 .. L /\ i \in point.next + 1 .. L + 1
      BY <1>1, <2>1
    <3>2. journal'.log[i] = journal.log[i]
      BY <1>3, <3>1
    <3> QED
      BY <1>3, <3>1, <3>2 DEF TellsOf
  <2>4. CASE r.across \/ r.id = o
    <3>1. L + 1 \in point.next + 1 .. L + 1
      BY <1>1, <2>1
    <3>2. TellsOf(point.next, o)'
      BY <1>3, <2>4, <3>1 DEF TellsOf
    <3> QED
      BY <3>2
  <2>5. CASE ~r.across /\ r.id # o
    <3>1. Wanted(o)' = Wanted(o)
      BY <2>5, WantedStays DEF IInv
    <3> QED
      BY <2>2, <2>3, <3>1
  <2> QED
    BY <2>4, <2>5
<1>9. PublishedInv'
  <2>1. published.point \in Points /\ observed \in Points
    BY DEF IInv, Typed, Publications
  <2> QED
    BY <1>7, <1>8, <2>1 DEF IInv, PublishedInv
<1>10. WorkInv'
  <2>1. work.point \in Points
    BY DEF IInv, Typed, Works
  <2> QED
    BY <1>7, <1>8, <2>1 DEF IInv, WorkInv, Rest, NoRows, NoPoint
<1> QED
  BY <1>5, <1>6, <1>9, <1>10 DEF IInv

LEMMA WriteKeeps ==
    ASSUME IInv, NEW o \in Objects, NEW kind \in {"moved", "other"},
           NEW from \in Places, NEW to \in Places, Write(Record(o, kind, from, to)),
           born \subseteq born', Tree(names', born'),
           \A x \in Objects : x # o => names'[x] = names[x],
           o \in Dirs => {from, to} \subseteq MadeBy(born'),
           LET r == Record(o, kind, from, to) IN
           IF r.across THEN StillCrosses(names', r) ELSE Steady(names, names', born),
           Elsewhere
    PROVE  IInv'
<1> DEFINE r == Record(o, kind, from, to)
<1>1. /\ r.id = o /\ r.across \in BOOLEAN
      /\ r.kind = (IF o \in Dirs THEN kind ELSE "other")
      /\ r.from = (IF o \in Dirs THEN from ELSE Root)
      /\ r.to = (IF o \in Dirs THEN to ELSE Root)
      /\ r.across => kind = "moved" /\ o \in Dirs
  BY DEF Record
<1>2. Root \in Places /\ Root \in MadeBy(born')
  BY DEF IInv, Typed, Parameters, Places, MadeBy, Objects
<1>3. r \in Records
  BY <1>2 DEF Record, Records
<1>4. {r.from, r.to} \subseteq MadeBy(born')
  BY <1>1, <1>2
<1>5. \/ r.across /\ r.kind = "moved" /\ r.id \in Dirs /\ StillCrosses(names', r)
      \/ ~r.across /\ Steady(names, names', born)
  BY <1>1
<1>6. journal' = [journal EXCEPT !.log = Append(@, r)]
  BY DEF Write
<1>7. \A x \in Objects : x # r.id => names'[x] = names[x]
  BY <1>1
<1>8. UNCHANGED <<published, observed, work, troubles>>
  BY DEF Elsewhere
<1> HIDE DEF r
<1> QED
  BY <1>3, <1>4, <1>5, <1>6, <1>7, <1>8, AppendKeeps

\* A place that exists has been made.
LEMMA Made ==
    ASSUME Typed, NEW p \in Places, Exists(p)
    PROVE  p \in MadeBy(born) /\ There(names, p)
  BY DEF Typed, Tree, Exists, There, MadeBy, Objects

LEMMA CreateKeeps ==
    ASSUME IInv, NEW o \in Objects, NEW p \in Places, Create(o, p)
    PROVE  IInv'
<1>1. /\ o \notin born /\ Exists(p) /\ Write(Record(o, "other", p, p)) /\ Elsewhere
      /\ names' = [names EXCEPT ![o] = {p}] /\ born' = born \cup {o}
  BY DEF Create
<1>2. /\ Parameters /\ Typed /\ Tree(names, born)
  BY DEF IInv, Typed
<1>3. p \in MadeBy(born) /\ There(names, p)
  BY <1>1, <1>2, Made
<1>4. Tree(names', born') /\ Steady(names, names', born)
  BY <1>1, <1>2, <1>3, CreateTree
<1>5. p \in MadeBy(born') /\ born \subseteq born'
  BY <1>1, <1>3 DEF MadeBy
<1>6. \A x \in Objects : x # o => names'[x] = names[x]
  BY <1>1, <1>2 DEF Tree
<1>7. ~Record(o, "other", p, p).across
  BY DEF Record
<1> QED
  BY <1>1, <1>4, <1>5, <1>6, <1>7, WriteKeeps

LEMMA DeleteKeeps ==
    ASSUME IInv, NEW o \in Objects, Delete(o)
    PROVE  IInv'
<1>1. /\ names[o] # {} /\ \A x \in Objects : o \notin names[x]
      /\ Write(Record(o, "other", Root, Root)) /\ Elsewhere
      /\ names' = [names EXCEPT ![o] = {}] /\ born' = born
  BY DEF Delete
<1>2. /\ Parameters /\ Typed /\ Tree(names, born)
  BY DEF IInv, Typed
<1>3. Root \in Places /\ Root \in MadeBy(born')
  BY <1>2 DEF Parameters, Places, MadeBy, Objects
<1>4. Tree(names', born') /\ Steady(names, names', born)
  BY <1>1, <1>2, DeleteTree
<1>6. \A x \in Objects : x # o => names'[x] = names[x]
  BY <1>1, <1>2 DEF Tree
<1>7. ~Record(o, "other", Root, Root).across
  BY DEF Record
<1> QED
  BY <1>1, <1>3, <1>4, <1>6, <1>7, WriteKeeps

LEMMA MoveKeeps ==
    ASSUME IInv, NEW o \in Objects, NEW p \in Places, NEW q \in Places, Move(o, p, q)
    PROVE  IInv'
<1>1. /\ p \in names[o] /\ Exists(q) /\ o \notin Line(names, q)
      /\ Write(Record(o, "moved", p, q)) /\ Elsewhere
      /\ names' = [names EXCEPT ![o] = (@ \ {p}) \cup {q}] /\ born' = born
  BY DEF Move
<1>2. /\ Parameters /\ Typed /\ Tree(names, born)
  BY DEF IInv, Typed
<1>3. q \in MadeBy(born) /\ There(names, q)
  BY <1>1, <1>2, Made
<1>4. There(names, p) /\ p \in MadeBy(born)
  <2>1. There(names, p)
    BY <1>1, <1>2 DEF Tree
  <2> QED
    BY <1>2, <2>1, Made DEF There, Exists
<1>5. \A x \in Objects : x # o => names'[x] = names[x]
  BY <1>1, <1>2 DEF Tree
<1>6. CASE o \in Dirs
  <2> DEFINE r == Record(o, "moved", p, q)
  <2>1. /\ Tree(names', born)
        /\ Line(names', p) = Line(names, p) /\ Line(names', q) = Line(names, q)
        /\ (Excluded(names, p) <=> Excluded(names, q)) => Steady(names, names', born)
    <3>1. Parameters /\ Tree(names, born) /\ p \in names[o] /\ There(names, q)
      BY <1>1, <1>2, <1>3
    <3>2. o \notin Line(names, q) /\ Moves(names, names', o, p, q)
      BY <1>1 DEF Moves
    <3> HIDE DEF r
    <3> QED
      BY <1>6, <3>1, <3>2, MoveTree
  <2>2. r.across <=> ~(Excluded(names, p) <=> Excluded(names, q))
    <3>1. r.across <=> ("moved" = "moved" /\ o \in Dirs
                        /\ (Bin \in Line(names, p)) # (Bin \in Line(names, q)))
      BY DEF Record
    <3> HIDE DEF r
    <3>2. (Bin \in Line(names, p)) # (Bin \in Line(names, q))
             <=> ~(Excluded(names, p) <=> Excluded(names, q))
      BY DEF Excluded
    <3> QED
      BY <1>6, <3>1, <3>2
  <2>3. r.from = p /\ r.to = q
    BY <1>6 DEF Record
  <2> HIDE DEF r
  <2>4. r.across => StillCrosses(names', r)
    BY <2>1, <2>2, <2>3 DEF StillCrosses, Excluded
  <2>5. ~r.across => Steady(names, names', born)
    BY <2>1, <2>2
  <2> USE DEF r
  <2>6. LET r0 == Record(o, "moved", p, q) IN
        IF r0.across THEN StillCrosses(names', r0) ELSE Steady(names, names', born)
    BY <2>4, <2>5
  <2> HIDE DEF r
  <2> QED
    BY <1>1, <1>3, <1>4, <1>5, <2>1, <2>6, WriteKeeps
<1>7. CASE o \notin Dirs
  <2>1. o \in Files
    BY <1>7 DEF Objects
  <2> DEFINE w == (names[o] \ {p}) \cup {q}
  <2>2. w \in SUBSET Places /\ \A s \in w : There(names, s)
    BY <1>2, <1>3 DEF Tree
  <2>3. names' = [names EXCEPT ![o] = w]
    BY <1>1
  <2> HIDE DEF w
  <2>4. Tree(names', born') /\ Steady(names, names', born)
    BY <1>1, <1>2, <2>1, <2>2, <2>3, FileTree
  <2>5. ~Record(o, "moved", p, q).across
    BY <1>7 DEF Record
  <2> QED
    BY <1>1, <1>5, <1>7, <2>4, <2>5, WriteKeeps
<1> QED
  BY <1>6, <1>7

LEMMA LinkKeeps ==
    ASSUME IInv, NEW f \in Files, NEW q \in Places, Link(f, q)
    PROVE  IInv'
<1>1. /\ names[f] # {} /\ Exists(q) /\ Write(Record(f, "other", q, q)) /\ Elsewhere
      /\ names' = [names EXCEPT ![f] = @ \cup {q}] /\ born' = born
  BY DEF Link
<1>2. /\ Parameters /\ Typed /\ Tree(names, born) /\ f \in Objects /\ f \notin Dirs
  BY DEF IInv, Typed, Parameters, Objects
<1>3. q \in MadeBy(born) /\ There(names, q)
  BY <1>1, <1>2, Made
<1> DEFINE w == names[f] \cup {q}
<1>4. w \in SUBSET Places /\ \A s \in w : There(names, s)
  BY <1>2, <1>3 DEF Tree
<1>5. names' = [names EXCEPT ![f] = w]
  BY <1>1
<1> HIDE DEF w
<1>6. Tree(names', born') /\ Steady(names, names', born)
  BY <1>1, <1>2, <1>4, <1>5, FileTree
<1>7. \A x \in Objects : x # f => names'[x] = names[x]
  BY <1>1, <1>2 DEF Tree
<1>8. ~Record(f, "other", q, q).across
  BY DEF Record
<1> QED
  BY <1>1, <1>2, <1>6, <1>7, <1>8, WriteKeeps

LEMMA TruncateKeeps ==
    ASSUME IInv, Truncate
    PROVE  IInv'
<1>1. /\ journal.first < Len(journal.log) /\ journal' = [journal EXCEPT !.first = @ + 1]
      /\ UNCHANGED <<names, born, published, observed, work, troubles>>
  BY DEF Truncate, Elsewhere
<1>2. journal \in [id : 1 .. MaxJournals, first : Nat, log : Seq(Records)]
  BY DEF IInv, Typed
<1>3. /\ journal'.id = journal.id /\ journal'.log = journal.log
      /\ journal'.first = journal.first + 1 /\ journal.first \in Nat
      /\ Len(journal.log) \in Nat
  BY <1>1, <1>2
<1>4. journal' \in [id : 1 .. MaxJournals, first : Nat, log : Seq(Records)]
  BY <1>1, <1>2, <1>3
<1>5. Typed'
  BY <1>1, <1>3, <1>4 DEF IInv, Typed
<1>6. LogInv'
  <2>1. LogInv
    BY DEF IInv
  <2> QED
    BY <1>1, <1>3, <2>1 DEF LogInv
<1>7. ASSUME NEW point \in Points, NEW rows, NEW lost
      PROVE  /\ Reached(point) => Reached(point)'
             /\ Kept(rows, lost, point) => Kept(rows, lost, point)'
  <2>1. point.next \in Nat
    BY DEF Points
  <2>2. point.next >= journal'.first => point.next >= journal.first
    BY <1>3, <2>1
  <2>3. \A o : Wanted(o)' = Wanted(o)
    BY <1>1 DEF Wanted
  <2>4. \A o : TellsOf(point.next, o)' = TellsOf(point.next, o)
    BY <1>3 DEF TellsOf
  <2> QED
    BY <1>3, <2>2, <2>3, <2>4 DEF Reached, Kept
<1>8. published.point \in Points /\ observed \in Points /\ work.point \in Points
  BY DEF IInv, Typed, Publications, Works
<1>9. PublishedInv' /\ WorkInv'
  BY <1>1, <1>7, <1>8 DEF IInv, PublishedInv, WorkInv, Rest, NoRows, NoPoint
<1> QED
  BY <1>5, <1>6, <1>9 DEF IInv

LEMMA RecreateKeeps ==
    ASSUME IInv, Recreate
    PROVE  IInv'
<1>1. /\ journal.id < MaxJournals
      /\ journal' = [id |-> journal.id + 1, first |-> 0, log |-> <<>>]
      /\ UNCHANGED <<names, born, published, observed, work, troubles>>
  BY DEF Recreate, Elsewhere
<1>2. journal.id \in 1 .. MaxJournals /\ MaxJournals \in Nat
  BY DEF IInv, Typed, Parameters
<1>3. /\ journal'.id = journal.id + 1 /\ journal'.first = 0 /\ journal'.log = <<>>
      /\ Len(journal'.log) = 0
  BY <1>1
<1>4. journal' \in [id : 1 .. MaxJournals, first : Nat, log : Seq(Records)]
  BY <1>1, <1>2
<1>5. Typed'
  BY <1>1, <1>3, <1>4 DEF IInv, Typed
<1>6. LogInv'
  BY <1>3 DEF LogInv
<1>7. ASSUME NEW point \in Points, NEW rows, NEW lost, Reached(point)
      PROVE  Reached(point)' /\ Kept(rows, lost, point)'
  <2>1. point.journal \in Nat /\ point.journal <= journal.id
    BY <1>7 DEF Points, Reached
  <2>2. point.journal <= journal'.id /\ point.journal # journal'.id
    BY <1>2, <1>3, <2>1
  <2> QED
    BY <2>2 DEF Reached, Kept
<1>8. published.point \in Points /\ observed \in Points /\ work.point \in Points
  BY DEF IInv, Typed, Publications, Works
<1>9. PublishedInv' /\ WorkInv'
  BY <1>1, <1>7, <1>8 DEF IInv, PublishedInv, WorkInv, Rest, NoRows, NoPoint
<1> QED
  BY <1>5, <1>6, <1>9 DEF IInv

-----------------------------------------------------------------------------
(* What the store does: it leaves the volume as it is. *)

\* The values a step leaves, with what the volume and the journal say of them.
LEMMA StoreStep ==
    ASSUME IInv, Outside
    PROVE  /\ LogInv'
           /\ \A point : Reached(point)' <=> Reached(point)
           /\ \A rows, lost, point : Kept(rows, lost, point)' <=> Kept(rows, lost, point)
           /\ (published' \in Publications /\ observed' \in Points /\ work' \in Works
               /\ troubles' \in 0 .. MaxTroubles) => Typed'
<1>1. names' = names /\ born' = born /\ journal' = journal
  BY DEF Outside
<1>2. LogInv'
  BY <1>1 DEF IInv, LogInv
<1>3. \A point : Reached(point)' <=> Reached(point)
  BY <1>1 DEF Reached
<1>4. \A rows, lost, point : Kept(rows, lost, point)' <=> Kept(rows, lost, point)
  <2>1. \A o : Wanted(o)' = Wanted(o)
    BY <1>1 DEF Wanted
  <2>2. \A next, o : TellsOf(next, o)' <=> TellsOf(next, o)
    BY <1>1 DEF TellsOf
  <2> QED
    BY <1>1, <2>1, <2>2 DEF Kept
<1>5. (published' \in Publications /\ observed' \in Points /\ work' \in Works
       /\ troubles' \in 0 .. MaxTroubles) => Typed'
  BY <1>1 DEF IInv, Typed
<1> QED
  BY <1>2, <1>3, <1>4, <1>5

LEMMA StoreTyped ==
    ASSUME IInv
    PROVE  /\ Parameters /\ published \in Publications /\ observed \in Points /\ work \in Works
           /\ troubles \in 0 .. MaxTroubles /\ names \in [Objects -> SUBSET Places]
           /\ journal.id \in 1 .. MaxJournals /\ journal.log \in Seq(Records)
           /\ Len(journal.log) \in Nat /\ journal.first \in Nat
<1>1. journal \in [id : 1 .. MaxJournals, first : Nat, log : Seq(Records)]
  BY DEF IInv, Typed
<1>2. journal.log \in Seq(Records)
  BY <1>1
<1>3. Len(journal.log) \in Nat
  BY <1>2
<1> QED
  BY <1>1, <1>2, <1>3 DEF IInv, Typed, Tree

\* What is published does not change.
LEMMA SamePublished ==
    ASSUME IInv, Outside, UNCHANGED <<published, observed>>
    PROVE  PublishedInv'
  BY StoreStep DEF IInv, PublishedInv

LEMMA RestWork ==
    ASSUME IInv, Outside, work' = Rest
    PROVE  WorkInv' /\ work' \in Works
<1>1. Reached(NoPoint)
  BY StoreTyped DEF Reached, NoPoint
<1>2. Reached(NoPoint)'
  BY <1>1, StoreStep
<1>3. work' \in Works
  BY StoreTyped, RestTyped
<1> QED
  BY <1>2, <1>3 DEF WorkInv, Rest

LEMMA UpdateKeeps ==
    ASSUME IInv, NEW rebuild \in BOOLEAN, Update(rebuild)
    PROVE  IInv'
<1>1. /\ Outside /\ UNCHANGED <<published, observed, troubles>>
      /\ rebuild \/ published.exists
      /\ work' = IF rebuild THEN Fresh ELSE Again
  BY DEF Update
<1>2. /\ Here \in Points /\ Reached(Here)
      /\ InUse \in Points /\ Reached(InUse)
  <2>1. Here \in Points /\ Reached(Here)
    BY StoreTyped DEF Here, Points, Reached
  <2>2. InUse \in {observed, published.point}
    BY DEF InUse
  <2>3. published.point \in Points
    BY StoreTyped DEF Publications
  <2> QED
    BY <2>1, <2>2, <2>3, StoreTyped DEF IInv, PublishedInv
<1>3. PublishedInv'
  BY <1>1, SamePublished
<1>4. CASE rebuild
  <2>1. work' = [Rest EXCEPT !.step = "enumerate", !.rebuild = TRUE, !.changed = TRUE,
                             !.point = Here]
    BY <1>1, <1>4 DEF Fresh
  <2>2. /\ work'.step = "enumerate" /\ work'.changed = TRUE /\ work'.rows = NoRows
        /\ work'.unavailable = {} /\ work'.todo = {} /\ work'.point = Here
    BY <2>1 DEF Rest
  <2>3. work' \in Works
    BY <1>2, <2>1, RestTyped, StoreTyped DEF Works, Rest
  <2>4. Reached(Here)'
    <3>1. \A point : Reached(point)' <=> Reached(point)
      BY <1>1, StoreStep
    <3>2. Here' = Here
      BY <1>1 DEF Here, Outside
    <3> QED
      BY <1>2, <3>1, <3>2
  <2>5. Here' = Here
    BY <1>1 DEF Here, Outside
  <2>6. WorkInv'
    BY <2>2, <2>4, <2>5 DEF WorkInv, NoRows
  <2> QED
    BY <1>1, <1>3, <2>3, <2>6, StoreStep, StoreTyped DEF IInv
<1>5. CASE ~rebuild
  <2>1. work' = [Rest EXCEPT !.step = "changes", !.rows = published.rows, !.point = InUse,
                             !.unavailable = published.unavailable]
    BY <1>1, <1>5 DEF Again
  <2>2. /\ work'.step = "changes" /\ work'.rows = published.rows
        /\ work'.unavailable = published.unavailable /\ work'.todo = {}
        /\ work'.point = InUse /\ work'.rebuild = FALSE
    BY <2>1 DEF Rest
  <2>3. work' \in Works
    BY <1>2, <2>1, RestTyped, StoreTyped DEF Works, Rest, Publications
  <2>4. \A point : Reached(point) => Reached(point)'
    BY <1>1, StoreStep
  <2>5. Reached(work'.point)
    BY <1>2, <2>2
  <2>6. ~published.twice =>
           Kept(published.rows, published.unavailable, InUse)
    BY <1>1, <1>5 DEF IInv, PublishedInv, InUse
  <2>7. ~published.twice =>
           Kept(work'.rows, work'.unavailable \cup work'.todo, work'.point)
    BY <2>2, <2>6
  <2>8. \A rows, lost, point : Kept(rows, lost, point) => Kept(rows, lost, point)'
    BY <1>1, StoreStep
  <2>9. WorkInv'
    BY <1>1, <1>5, <2>2, <2>4, <2>5, <2>7, <2>8 DEF WorkInv
  <2> QED
    BY <1>1, <1>3, <2>3, <2>9, StoreStep, StoreTyped DEF IInv
<1> QED
  BY <1>4, <1>5

LEMMA EnumerateKeeps ==
    ASSUME IInv, Enumerate
    PROVE  IInv'
<1>1. /\ Outside /\ UNCHANGED <<published, observed, troubles>> /\ work.step = "enumerate"
      /\ work' = [work EXCEPT !.step = "changes", !.todo = {o \in Objects : names[o] # {}}]
  BY DEF Enumerate, Keep
<1>2. work \in Works /\ Parameters /\ troubles \in 0 .. MaxTroubles
  BY StoreTyped
<1>3. work' \in Works
  BY <1>1, <1>2 DEF Works
<1>4. /\ work'.step = "changes" /\ work'.todo = {o \in Objects : names[o] # {}}
      /\ work'.rows = work.rows /\ work'.unavailable = work.unavailable
      /\ work'.point = work.point /\ work'.changed = work.changed
      /\ work'.rebuild = work.rebuild /\ work'.twice = work.twice
  BY <1>1, <1>2 DEF Works
<1>5. /\ work.rows = NoRows /\ work.unavailable = {} /\ Reached(work.point)
      /\ ~work.changed => /\ ~work.rebuild /\ published.exists
                          /\ work.rows = published.rows
                          /\ work.unavailable = published.unavailable
  BY <1>1 DEF IInv, WorkInv
<1>6. Kept(work'.rows, work'.unavailable \cup work'.todo, work'.point)
  <2>1. \A o \in Objects : names[o] = {} => Wanted(o) = NoRows[o]
    BY DEF Wanted, NoRows
  <2> QED
    BY <1>4, <1>5, <2>1 DEF Kept
<1>7. PublishedInv'
  BY <1>1, SamePublished
<1>8. \A point : Reached(point) => Reached(point)'
  BY <1>1, StoreStep
<1>9. \A rows, lost, point : Kept(rows, lost, point) => Kept(rows, lost, point)'
  BY <1>1, StoreStep
<1>10. WorkInv'
  BY <1>1, <1>4, <1>5, <1>6, <1>8, <1>9 DEF WorkInv
<1> QED
  BY <1>1, <1>2, <1>3, <1>7, <1>10, StoreStep, StoreTyped DEF IInv

\* Nothing below the excluded directory is wanted, nor that directory.
LEMMA WantedTyped ==
    ASSUME IInv, NEW o \in Objects
    PROVE  Wanted(o) \in SUBSET (Places \ {Bin})
<1>1. Wanted(o) \subseteq Places
  BY StoreTyped DEF Wanted
<1>2. Bin \in Line(names, Bin)
  BY StoreTyped, LineUpward DEF Parameters
<1> QED
  BY <1>1, <1>2 DEF Wanted

LEMMA ResolveKeeps ==
    ASSUME IInv, NEW o \in Objects, NEW known \in BOOLEAN, Resolve(o, known)
    PROVE  IInv'
<1> DEFINE want == Found(o, known)
           lost == Untold(o, known)
<1>1. /\ Outside /\ UNCHANGED <<published, observed>> /\ o \in work.todo
      /\ work' = [work EXCEPT !.todo = @ \ {o}, !.rows[o] = want, !.unavailable = lost,
                              !.changed = @ \/ want # work.rows[o]
                                            \/ lost # work.unavailable]
      /\ IF known THEN troubles' = troubles ELSE Trouble
  BY DEF Resolve
<1>2. work \in Works /\ Parameters /\ troubles \in 0 .. MaxTroubles
  BY StoreTyped
<1>3. /\ want \in SUBSET (Places \ {Bin}) /\ lost \in SUBSET Objects
      /\ known => want = Wanted(o) /\ lost = work.unavailable \ {o}
      /\ ~known => lost = work.unavailable \cup {o}
  BY <1>2, WantedTyped DEF Found, Untold, Works
<1> HIDE DEF want, lost
<1>4. troubles' \in 0 .. MaxTroubles
  <2>1. MaxTroubles \in Nat
    BY <1>2 DEF Parameters
  <2> QED
    BY <1>1, <1>2, <2>1 DEF Trouble
<1>5. /\ work'.step = work.step /\ work'.todo = work.todo \ {o}
      /\ work'.rows = [work.rows EXCEPT ![o] = want] /\ work'.unavailable = lost
      /\ work'.point = work.point /\ work'.rebuild = work.rebuild /\ work'.twice = work.twice
      /\ work'.changed = (work.changed \/ want # work.rows[o] \/ lost # work.unavailable)
  BY <1>1, <1>2 DEF Works
<1>6. work.rows \in Rows /\ work.todo \in SUBSET Objects
  BY <1>2 DEF Works
<1>7. work'.rows \in Rows
  BY <1>3, <1>5, <1>6 DEF Rows
<1>8. work' \in Works
  <2>1. (work.changed \/ want # work.rows[o] \/ lost # work.unavailable) \in BOOLEAN
    OBVIOUS
  <2>2. [work.rows EXCEPT ![o] = want] \in Rows
    BY <1>5, <1>7
  <2> QED
    BY <1>1, <1>2, <1>3, <1>6, <2>1, <2>2 DEF Works
<1>9. work.step \in {"changes", "parents"}
  <2>1. work.todo # {}
    BY <1>1
  <2>2. work = Rest => work.todo = {}
    BY DEF Rest
  <2> QED
    BY <1>2, <2>1, <2>2 DEF IInv, WorkInv, Works
<1>10. Kept(work.rows, work.unavailable \cup work.todo, work.point)
          => Kept(work'.rows, work'.unavailable \cup work'.todo, work'.point)
  <2>1. \A x \in Objects : x # o =>
           /\ work'.rows[x] = work.rows[x]
           /\ (x \in work'.unavailable \cup work'.todo
                  <=> x \in work.unavailable \cup work.todo)
    BY <1>3, <1>5, <1>6 DEF Rows
  <2>2. work'.rows[o] = Wanted(o) \/ o \in work'.unavailable \cup work'.todo
    BY <1>3, <1>5, <1>6 DEF Rows
  <2> QED
    BY <1>5, <2>1, <2>2 DEF Kept
<1>11. ~work'.changed =>
          ~work.changed /\ work'.rows = work.rows /\ work'.unavailable = work.unavailable
  BY <1>5, <1>6 DEF Rows
<1>12. PublishedInv'
  BY <1>1, SamePublished
<1>13. \A point : Reached(point) => Reached(point)'
  BY <1>1, StoreStep
<1>14. \A rows, l, point : Kept(rows, l, point) => Kept(rows, l, point)'
  BY <1>1, StoreStep
<1>15. WorkInv'
  BY <1>1, <1>5, <1>9, <1>10, <1>11, <1>13, <1>14 DEF IInv, WorkInv
<1> QED
  BY <1>1, <1>4, <1>8, <1>12, <1>15, StoreStep, StoreTyped DEF IInv

-----------------------------------------------------------------------------
(* A page of the journal. *)

LEMMA MinOfTwo ==
    ASSUME NEW a \in Nat, NEW b \in Nat
    PROVE  Min({a, b}) = IF a <= b THEN a ELSE b
  BY DEF Min

OnlyMove(page, d, i) ==
    \A j \in 1 .. Len(page) : (page[j].id = d /\ page[j].kind = "moved") <=> i = j
LEMMA LastIs ==
    ASSUME NEW page \in Seq(Records), NEW d, NEW i \in 1 .. Len(page), OnlyMove(page, d, i)
    PROVE  LastMove(page, d) = page[i]
<1> DEFINE I == {j \in 1 .. Len(page) : page[j].id = d /\ page[j].kind = "moved"}
<1>1. I = {i}
  BY DEF OnlyMove
<1>2. Max(I) = i
  BY <1>1 DEF Max
<1>3. SelectLastInSeq(page, LAMBDA r : r.id = d /\ r.kind = "moved") = i
  BY <1>1, <1>2 DEF SelectLastInSeq
<1> QED
  BY <1>3 DEF LastMove

LEMMA PageIs ==
    ASSUME IInv, work.point.next \in journal.first .. Len(journal.log)
    PROVE  /\ Page \in Seq(Records) /\ Len(Page) \in Nat
           /\ work.point.next + Len(Page) <= Len(journal.log)
           /\ \A j \in 1 .. Len(Page) : /\ work.point.next + j \in 1 .. Len(journal.log)
                                        /\ Page[j] = journal.log[work.point.next + j]
<1> DEFINE L == Len(journal.log)
           n == work.point.next
           m == Min({n + PageSize, L})
<1>1. /\ L \in Nat /\ journal.log \in Seq(Records) /\ PageSize \in Nat
      /\ n \in Nat /\ n <= L
  BY StoreTyped DEF Parameters
<1>2. m \in Nat /\ n <= m /\ m <= L
  <2>1. n + PageSize \in Nat
    BY <1>1
  <2>2. m = IF n + PageSize <= L THEN n + PageSize ELSE L
    BY <1>1, <2>1, MinOfTwo
  <2> HIDE DEF m
  <2> QED
    BY <1>1, <2>2
<1>3. Page = SubSeq(journal.log, n + 1, m)
  BY DEF Page
<1> HIDE DEF L, n, m
<1>4. Len(Page) = m - n /\ Page \in Seq(Records)
  BY <1>1, <1>2, <1>3 DEF L
<1>5. \A j \in 1 .. m - n : Page[j] = journal.log[n + j]
  BY <1>1, <1>2, <1>3 DEF L
<1> QED
  BY <1>1, <1>2, <1>4, <1>5 DEF L, n

\* The last move across the edge of the policy lies beyond a page that does not
\* have the boundary changed.
LEMMA BeyondThePage ==
    ASSUME IInv, Validate(work.point), ~BoundaryChanged(Page), ~MovesTwice(Page),
           NEW i \in work.point.next + 1 .. Len(journal.log), journal.log[i].across
    PROVE  \E j \in work.point.next + Len(Page) + 1 .. Len(journal.log) :
              journal.log[j].across
<1> DEFINE L == Len(journal.log)
           n == work.point.next
<1>1. /\ L \in Nat /\ journal.log \in Seq(Records) /\ n \in Nat /\ n <= L
      /\ n \in journal.first .. Len(journal.log)
  BY StoreTyped DEF Validate
<1>2. /\ Page \in Seq(Records) /\ Len(Page) \in Nat /\ n + Len(Page) <= L
      /\ \A j \in 1 .. Len(Page) : n + j \in 1 .. L /\ Page[j] = journal.log[n + j]
  BY <1>1, PageIs
<1> DEFINE S == {L - j : j \in {x \in n + 1 .. L : journal.log[x].across}}
<1>3. S \in SUBSET Nat /\ S # {}
  BY <1>1
<1>4. PICK s \in S : \A k \in S : s <= k
  BY <1>3, Least
<1>5. PICK m \in n + 1 .. L : journal.log[m].across /\ s = L - m
  BY <1>4
<1>6. \A j \in m + 1 .. L : ~journal.log[j].across
  <2> SUFFICES ASSUME NEW j \in m + 1 .. L, journal.log[j].across
               PROVE  FALSE
    OBVIOUS
  <2>1. j \in n + 1 .. L
    BY <1>1, <1>5
  <2>2. L - j \in S
    BY <2>1
  <2>3. s <= L - j
    BY <1>4, <2>2
  <2> QED
    BY <1>1, <1>5, <2>3
<1> HIDE DEF S, L, n
<1>7. CASE m > n + Len(Page)
  <2>1. m \in n + Len(Page) + 1 .. L
    BY <1>1, <1>2, <1>5, <1>7
  <2> QED
    BY <1>5, <2>1 DEF L, n
<1>8. CASE m <= n + Len(Page)
  <2> DEFINE r == journal.log[m]
             h == m - n
  <2>1. m \in 1 .. L /\ h \in 1 .. Len(Page) /\ n + h = m
    BY <1>1, <1>2, <1>5, <1>8
  <2>2. Page[h] = r
    BY <1>2, <2>1
  <2>3. /\ r.kind = "moved" /\ r.id \in Dirs /\ StillCrosses(names, r)
        /\ r.from \in Places /\ r.to \in Places
    BY <1>5, <1>6, <2>1 DEF IInv, LogInv, L, MadeBy
  <2> HIDE DEF r, h
  <2>4. OnlyMove(Page, r.id, h)
    <3> SUFFICES ASSUME NEW j \in 1 .. Len(Page)
                 PROVE  (Page[j].id = r.id /\ Page[j].kind = "moved") <=> h = j
      BY DEF OnlyMove
    <3>1. DOMAIN Page = 1 .. Len(Page)
      BY <1>2
    <3>2. CASE j = h
      BY <2>2, <2>3, <3>2
    <3>3. CASE j # h
      <4>1. j < h \/ h < j
        BY <1>2, <2>1, <3>3
      <4>2. ~(Page[j].id = r.id /\ Page[j].kind = "moved")
        BY <2>1, <2>2, <2>3, <3>1, <4>1 DEF MovesTwice
      <4> QED
        BY <3>3, <4>2
    <3> QED
      BY <3>2, <3>3
  <2>5. LastMove(Page, r.id) = r
    <3>1. LastMove(Page, r.id) = Page[h]
      BY <1>2, <2>1, <2>4, LastIs
    <3> QED
      BY <2>2, <3>1
  <2>6. r.id \in Moved(Page)
    <3>1. r \in Range(Page)
      BY <1>2, <2>1, <2>2 DEF Range
    <3> QED
      BY <2>3, <3>1 DEF Moved
  <2>7. Exists(r.from) /\ Exists(r.to) /\ ~Crosses(r.from, r.to)
    BY <2>5, <2>6, Zenon DEF BoundaryChanged
  <2>8. FALSE
    BY <2>3, <2>7 DEF StillCrosses, Exists, There, Crosses, Excluded
  <2> QED
    BY <2>8
<1> QED
  BY <1>1, <1>2, <1>5, <1>7, <1>8

LEMMA ChangesKeeps ==
    ASSUME IInv, Changes
    PROVE  IInv'
<1>1. /\ Outside /\ UNCHANGED <<published, observed, troubles>>
      /\ work.step = "changes" /\ work.todo = {}
      /\ Validate(work.point) /\ ~BoundaryChanged(Page)
      /\ work' = [work EXCEPT !.todo = {r.id : r \in Range(Page)},
                              !.point.next = @ + Len(Page),
                              !.caught = work.point.next + Len(Page) = Len(journal.log),
                              !.twice = @ \/ MovesTwice(Page)]
  BY DEF Changes, Keep
<1>2. work \in Works /\ Parameters /\ troubles \in 0 .. MaxTroubles /\ Len(journal.log) \in Nat
  BY StoreTyped
<1> DEFINE L == Len(journal.log)
           n == work.point.next
           k == Len(Page)
<1>3. n \in journal.first .. L /\ n \in Nat /\ work.point.journal = journal.id
  BY <1>1, <1>2 DEF Validate, Works, Points
<1>4. /\ Page \in Seq(Records) /\ k \in Nat /\ n + k <= L
      /\ \A j \in 1 .. k : n + j \in 1 .. L /\ Page[j] = journal.log[n + j]
  BY <1>3, PageIs
<1>5. /\ work'.step = "changes" /\ work'.todo = {r.id : r \in Range(Page)}
      /\ work'.rows = work.rows /\ work'.unavailable = work.unavailable
      /\ work'.point = [work.point EXCEPT !.next = n + k]
      /\ work'.changed = work.changed /\ work'.rebuild = work.rebuild
      /\ work'.twice = (work.twice \/ MovesTwice(Page))
  BY <1>1, <1>2 DEF Works
<1> HIDE DEF L, n, k
<1>6. /\ work'.point \in Points /\ work'.point.journal = journal.id
      /\ work'.point.next = n + k
  <2>1. work.point \in Points
    BY <1>2 DEF Works
  <2>2. n + k \in Nat
    BY <1>3, <1>4
  <2> QED
    BY <1>3, <1>5, <2>1, <2>2 DEF Points
<1>7. {r.id : r \in Range(Page)} \in SUBSET Objects
  <2>1. \A j \in DOMAIN Page : Page[j] \in Records
    BY <1>4
  <2>2. \A r \in Range(Page) : r \in Records
    BY <2>1 DEF Range
  <2>3. \A r \in Range(Page) : r.id \in Objects
    BY <2>2 DEF Records
  <2> QED
    BY <2>3
<1>8. work' \in Works
  <2>1. /\ (work.twice \/ MovesTwice(Page)) \in BOOLEAN
        /\ (n + k = L) \in BOOLEAN
    OBVIOUS
  <2>2. work' = [work EXCEPT !.todo = {r.id : r \in Range(Page)},
                             !.point = [work.point EXCEPT !.next = n + k],
                             !.caught = (n + k = L),
                             !.twice = (work.twice \/ MovesTwice(Page))]
    BY <1>1, <1>2 DEF Works, L, n, k
  <2>3. [work.point EXCEPT !.next = n + k] \in Points
    BY <1>5, <1>6
  <2> QED
    BY <1>2, <1>7, <2>1, <2>2, <2>3 DEF Works
<1>9. Reached(work'.point)
  <2>1. journal.id \in Nat
    BY StoreTyped
  <2> QED
    BY <1>4, <1>6, <2>1 DEF Reached, L
<1>10. ASSUME Kept(work.rows, work.unavailable \cup work.todo, work.point),
              ~MovesTwice(Page)
       PROVE  Kept(work'.rows, work'.unavailable \cup work'.todo, work'.point)
  <2> SUFFICES ASSUME NEW o \in Objects,
                      ~(work.rows[o] = Wanted(o) \/ o \in work.unavailable)
               PROVE  o \in work'.todo \/ TellsOf(n + k, o)
    BY <1>5, <1>6 DEF Kept
  <2>1. TellsOf(n, o)
    BY <1>1, <1>3, <1>10 DEF Kept, n
  <2>2. PICK i \in n + 1 .. L : journal.log[i].id = o \/ journal.log[i].across
    BY <2>1 DEF TellsOf, L
  <2>3. CASE journal.log[i].across
    <3>1. \E j \in n + k + 1 .. L : journal.log[j].across
      BY <1>1, <1>10, <2>2, <2>3, BeyondThePage DEF L, n, k
    <3> QED
      BY <3>1 DEF TellsOf, L
  <2>4. CASE journal.log[i].id = o /\ i > n + k
    <3>1. i \in n + k + 1 .. L
      BY <1>2, <1>3, <1>4, <2>2, <2>4 DEF L
    <3> QED
      BY <2>4, <3>1 DEF TellsOf, L
  <2>5. CASE journal.log[i].id = o /\ i <= n + k
    <3>1. i - n \in 1 .. k /\ n + (i - n) = i
      BY <1>2, <1>3, <1>4, <2>2, <2>5 DEF L
    <3>2. Page[i - n] = journal.log[i] /\ i - n \in DOMAIN Page
      BY <1>4, <3>1 DEF k
    <3>3. journal.log[i] \in Range(Page)
      BY <3>2 DEF Range
    <3> QED
      BY <1>5, <2>5, <3>3
  <2>6. i > n + k \/ i <= n + k
    BY <1>2, <1>3, <1>4, <2>2 DEF L
  <2> QED
    BY <2>2, <2>3, <2>4, <2>5, <2>6
<1>11. PublishedInv'
  BY <1>1, SamePublished
<1>12. \A point : Reached(point) => Reached(point)'
  BY <1>1, StoreStep
<1>13. \A rows, l, point : Kept(rows, l, point) => Kept(rows, l, point)'
  BY <1>1, StoreStep
<1>14. WorkInv'
  BY <1>1, <1>5, <1>9, <1>10, <1>12, <1>13 DEF IInv, WorkInv
<1> QED
  BY <1>1, <1>2, <1>8, <1>11, <1>14, StoreStep, StoreTyped DEF IInv

-----------------------------------------------------------------------------
(* The rest of an update. *)

LEMMA UnchangedKeeps ==
    ASSUME IInv, Unchanged
    PROVE  IInv'
<1>1. /\ Outside /\ troubles' = troubles /\ observed' = work.point /\ work' = Rest
      /\ work.step = "changes" /\ work.todo = {} /\ ~work.changed
      /\ published' = [published EXCEPT !.twice = @ \/ work.twice]
  BY DEF Unchanged
<1>2. work \in Works /\ published \in Publications /\ troubles \in 0 .. MaxTroubles
  BY StoreTyped
<1>3. /\ published'.point = published.point /\ published'.exists = published.exists
      /\ published'.rows = published.rows
      /\ published'.unavailable = published.unavailable
      /\ published'.twice = (published.twice \/ work.twice)
  BY <1>1, <1>2 DEF Publications
<1>4. published' \in Publications /\ observed' \in Points
  <2>1. (published.twice \/ work.twice) \in BOOLEAN
    OBVIOUS
  <2> QED
    BY <1>1, <1>2, <2>1 DEF Publications, Works
<1>5. /\ Reached(work.point)
      /\ ~work.twice /\ ~published.twice
            => Kept(published.rows, published.unavailable, work.point)
  <2>1. /\ ~work.rebuild /\ work.rows = published.rows
        /\ work.unavailable = published.unavailable
    BY <1>1 DEF IInv, WorkInv
  <2>2. work.unavailable \cup work.todo = published.unavailable
    BY <1>1, <2>1
  <2>3. ~work.twice /\ ~published.twice
           => Kept(work.rows, work.unavailable \cup work.todo, work.point)
    BY <1>1 DEF IInv, WorkInv
  <2>4. Reached(work.point)
    BY DEF IInv, WorkInv
  <2> QED
    BY <2>1, <2>2, <2>3, <2>4
<1>6. \A point : Reached(point) => Reached(point)'
  BY <1>1, StoreStep
<1>7. \A rows, l, point : Kept(rows, l, point) => Kept(rows, l, point)'
  BY <1>1, StoreStep
<1>8. PublishedInv'
  BY <1>1, <1>3, <1>5, <1>6, <1>7 DEF IInv, PublishedInv
<1>9. WorkInv' /\ work' \in Works
  BY <1>1, RestWork
<1> QED
  BY <1>1, <1>2, <1>4, <1>8, <1>9, StoreStep DEF IInv

LEMMA RetryKeeps ==
    ASSUME IInv, Retry
    PROVE  IInv'
<1>1. /\ Outside /\ UNCHANGED <<published, observed, troubles>>
      /\ work.step = "changes" /\ work.todo = {} /\ work.changed
      /\ work' = [work EXCEPT !.step = "parents", !.todo = work.unavailable]
  BY DEF Retry, Keep
<1>2. work \in Works /\ troubles \in 0 .. MaxTroubles
  BY StoreTyped
<1>3. work' \in Works
  BY <1>1, <1>2 DEF Works
<1>4. /\ work'.step = "parents" /\ work'.todo = work.unavailable
      /\ work'.rows = work.rows /\ work'.unavailable = work.unavailable
      /\ work'.point = work.point /\ work'.changed = work.changed
      /\ work'.rebuild = work.rebuild /\ work'.twice = work.twice
  BY <1>1, <1>2 DEF Works
<1>5. work'.unavailable \cup work'.todo = work.unavailable \cup work.todo
  BY <1>1, <1>4
<1>6. PublishedInv'
  BY <1>1, SamePublished
<1>7. \A point : Reached(point) => Reached(point)'
  BY <1>1, StoreStep
<1>8. \A rows, lost, point : Kept(rows, lost, point) => Kept(rows, lost, point)'
  BY <1>1, StoreStep
<1>9. WorkInv'
  BY <1>1, <1>4, <1>5, <1>7, <1>8 DEF IInv, WorkInv
<1> QED
  BY <1>1, <1>2, <1>3, <1>6, <1>9, StoreStep, StoreTyped DEF IInv

LEMMA HydrateKeeps ==
    ASSUME IInv, Hydrate
    PROVE  IInv'
<1>1. /\ Outside /\ UNCHANGED <<published, observed, troubles>>
      /\ work.step = "parents" /\ work.todo = {}
      /\ work' = [work EXCEPT !.todo = Orphans, !.seen = @ \cup Orphans]
  BY DEF Hydrate, Keep
<1>2. work \in Works /\ troubles \in 0 .. MaxTroubles
  BY StoreTyped
<1>3. Orphans \in SUBSET Objects
  <2>1. \A o \in Objects : work.rows[o] \subseteq Places \ {Bin}
    BY <1>2 DEF Works, Rows
  <2> QED
    BY <2>1 DEF Orphans, Places, Objects
<1>4. work' \in Works
  BY <1>1, <1>2, <1>3 DEF Works
<1>5. /\ work'.step = "parents" /\ work'.todo = Orphans
      /\ work'.rows = work.rows /\ work'.unavailable = work.unavailable
      /\ work'.point = work.point /\ work'.changed = work.changed
      /\ work'.rebuild = work.rebuild /\ work'.twice = work.twice
  BY <1>1, <1>2 DEF Works
<1>6. Kept(work.rows, work.unavailable \cup work.todo, work.point)
         => Kept(work'.rows, work'.unavailable \cup work'.todo, work'.point)
  BY <1>1, <1>5 DEF Kept
<1>7. PublishedInv'
  BY <1>1, SamePublished
<1>8. \A point : Reached(point) => Reached(point)'
  BY <1>1, StoreStep
<1>9. \A rows, lost, point : Kept(rows, lost, point) => Kept(rows, lost, point)'
  BY <1>1, StoreStep
<1>10. WorkInv'
  BY <1>1, <1>5, <1>6, <1>8, <1>9 DEF IInv, WorkInv
<1> QED
  BY <1>1, <1>2, <1>4, <1>7, <1>10, StoreStep, StoreTyped DEF IInv

LEMMA PublishKeeps ==
    ASSUME IInv, Publish
    PROVE  IInv'
<1>1. /\ Outside /\ troubles' = troubles /\ observed' = work.point /\ work' = Rest
      /\ work.step = "parents" /\ work.todo = {}
      /\ published' = [exists |-> TRUE, rows |-> work.rows,
                       unavailable |-> work.unavailable, point |-> work.point,
                       twice |-> work.twice \/ (~work.rebuild /\ published.twice),
                       complete |-> Whole]
  BY DEF Publish
<1>2. /\ work \in Works /\ published \in Publications /\ troubles \in 0 .. MaxTroubles
      /\ work.point \in Points
  BY StoreTyped DEF Works
<1>3. published' \in Publications
  <2>1. (work.twice \/ (~work.rebuild /\ published.twice)) \in BOOLEAN /\ Whole \in BOOLEAN
    BY DEF Whole
  <2> QED
    BY <1>1, <1>2, <2>1 DEF Publications, Works
<1>4. /\ published'.point = work.point /\ published'.rows = work.rows
      /\ published'.unavailable = work.unavailable
      /\ ~published'.twice => ~work.twice /\ (work.rebuild \/ ~published.twice)
  BY <1>1
<1>5. work.unavailable \cup work.todo = work.unavailable
  BY <1>1
<1>6. /\ Reached(work.point)
      /\ ~work.twice /\ (work.rebuild \/ ~published.twice)
            => Kept(work.rows, work.unavailable, work.point)
  BY <1>1, <1>5 DEF IInv, WorkInv
<1>7. \A point : Reached(point) => Reached(point)'
  BY <1>1, StoreStep
<1>8. \A rows, lost, point : Kept(rows, lost, point) => Kept(rows, lost, point)'
  BY <1>1, StoreStep
<1>9. PublishedInv'
  BY <1>1, <1>4, <1>6, <1>7, <1>8 DEF PublishedInv
<1>10. WorkInv' /\ work' \in Works
  BY <1>1, RestWork
<1> QED
  BY <1>1, <1>2, <1>3, <1>9, <1>10, StoreStep DEF IInv

LEMMA TroubleTyped ==
    ASSUME IInv, Trouble
    PROVE  troubles' \in 0 .. MaxTroubles
<1>1. MaxTroubles \in Nat /\ troubles \in 0 .. MaxTroubles
  BY StoreTyped DEF Parameters
<1> QED
  BY <1>1 DEF Trouble

LEMMA FailKeeps ==
    ASSUME IInv, Fail
    PROVE  IInv'
<1>1. /\ Outside /\ UNCHANGED <<published, observed>> /\ work' = Rest
      /\ Trouble \/ troubles' = troubles
  BY DEF Fail
<1>2. troubles' \in 0 .. MaxTroubles
  BY <1>1, StoreTyped, TroubleTyped
<1>3. PublishedInv'
  BY <1>1, SamePublished
<1>4. WorkInv' /\ work' \in Works
  BY <1>1, RestWork
<1> QED
  BY <1>1, <1>2, <1>3, <1>4, StoreStep, StoreTyped DEF IInv

LEMMA RestartKeeps ==
    ASSUME IInv, Restart
    PROVE  IInv'
<1>1. Outside /\ published' = published /\ work' = Rest /\ Trouble /\ observed' = NoPoint
  BY DEF Restart
<1>2. troubles' \in 0 .. MaxTroubles
  BY <1>1, TroubleTyped
<1>3. /\ Reached(NoPoint) /\ NoPoint \in Points
      /\ \A rows, lost : Kept(rows, lost, NoPoint)
  BY StoreTyped, RestTyped DEF Reached, Kept, NoPoint
<1>4. \A point : Reached(point) => Reached(point)'
  BY <1>1, StoreStep
<1>5. \A rows, lost, point : Kept(rows, lost, point) => Kept(rows, lost, point)'
  BY <1>1, StoreStep
<1>6. PublishedInv'
  BY <1>1, <1>3, <1>4, <1>5 DEF IInv, PublishedInv
<1>7. WorkInv' /\ work' \in Works
  BY <1>1, RestWork
<1> QED
  BY <1>1, <1>2, <1>3, <1>6, <1>7, StoreStep, StoreTyped DEF IInv

-----------------------------------------------------------------------------
(* Together. *)

LEMMA StutterKeeps ==
    ASSUME IInv, UNCHANGED vars
    PROVE  IInv'
<1>1. Outside /\ UNCHANGED <<published, observed, work, troubles>>
  BY DEF vars, Outside
<1>2. PublishedInv'
  BY <1>1, SamePublished
<1>3. \A point : Reached(point) => Reached(point)'
  BY <1>1, StoreStep
<1>4. \A rows, lost, point : Kept(rows, lost, point) => Kept(rows, lost, point)'
  BY <1>1, StoreStep
<1>5. WorkInv'
  BY <1>1, <1>3, <1>4 DEF IInv, WorkInv, Rest, NoRows, NoPoint
<1> QED
  BY <1>1, <1>2, <1>5, StoreStep, StoreTyped DEF IInv

LEMMA NextKeeps ==
    ASSUME IInv, [Next]_vars
    PROVE  IInv'
<1>1. CASE Environment
  BY <1>1, CreateKeeps, DeleteKeeps, MoveKeeps, LinkKeeps, TruncateKeeps, RecreateKeeps
     DEF Environment
<1>2. CASE Store
  BY <1>2, UpdateKeeps, EnumerateKeeps, ResolveKeeps, ChangesKeeps, UnchangedKeeps,
     RetryKeeps, HydrateKeeps, PublishKeeps DEF Store
<1> QED
  BY <1>1, <1>2, FailKeeps, RestartKeeps, StutterKeeps DEF Next

LEMMA InvTypeOK == IInv => TypeOK
<1> SUFFICES ASSUME IInv PROVE TypeOK
  OBVIOUS
<1>1. published.rows \in [Objects -> SUBSET Places]
  BY StoreTyped DEF Publications, Rows
<1>2. published.point.journal \in 0 .. MaxJournals
  <2>1. published.point.journal \in Nat /\ published.point.journal <= journal.id
    BY StoreTyped DEF IInv, PublishedInv, Reached, Publications, Points
  <2>2. journal.id \in 1 .. MaxJournals /\ MaxJournals \in Nat
    BY StoreTyped DEF Parameters
  <2> QED
    BY <2>1, <2>2
<1>3. journal.first \in 0 .. Len(journal.log)
  BY StoreTyped DEF IInv, Typed
<1>4. work.step \in {"idle", "enumerate", "changes", "parents"} /\ work.todo \subseteq Objects
  BY StoreTyped DEF Works
<1> QED
  BY <1>1, <1>2, <1>3, <1>4, StoreTyped DEF TypeOK, IInv, Typed, Tree

LEMMA InvNothingPassedOver == IInv => NothingPassedOver
<1> SUFFICES ASSUME IInv, published.exists, ~published.twice,
                    InUse.journal = journal.id, InUse.next >= journal.first,
                    NEW o \in Objects
             PROVE  \/ published.rows[o] = Wanted(o)
                    \/ o \in published.unavailable \/ Told(o)
  BY DEF NothingPassedOver
<1>1. Kept(published.rows, published.unavailable, InUse)
  BY DEF IInv, PublishedInv, InUse
<1>2. TellsOf(InUse.next, o) => Told(o)
  BY DEF TellsOf, Told
<1> QED
  BY <1>1, <1>2 DEF Kept

\* Whatever happens to the volume while it is read, nothing is passed over for
\* good: by induction on IInv, whose Kept says of the update under way what
\* NothingPassedOver says of what is published.
THEOREM IndexKeepsTrack ==
    ASSUME Parameters
    PROVE  Spec => [](TypeOK /\ NothingPassedOver)
<1>1. Init => IInv
  BY InitInv
<1>2. IInv /\ [Next]_vars => IInv'
  BY NextKeeps
<1>3. IInv => TypeOK /\ NothingPassedOver
  BY InvTypeOK, InvNothingPassedOver
<1> QED
  BY <1>1, <1>2, <1>3, PTL DEF Spec
=============================================================================
