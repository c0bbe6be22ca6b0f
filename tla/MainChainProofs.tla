-------------------------- MODULE MainChainProofs --------------------------
(***************************************************************************)
(* For every set of blocks, whatever they link to, and every order of their  *)
(* arrival.                                                                 *)
(***************************************************************************)
EXTENDS MainChain, FiniteSetTheorems, SequenceTheorems, WellFoundedInduction, TLAPS

-----------------------------------------------------------------------------
(* Induction over the natural numbers, and the loops *)

LEMMA LeastMember ==
  ASSUME NEW T, T \subseteq Nat, T # {}
  PROVE  \E m \in T : \A k \in T : m <= k
<1>1. \E m \in T : \A k \in T : ~(<<k, m>> \in OpToRel(<, Nat))
  BY WFMin, NatLessThanWellFounded, Zenon
<1>2. PICK m \in T : \A k \in T : ~(<<k, m>> \in OpToRel(<, Nat))
  BY <1>1, Zenon
<1>3. \A k \in T : m <= k
  <2> TAKE k \in T
  <2>1. ~(k < m)
    BY <1>2 DEF OpToRel
  <2> QED
    BY <2>1
<1> QED
  BY <1>3

\* A set that every number enters after those below it holds them all.
LEMMA Climbing ==
  ASSUME NEW T, \A n \in Nat : (\A k \in 0 .. n - 1 : k \in T) => n \in T
  PROVE  \A n \in Nat : n \in T
<1> SUFFICES ASSUME NEW n \in Nat, n \notin T PROVE FALSE
  OBVIOUS
<1> DEFINE U == {i \in Nat : i \notin T}
<1>1. n \in U /\ U \subseteq Nat
  OBVIOUS
<1>2. PICK m \in U : \A k \in U : m <= k
  BY <1>1, LeastMember
<1>3. \A k \in 0 .. m - 1 : k \notin U
  BY <1>2
<1>4. m \in T
  BY <1>3
<1> QED
  BY <1>4

LEMMA Stepping ==
  ASSUME NEW T, NEW N \in Nat, 0 \in T, \A n \in 0 .. N - 1 : n \in T => n + 1 \in T
  PROVE  \A n \in 0 .. N : n \in T
<1> DEFINE U == {n \in Nat : n <= N => n \in T}
<1>1. ASSUME NEW n \in Nat, \A k \in 0 .. n - 1 : k \in U PROVE n \in U
  <2>1. CASE n = 0
    BY <2>1
  <2>2. CASE n > 0
    <3>1. n - 1 \in U
      BY <2>2, <1>1
    <3> QED
      BY <3>1, <2>2
  <2> QED
    BY <2>1, <2>2
<1>2. \A n \in Nat : n \in U
  <2> HIDE DEF U
  <2> QED
    BY <1>1, Climbing
<1> QED
  BY <1>2

LEMMA GreatestMember ==
  ASSUME NEW T, T \subseteq Nat, T # {}, NEW b \in Nat, \A k \in T : k <= b
  PROVE  \E m \in T : \A k \in T : k <= m
<1> DEFINE U == {i \in Nat : b - i \in T}
<1>1. \A k \in T : k \in Nat /\ b - k \in Nat /\ b - k \in U
  <2> TAKE k \in T
  <2>1. k \in Nat /\ k <= b
    OBVIOUS
  <2>2. b - k \in Nat /\ b - (b - k) = k
    BY <2>1
  <2> QED
    BY <2>1, <2>2
<1>2. U \subseteq Nat /\ U # {}
  BY <1>1
<1>3. PICK u \in U : \A k \in U : u <= k
  BY <1>2, LeastMember
<1>4. \A k \in T : k <= b - u
  <2> TAKE k \in T
  <2>1. u <= b - k
    BY <1>1, <1>3
  <2> QED
    BY <2>1, <1>1
<1> QED
  BY <1>4

Loops(F, x, N, f) == f = [i \in 0 .. N |-> IF i = 0 THEN x ELSE F[i][f[i - 1]]]

LEMMA LoopOnce ==
  ASSUME NEW F, NEW x, NEW N \in Nat, NEW M \in Nat, NEW f, NEW g,
         Loops(F, x, N, f), Loops(F, x, M, g), N <= M
  PROVE  \A i \in 0 .. N : f[i] = g[i]
<1> DEFINE T == {i \in Nat : f[i] = g[i]}
<1>1. f[0] = x /\ g[0] = x
  BY DEF Loops
<1>2. ASSUME NEW i \in 0 .. N - 1, i \in T PROVE i + 1 \in T
  <2>1. f[i + 1] = F[i + 1][f[i]] /\ g[i + 1] = F[i + 1][g[i]]
    BY DEF Loops
  <2> QED
    BY <2>1, <1>2
<1>3. \A i \in 0 .. N : i \in T
  <2>1. 0 \in T
    BY <1>1
  <2> HIDE DEF T
  <2> QED
    BY <2>1, <1>2, Stepping
<1> QED
  BY <1>3

LEMMA LoopExists ==
  ASSUME NEW F, NEW x
  PROVE  \A N \in Nat : \E f : Loops(F, x, N, f)
<1> DEFINE T == {n \in Nat : \E f : Loops(F, x, n, f)}
<1>1. ASSUME NEW n \in Nat, \A k \in 0 .. n - 1 : k \in T PROVE n \in T
  <2>1. CASE n = 0
    <3>1. Loops(F, x, 0, [i \in 0 .. 0 |-> x])
      BY DEF Loops
    <3> QED
      BY <3>1, <2>1
  <2>2. CASE n > 0
    <3>1. PICK f : Loops(F, x, n - 1, f)
      BY <1>1, <2>2
    <3> DEFINE g == [i \in 0 .. n |-> IF i = n THEN F[n][f[n - 1]] ELSE f[i]]
    <3>2. \A i \in 0 .. n : g[i] = IF i = 0 THEN x ELSE F[i][g[i - 1]]
      <4> TAKE i \in 0 .. n
      <4>1. CASE i = n
        BY <4>1, <2>2
      <4>2. CASE i # n
        <5>1. f[i] = IF i = 0 THEN x ELSE F[i][f[i - 1]]
          BY <3>1, <4>2 DEF Loops
        <5>2. g[i] = f[i] /\ (i # 0 => g[i - 1] = f[i - 1])
          BY <4>2
        <5> QED
          BY <5>1, <5>2
      <4> QED
        BY <4>1, <4>2
    <3>3. Loops(F, x, n, g)
      <4>1. g = [i \in 0 .. n |-> g[i]]
        OBVIOUS
      <4> HIDE DEF g
      <4> QED
        BY <4>1, <3>2 DEF Loops
    <3> QED
      BY <3>3
  <2> QED
    BY <2>1, <2>2
<1>2. \A n \in Nat : n \in T
  <2> HIDE DEF T
  <2> QED
    BY <1>1, Climbing
<1> QED
  BY <1>2

\* The loops do what their definition says.
LEMMA IterateSteps ==
  ASSUME NEW F, NEW x
  PROVE  /\ Iterate(F, x, 0) = x
         /\ \A n \in Nat : Iterate(F, x, n + 1) = F[n + 1][Iterate(F, x, n)]
<1> DEFINE loop(n) == CHOOSE f : Loops(F, x, n, f)
           h == [n \in Nat |-> loop(n)[n]]
           IsIt(f) == f = [i \in Nat |-> IF i = 0 THEN x ELSE F[i][f[i - 1]]]
           it == CHOOSE f : IsIt(f)
<1>1. \A n \in Nat : Loops(F, x, n, loop(n))
  BY LoopExists
<1> HIDE DEF loop
<1>2. \A n \in Nat : h[n] = IF n = 0 THEN x ELSE F[n][h[n - 1]]
  <2> TAKE n \in Nat
  <2>1. CASE n = 0
    <3>1. loop(0)[0] = x
      BY <1>1 DEF Loops
    <3> QED
      BY <3>1, <2>1
  <2>2. CASE n > 0
    <3>1. loop(n)[n] = F[n][loop(n)[n - 1]]
      BY <1>1, <2>2 DEF Loops
    <3>2. loop(n - 1)[n - 1] = loop(n)[n - 1]
      <4>1. \A i \in 0 .. n - 1 : loop(n - 1)[i] = loop(n)[i]
        BY <1>1, <2>2, LoopOnce
      <4> QED
        BY <4>1, <2>2
    <3>3. h[n] = loop(n)[n] /\ h[n - 1] = loop(n - 1)[n - 1]
      BY <2>2
    <3> QED
      BY <3>1, <3>2, <3>3, <2>2
  <2> QED
    BY <2>1, <2>2
<1>3. IsIt(h)
  <2>1. h = [n \in Nat |-> h[n]]
    OBVIOUS
  <2> HIDE DEF h
  <2> QED
    BY <2>1, <1>2
<1>4. IsIt(it)
  BY <1>3
<1>5. \A n : Iterate(F, x, n) = it[n]
  BY DEF Iterate
<1> HIDE DEF it
<1>6. it[0] = x /\ \A n \in Nat : it[n + 1] = F[n + 1][it[n]]
  BY <1>4
<1> QED
  BY <1>5, <1>6

\* What every step keeps in S the loop keeps in S.
LEMMA IterateIn ==
  ASSUME NEW F, NEW S, NEW x \in S, NEW N \in Nat,
         \A i \in 1 .. N, y \in S : F[i][y] \in S
  PROVE  \A n \in 0 .. N : Iterate(F, x, n) \in S
<1> DEFINE T == {n \in Nat : Iterate(F, x, n) \in S}
<1>1. 0 \in T
  BY IterateSteps
<1>2. ASSUME NEW n \in 0 .. N - 1, n \in T PROVE n + 1 \in T
  <2>1. n \in Nat /\ n + 1 \in 1 .. N
    OBVIOUS
  <2>2. Iterate(F, x, n + 1) = F[n + 1][Iterate(F, x, n)]
    BY <2>1, IterateSteps, Zenon
  <2>3. F[n + 1][Iterate(F, x, n)] \in S
    BY <2>1, <1>2
  <2> QED
    BY <2>1, <2>2, <2>3
<1> HIDE DEF T
<1>3. \A n \in 0 .. N : n \in T
  BY <1>1, <1>2, Stepping
<1> QED
  BY <1>3 DEF T
-----------------------------------------------------------------------------
(* The way down *)

LEMMA Sorts ==
  /\ None \notin Blocks /\ Time \in [Blocks -> Nat] /\ Work \in [Blocks -> Nat]
  /\ \A b \in Blocks : Work[b] > 0
  /\ PERIOD \in Nat /\ PERIOD > 0
BY ChainAssumption DEF ChainAssumption

\* From the blocks of K links lead to older blocks of K.
Tree(N, K) ==
  /\ K \subseteq Blocks /\ N.parent \in [Blocks -> BlockOrNone]
  /\ \A x \in K : N.parent[x] # None => N.parent[x] \in K /\ Time[N.parent[x]] < Time[x]

\* The way down exists: it is what every set closed under the links holds.
LEMMA PathExists ==
  ASSUME NEW N, N.parent \in [Blocks -> BlockOrNone]
  PROVE  \A x \in Blocks : PathFrom(N)[x] =
           {x} \cup IF N.parent[x] = None THEN {} ELSE PathFrom(N)[N.parent[x]]
<1> DEFINE P == N.parent
           Closed(S) == \A z \in S : P[z] # None => P[z] \in S
           reach(x) == {y \in Blocks : \A S \in SUBSET Blocks : x \in S /\ Closed(S) => y \in S}
           f == [x \in Blocks |-> reach(x)]
           IsPath(g) == g = [x \in Blocks |-> {x} \cup IF P[x] = None THEN {} ELSE g[P[x]]]
           path == CHOOSE g : IsPath(g)
<1>0. P \in [Blocks -> BlockOrNone]
  OBVIOUS
<1>1. PathFrom(N) = path
  BY DEF PathFrom
<1> HIDE DEF P
<1>2. \A x \in Blocks : x \in reach(x) /\ Closed(reach(x)) /\ reach(x) \subseteq Blocks
  <2> TAKE x \in Blocks
  <2>1. \A z \in reach(x) : P[z] # None => P[z] \in Blocks
    BY <1>0 DEF BlockOrNone
  <2> QED
    BY <2>1
<1>3. ASSUME NEW x \in Blocks PROVE f[x] = {x} \cup IF P[x] = None THEN {} ELSE f[P[x]]
  <2>1. CASE P[x] = None
    <3>1. {x} \in SUBSET Blocks /\ Closed({x})
      BY <2>1
    <3>2. \A y \in reach(x) : y \in {x}
      <4>1. x \in {x}
        OBVIOUS
      <4> HIDE DEF Closed
      <4> QED
        BY <3>1, <4>1
    <3>3. x \in reach(x)
      BY <1>2
    <3> HIDE DEF reach, Closed
    <3> QED
      BY <3>2, <3>3, <2>1
  <2>2. CASE P[x] # None
    <3>1. P[x] \in Blocks
      BY <2>2, <1>0 DEF BlockOrNone
    <3> DEFINE S == {x} \cup reach(P[x])
    <3>2. S \in SUBSET Blocks /\ Closed(S) /\ x \in S
      BY <3>1, <1>2
    <3>3. reach(x) \subseteq S
      BY <3>2
    <3>4. reach(P[x]) \subseteq reach(x)
      BY <3>1, <1>2, <2>2
    <3>5. reach(x) = S
      BY <3>3, <3>4, <1>2
    <3> QED
      BY <3>5, <3>1, <2>2
  <2> QED
    BY <2>1, <2>2
<1>4. IsPath(f)
  <2>1. f = [x \in Blocks |-> f[x]]
    OBVIOUS
  <2> HIDE DEF f
  <2> QED
    BY <2>1, <1>3
<1>5. IsPath(path)
  BY <1>4
<1> HIDE DEF path
<1>6. \A x \in Blocks : path[x] = {x} \cup IF P[x] = None THEN {} ELSE path[P[x]]
  BY <1>5
<1> QED
  BY <1>1, <1>6 DEF P

LEMMA PathStep ==
  ASSUME NEW N, NEW K, Tree(N, K), NEW x \in K
  PROVE  Path(N, x) = {x} \cup Path(N, N.parent[x])
<1>1. x \in Blocks /\ x # None
  BY Sorts DEF Tree
<1>2. PathFrom(N)[x] = {x} \cup IF N.parent[x] = None THEN {} ELSE PathFrom(N)[N.parent[x]]
  BY <1>1, PathExists DEF Tree
<1> QED
  BY <1>1, <1>2 DEF Path

\* A way down meets younger blocks before older ones, and is one for each of
\* its blocks.
Descends(N, K, x) ==
  /\ x \in Path(N, x) /\ Path(N, x) \subseteq K
  /\ \A y \in Path(N, x) : y # x => Time[y] < Time[x]
  /\ \A y \in Path(N, x) : Path(N, y) \subseteq Path(N, x)
  /\ \A y, z \in Path(N, x) : Time[z] <= Time[y] => z \in Path(N, y)

LEMMA PathDescends ==
  ASSUME NEW N, NEW K, Tree(N, K)
  PROVE  \A x \in K : Descends(N, K, x)
<1> DEFINE T == {n \in Nat : \A x \in K : Time[x] = n => Descends(N, K, x)}
<1>0. \A x \in K : x \in Blocks /\ x # None /\ Time[x] \in Nat
  BY Sorts DEF Tree
<1>1. ASSUME NEW n \in Nat, \A k \in 0 .. n - 1 : k \in T PROVE n \in T
  <2> SUFFICES ASSUME NEW x \in K, Time[x] = n PROVE Descends(N, K, x)
    OBVIOUS
  <2> DEFINE p == N.parent[x]
  <2>1. Path(N, x) = {x} \cup Path(N, p)
    BY PathStep
  <2>2. CASE p = None
    <3>1. Path(N, x) = {x}
      BY <2>1, <2>2 DEF Path
    <3> QED
      BY <3>1 DEF Descends
  <2>3. CASE p # None
    <3>1. p \in K /\ Time[p] < n
      BY <2>3 DEF Tree
    <3>2. Descends(N, K, p)
      BY <3>1, <1>0, <1>1
    <3>3. \A y \in Path(N, p) : Time[y] < Time[x] /\ y \in K
      <4> TAKE y \in Path(N, p)
      <4>1. y \in K /\ (y # p => Time[y] < Time[p])
        BY <3>2 DEF Descends
      <4> QED
        BY <4>1, <3>1, <1>0
    <3> HIDE DEF p
    <3>4. \A y, z \in Path(N, x) : Time[z] <= Time[y] => z \in Path(N, y)
      <4> SUFFICES ASSUME NEW y \in Path(N, x), NEW z \in Path(N, x), Time[z] <= Time[y]
                   PROVE  z \in Path(N, y)
        OBVIOUS
      <4>1. CASE y = x
        BY <4>1
      <4>2. CASE y # x
        <5>1. y \in Path(N, p)
          BY <4>2, <2>1
        <5>2. z # x
          BY <5>1, <3>3, <1>0
        <5>3. z \in Path(N, p)
          BY <5>2, <2>1
        <5> QED
          BY <5>1, <5>3, <3>2 DEF Descends
      <4> QED
        BY <4>1, <4>2
    <3>5. \A y \in Path(N, x) : Path(N, y) \subseteq Path(N, x)
      BY <2>1, <3>2 DEF Descends
    <3> QED
      BY <2>1, <3>3, <3>4, <3>5 DEF Descends
  <2> QED
    BY <2>2, <2>3
<1>2. \A n \in Nat : n \in T
  <2> HIDE DEF T
  <2> QED
    BY <1>1, Climbing
<1> QED
  BY <1>0, <1>2

\* The ways down do not change when other blocks change theirs.
LEMMA PathSame ==
  ASSUME NEW N, NEW M, NEW K, Tree(N, K), Tree(M, K), \A x \in K : N.parent[x] = M.parent[x]
  PROVE  \A x \in K : Path(M, x) = Path(N, x)
<1> DEFINE T == {n \in Nat : \A x \in K : Time[x] = n => Path(M, x) = Path(N, x)}
<1>0. \A x \in K : x \in Blocks /\ x # None /\ Time[x] \in Nat
  BY Sorts DEF Tree
<1>1. ASSUME NEW n \in Nat, \A k \in 0 .. n - 1 : k \in T PROVE n \in T
  <2> SUFFICES ASSUME NEW x \in K, Time[x] = n PROVE Path(M, x) = Path(N, x)
    OBVIOUS
  <2> DEFINE p == N.parent[x]
  <2>1. Path(N, x) = {x} \cup Path(N, p) /\ Path(M, x) = {x} \cup Path(M, p)
    BY PathStep
  <2>2. CASE p = None
    BY <2>1, <2>2 DEF Path
  <2>3. CASE p # None
    <3>1. p \in K /\ Time[p] < n
      BY <2>3 DEF Tree
    <3>2. Path(M, p) = Path(N, p)
      BY <3>1, <1>0, <1>1
    <3> QED
      BY <2>1, <3>2
  <2> QED
    BY <2>2, <2>3
<1>2. \A n \in Nat : n \in T
  <2> HIDE DEF T
  <2> QED
    BY <1>1, Climbing
<1> QED
  BY <1>0, <1>2
LEMMA PeriodGrows ==
  ASSUME NEW s \in Nat, NEW t \in Nat, s <= t
  PROVE  Period(s) \in Nat /\ Period(t) \in Nat /\ Period(s) <= Period(t)
BY Sorts DEF Period

LEMMA YoungestIn ==
  ASSUME NEW S, S \subseteq Blocks, S # {}, NEW m \in Nat, \A x \in S : Time[x] <= m
  PROVE  Youngest(S) \in S /\ \A x \in S : Time[x] <= Time[Youngest(S)]
<1> DEFINE T == {Time[x] : x \in S}
<1>1. T \subseteq Nat /\ T # {} /\ \A k \in T : k <= m
  BY Sorts
<1>2. PICK t \in T : \A k \in T : k <= t
  BY <1>1, GreatestMember
<1>3. PICK x \in S : Time[x] = t
  OBVIOUS
<1>4. \A y \in S : Time[y] <= Time[x]
  BY <1>2, <1>3
<1> QED
  BY <1>4 DEF Youngest

LEMMA OldestIn ==
  ASSUME NEW S, S \subseteq Blocks, S # {}
  PROVE  Oldest(S) \in S /\ \A x \in S : Time[Oldest(S)] <= Time[x]
<1> DEFINE T == {Time[x] : x \in S}
<1>1. T \subseteq Nat /\ T # {}
  BY Sorts
<1>2. PICK t \in T : \A k \in T : t <= k
  BY <1>1, LeastMember
<1>3. PICK x \in S : Time[x] = t
  OBVIOUS
<1>4. \A y \in S : Time[x] <= Time[y]
  BY <1>2, <1>3
<1> QED
  BY <1>4 DEF Oldest

-----------------------------------------------------------------------------
(* The main chain *)

\* What ChainOnPath says, of the marked blocks C and the main blocks D.
OnPath(P, C) == C \subseteq P /\ \A x, y \in C : x # y => Period(Time[x]) # Period(Time[y])
MainsFirst(C, D) == D \subseteq C /\ \A x \in D, y \in C \ D : Time[x] < Time[y]

GraphInv ==
  /\ light \in Modes /\ now \in 0 .. MaxNow
  /\ known \subseteq Blocks /\ {top, pretop} \subseteq known \cup {None}
  /\ node \in [diff : [Blocks -> Nat], parent : [Blocks -> BlockOrNone]]
  /\ Tree(node, known)
  /\ chain \subseteq known
  /\ OnPath(Path(node, top), chain) /\ MainsFirst(chain, main)

LEMMA TopDescends ==
  ASSUME GraphInv
  PROVE  /\ Path(node, top) \subseteq known
         /\ \A x \in Path(node, top), y \in Path(node, top) :
              Time[y] <= Time[x] => y \in Path(node, x)
         /\ \A x \in Path(node, top) : Path(node, x) \subseteq Path(node, top)
<1>1. CASE top = None
  BY <1>1 DEF Path
<1>2. CASE top # None
  <2>1. Descends(node, known, top)
    BY <1>2, PathDescends DEF GraphInv
  <2> QED
    BY <2>1 DEF Descends
<1> QED
  BY <1>1, <1>2

LEMMA WaitingOldest ==
  ASSUME GraphInv, Waiting # {}
  PROVE  Oldest(Waiting) \in chain /\ MainsFirst(chain, main \cup {Oldest(Waiting)})
<1>1. Waiting \subseteq Blocks /\ Waiting \subseteq chain
  BY DEF Waiting, GraphInv
<1> DEFINE p == Oldest(Waiting)
<1>2. p \in Waiting /\ \A x \in Waiting : Time[p] <= Time[x]
  BY <1>1, OldestIn
<1>3. \A x \in chain \ main : x \in Waiting
  BY DEF Waiting, GraphInv, OnPath, MainsFirst
<1>4. \A x \in Waiting, y \in main : Time[y] < Time[x]
  BY DEF Waiting, GraphInv, OnPath, MainsFirst
<1>5. \A x, y \in Waiting : x # y => Time[x] # Time[y]
  BY <1>1 DEF GraphInv, OnPath
<1> HIDE DEF p
<1>6. ASSUME NEW x \in main \cup {p}, NEW y \in chain \ (main \cup {p}) PROVE Time[x] < Time[y]
  <2>1. y \in Waiting /\ Time[x] \in Nat /\ Time[y] \in Nat
    BY <1>1, <1>2, <1>3, <1>6, Sorts DEF GraphInv, MainsFirst
  <2>2. CASE x \in main
    BY <2>1, <2>2, <1>4
  <2>3. CASE x = p
    BY <2>1, <2>3, <1>2, <1>5, <1>6
  <2> QED
    BY <2>2, <2>3
<1> QED
  BY <1>1, <1>2, <1>6 DEF MainsFirst, GraphInv, p

LEMMA NewMainFirst ==
  ASSUME GraphInv
  PROVE  MainsFirst(chain, NewMain.main) /\ (Ripe => Waiting # {})
<1>1. Ripe => Waiting # {}
  BY FS_EmptySet DEF Ripe
<1> QED
  BY <1>1, WaitingOldest DEF NewMain, GraphInv

\* One period has one mark, younger than the first block that was marked.
LEMMA MarksOnce ==
  ASSUME NEW N, NEW K, Tree(N, K), NEW b \in K
  PROVE  /\ Marks(N, b) \subseteq Path(N, b)
         /\ \A x \in Marks(N, b), y \in Path(N, b) \cap chain : Time[y] < Time[x]
         /\ \A x, y \in Marks(N, b) : x # y => Period(Time[x]) # Period(Time[y])
<1>1. Marks(N, b) \subseteq Path(N, b)
      /\ \A x \in Marks(N, b), y \in Path(N, b) \cap chain : Time[y] < Time[x]
  BY DEF Marks
<1>2. \A x, y \in Marks(N, b) : Period(Time[x]) = Period(Time[y]) =>
        Time[x] <= Time[y] /\ Time[y] <= Time[x]
  BY DEF Marks
<1>3. \A x \in K : Descends(N, K, x)
  BY PathDescends
<1>4. \A x, y \in Path(N, b) : Time[x] <= Time[y] /\ Time[y] <= Time[x] => x = y
  <2> SUFFICES ASSUME NEW x \in Path(N, b), NEW y \in Path(N, b),
                      Time[x] <= Time[y], Time[y] <= Time[x], x # y
               PROVE  FALSE
    OBVIOUS
  <2>1. x \in K /\ y \in K /\ x \in Path(N, y)
    BY <1>3 DEF Descends
  <2>2. Time[x] < Time[y]
    BY <1>3, <2>1 DEF Descends
  <2>3. Time[x] \in Nat /\ Time[y] \in Nat
    BY <2>1, Sorts DEF Tree
  <2> QED
    BY <2>2, <2>3
<1> QED
  BY <1>1, <1>2, <1>4
\* Unwinding stops on the old way and on the new one, and every block that is
\* marked anew is of a later period than those that keep their mark.
LEMMA StopsWell ==
  ASSUME GraphInv, NEW N, NEW b, NEW K, Tree(N, K), b \in K, known \subseteq K,
         \A x \in known : N.parent[x] = node.parent[x],
         StopAt(N, b) # None
  PROVE  /\ StopAt(N, b) \in Path(node, top) /\ StopAt(N, b) \in Path(N, b)
         /\ Path(node, StopAt(N, b)) \subseteq Path(N, b)
         /\ \A x \in chain, y \in Marks(N, b) : Time[x] <= Time[StopAt(N, b)] =>
              Time[x] < Time[y] /\ Period(Time[x]) # Period(Time[y])
<1> DEFINE met == Path(N, b) \cap chain
           s == Youngest(met)
           last == Oldest(Marks(N, b))
           stop == StopAt(N, b)
<1>1. \A x \in K : x \in Blocks /\ Time[x] \in Nat
  BY Sorts DEF Tree
<1>2. \A x \in K : Descends(N, K, x)
  BY PathDescends
<1>3. \A x \in known : Path(N, x) = Path(node, x)
  <2>1. Tree(N, known)
    BY DEF Tree, GraphInv
  <2> QED
    BY <2>1, PathSame DEF GraphInv
<1>4. met # {}
  <2>1. CASE met = {}
    <3>1. s = None
      BY <2>1 DEF Youngest
    <3> QED
      BY <3>1 DEF StopAt
  <2> QED
    BY <2>1
<1>5. s \in met /\ \A x \in met : Time[x] <= Time[s]
  <2>1. ASSUME NEW x \in met PROVE x \in Blocks /\ Time[x] <= Time[b]
    <3>1. x \in K /\ (x # b => Time[x] < Time[b])
      BY <1>2 DEF Descends
    <3> QED
      BY <3>1, <1>1
  <2> HIDE DEF met
  <2> QED
    BY <2>1, <1>1, <1>4, YoungestIn
<1> HIDE DEF s
<1>6. s \in known /\ s \in Path(N, b) /\ s \in Path(node, top) /\ s # None
  BY <1>5, Sorts DEF GraphInv, OnPath
<1>7. Path(node, s) \subseteq Path(N, b) /\ Path(node, s) \subseteq Path(node, top)
  BY <1>2, <1>3, <1>6, TopDescends DEF Descends
<1>8. \A y \in Marks(N, b) : Time[s] < Time[y] /\ y \in K
  BY <1>2, <1>5, MarksOnce DEF Descends
<1>9. CASE stop = s /\ ~(last # None /\ Period(Time[s]) = Period(Time[last]))
  <2>1. ASSUME NEW x \in chain, NEW y \in Marks(N, b), Time[x] <= Time[s]
        PROVE  Time[x] < Time[y] /\ Period(Time[x]) # Period(Time[y])
    <3>1. last \in Marks(N, b) /\ Time[last] <= Time[y]
      <4>1. Marks(N, b) \subseteq Blocks
        BY <1>8, <1>1
      <4> QED
        BY <4>1, OldestIn
    <3>2. last # None /\ Period(Time[s]) # Period(Time[last])
      BY <3>1, <1>8, <1>9, <1>1, Sorts
    <3>3. x \in K /\ last \in K /\ Time[s] < Time[last] /\ Time[s] < Time[y] /\ s \in K
      BY <1>8, <3>1, <1>6 DEF GraphInv
    <3>4. Period(Time[x]) <= Period(Time[s]) /\ Period(Time[s]) <= Period(Time[last])
          /\ Period(Time[last]) <= Period(Time[y])
          /\ Period(Time[x]) \in Nat /\ Period(Time[y]) \in Nat /\ Period(Time[s]) \in Nat
          /\ Period(Time[last]) \in Nat
      BY <3>1, <3>3, <2>1, <1>1, <1>8, PeriodGrows
    <3> HIDE DEF last
    <3> QED
      BY <3>2, <3>3, <3>4, <2>1, <1>1, <1>8
  <2> QED
    BY <2>1, <1>6, <1>7, <1>9
<1>10. CASE stop = N.parent[s] /\ last # None /\ Period(Time[s]) = Period(Time[last])
  <2>1. stop = node.parent[s] /\ stop \in known /\ Time[stop] < Time[s] /\ stop # None
    BY <1>6, <1>10 DEF GraphInv, Tree
  <2>2. stop \in Path(node, s) /\ Path(node, stop) \subseteq Path(node, s)
    <3>1. Descends(node, known, s) /\ Descends(node, known, stop)
      BY <1>6, <2>1, PathDescends DEF GraphInv
    <3>2. Path(node, s) = {s} \cup Path(node, stop)
      BY <1>6, <2>1, PathStep DEF GraphInv
    <3> QED
      BY <3>1, <3>2 DEF Descends
  <2>3. ASSUME NEW x \in chain, NEW y \in Marks(N, b), Time[x] <= Time[stop]
        PROVE  Time[x] < Time[y] /\ Period(Time[x]) # Period(Time[y])
    <3>1. x \in K /\ s \in K /\ stop \in K /\ y \in K /\ x # s
      BY <1>6, <1>8, <2>1, <2>3, <1>1 DEF GraphInv
    <3>2. Period(Time[x]) # Period(Time[s])
      BY <3>1, <1>5 DEF GraphInv, OnPath
    <3>3. Time[x] < Time[s] /\ Time[s] < Time[y]
      BY <3>1, <1>1, <1>8, <2>1, <2>3
    <3>4. Period(Time[x]) <= Period(Time[s]) /\ Period(Time[s]) <= Period(Time[y])
          /\ Period(Time[x]) \in Nat /\ Period(Time[y]) \in Nat /\ Period(Time[s]) \in Nat
      BY <3>1, <3>3, <1>1, PeriodGrows
    <3> QED
      BY <3>1, <3>2, <3>3, <3>4, <1>1
  <2> HIDE DEF stop
  <2> QED
    BY <2>1, <2>2, <2>3, <1>7 DEF stop
<1> QED
  <2>1. stop = IF s # None /\ last # None /\ Period(Time[s]) = Period(Time[last])
               THEN N.parent[s] ELSE s
    BY DEF StopAt, s
  <2> QED
    BY <2>1, <1>6, <1>9, <1>10

\* When a new top takes over, the chain is on its way down.
LEMMA LeadKeepsChain ==
  ASSUME GraphInv, NEW N, NEW b, NEW K, Tree(N, K), b \in K, known \subseteq K,
         \A x \in known : N.parent[x] = node.parent[x],
         NEW M, MainsFirst(chain, M), NEW away, away = Away(StopAt(N, b))
  PROVE  /\ OnPath(Path(N, b), (chain \cup Marks(N, b)) \ away)
         /\ MainsFirst((chain \cup Marks(N, b)) \ away, M \ away)
<1> DEFINE C == (chain \cup Marks(N, b)) \ away
           stop == StopAt(N, b)
<1>1. None \notin Path(node, top) /\ Path(node, top) \subseteq Blocks
      /\ \A x \in Blocks : Time[x] \in Nat
  BY TopDescends, Sorts DEF GraphInv
<1>2. Marks(N, b) \subseteq Path(N, b)
      /\ \A x, y \in Marks(N, b) : x # y => Period(Time[x]) # Period(Time[y])
  BY MarksOnce
<1>3. CASE stop = None
  <2>1. away = Path(node, top)
    BY <1>1, <1>3 DEF Away
  <2>2. C \subseteq Marks(N, b) /\ M \ away = {}
    BY <2>1 DEF GraphInv, OnPath, MainsFirst
  <2> QED
    BY <2>2, <1>2 DEF OnPath, MainsFirst
<1>4. CASE stop # None
  <2>1. /\ stop \in Path(node, top) /\ Path(node, stop) \subseteq Path(N, b)
        /\ \A x \in chain, y \in Marks(N, b) : Time[x] <= Time[stop] =>
             Time[x] < Time[y] /\ Period(Time[x]) # Period(Time[y])
    BY <1>4, StopsWell
  <2> HIDE DEF stop
  <2>2. \A x \in chain \ away : Time[x] <= Time[stop] /\ x \in Path(node, stop)
    <3> TAKE x \in chain \ away
    <3>1. x \in Path(node, top)
      BY DEF GraphInv, OnPath
    <3>2. ~(Time[stop] < Time[x])
      BY <3>1, <2>1 DEF Away, stop
    <3>3. Time[x] <= Time[stop]
      BY <3>1, <3>2, <2>1, <1>1
    <3> QED
      BY <3>1, <3>3, <2>1, TopDescends
  <2>3. C \subseteq Path(N, b)
    BY <2>1, <2>2, <1>2
  <2>4. \A x \in C, y \in C : x # y => Period(Time[x]) # Period(Time[y])
    BY <2>1, <2>2, <1>2 DEF GraphInv, OnPath
  <2>5. M \ away \subseteq C
    BY DEF MainsFirst
  <2>6. \A x \in M \ away, y \in C \ (M \ away) : Time[x] < Time[y]
    BY <2>1, <2>2 DEF MainsFirst
  <2> QED
    BY <2>3, <2>4, <2>5, <2>6 DEF OnPath, MainsFirst
<1> QED
  BY <1>3, <1>4
-----------------------------------------------------------------------------
(* Adding a block *)

LEMMA MaxIn ==
  ASSUME NEW S, S \subseteq Nat, S # {}, NEW m \in Nat, \A k \in S : k <= m
  PROVE  Max(S) \in S /\ \A k \in S : k <= Max(S)
<1>1. \E x \in S : \A y \in S : x >= y
  BY GreatestMember
<1> QED
  BY <1>1 DEF Max

LEMMA MinIn ==
  ASSUME NEW S, S \subseteq Nat, S # {}
  PROVE  Min(S) \in S /\ \A k \in S : Min(S) <= k
<1>1. \E x \in S : \A y \in S : x <= y
  BY LeastMember
<1> QED
  BY <1>1 DEF Min

LEMMA MaxOfTwo ==
  ASSUME NEW i \in Nat, NEW j \in Nat
  PROVE  Max({i, j}) = IF i < j THEN j ELSE i
<1>1. \E m \in Nat : \A k \in {i, j} : k <= m
  <2>1. CASE i < j
    BY <2>1
  <2>2. CASE ~(i < j)
    BY <2>2
  <2> QED
    BY <2>1, <2>2
<1>2. Max({i, j}) \in {i, j} /\ \A k \in {i, j} : k <= Max({i, j})
  <2>1. PICK m \in Nat : \A k \in {i, j} : k <= m
    BY <1>1
  <2>2. {i, j} \subseteq Nat /\ {i, j} # {}
    OBVIOUS
  <2> QED
    BY <2>1, <2>2, MaxIn
<1> QED
  BY <1>2

LEMMA Bounded ==
  ASSUME NEW n \in Nat, NEW h, \A i \in 1 .. n : h[i] \in Nat
  PROVE  \E m \in Nat : \A i \in 1 .. n : h[i] <= m
<1> DEFINE T == {k \in Nat : \E m \in Nat : \A i \in 1 .. k : h[i] <= m}
<1>1. 0 \in T
  OBVIOUS
<1>2. ASSUME NEW k \in 0 .. n - 1, k \in T PROVE k + 1 \in T
  <2>1. PICK m \in Nat : \A i \in 1 .. k : h[i] <= m
    BY <1>2
  <2>2. h[k + 1] \in Nat
    OBVIOUS
  <2>3. \A i \in 1 .. k + 1 : h[i] <= m + h[k + 1]
    <3> TAKE i \in 1 .. k + 1
    <3>1. CASE i = k + 1
      BY <3>1, <2>2
    <3>2. CASE i # k + 1
      <4>1. i \in 1 .. k /\ h[i] \in Nat /\ h[i] <= m
        BY <3>2, <2>1
      <4> QED
        BY <4>1, <2>2
    <3> QED
      BY <3>1, <3>2
  <2>4. m + h[k + 1] \in Nat
    BY <2>2
  <2> QED
    BY <2>3, <2>4
<1>3. \A k \in 0 .. n : k \in T
  <2> HIDE DEF T
  <2> QED
    BY <1>1, <1>2, Stepping
<1>4. n \in 0 .. n
  OBVIOUS
<1>5. n \in T
  BY <1>3, <1>4
<1> QED
  BY <1>5

\* The links of a block.
LEMMA LinkTypes ==
  ASSUME NEW b \in Blocks
  PROVE  /\ Len(Fields[b]) \in Nat /\ Used(b) \subseteq 1 .. Len(Fields[b])
         /\ \A i \in 1 .. Len(Fields[b]) :
              /\ Fields[b][i].to \in Blocks /\ Fields[b][i].amount \in 0 .. Word - 1
              /\ Fields[b][i].in \in BOOLEAN
         /\ LinkSet(b) = {Fields[b][i] : i \in Used(b)}
<1>1. Fields[b] \in Seq([to : Blocks, amount : 0 .. Word - 1, in : BOOLEAN])
  BY ChainAssumption DEF ChainAssumption
<1>2. \A i \in 1 .. Len(Fields[b]) : Fields[b][i] \in [to : Blocks, amount : 0 .. Word - 1, in : BOOLEAN]
  BY <1>1, ElementOfSeq
<1> QED
  BY <1>1, <1>2 DEF Used, LinkSet

\* What add_block_nolock has checked of the links.
LinksDown(b) ==
  \A i \in Used(b) : Fields[b][i].to \in known /\ Time[Fields[b][i].to] < Time[b]

LEMMA AcceptedLinks ==
  ASSUME NEW b \in Blocks, Accepted(b)
  PROVE  LinksDown(b) /\ b \notin known
BY LinkTypes DEF Accepted, LinksDown

LEMMA ThroughType ==
  ASSUME GraphInv, NEW b \in Blocks, NEW x \in known
  PROVE  Through(b, x) \in Nat
<1> DEFINE q == Youngest({y \in Path(node, x) : Period(Time[y]) # Period(Time[b])})
<1>1. node.diff \in [Blocks -> Nat] /\ x \in Blocks
  BY DEF GraphInv
<1>2. q = None \/ q \in Blocks
  <2> DEFINE S == {y \in Path(node, x) : Period(Time[y]) # Period(Time[b])}
  <2>1. CASE S = {}
    BY <2>1 DEF Youngest
  <2>2. CASE S # {}
    <3>1. Descends(node, known, x)
      BY PathDescends DEF GraphInv
    <3>2. S \subseteq Blocks /\ Time[x] \in Nat
      BY <3>1, <1>1, Sorts DEF Descends, GraphInv
    <3>3. \A y \in S : Time[y] <= Time[x]
      <4> TAKE y \in S
      <4>1. y # x => Time[y] < Time[x]
        BY <3>1 DEF Descends
      <4> QED
        BY <4>1, <3>2, Sorts
    <3> HIDE DEF S
    <3> QED
      BY <3>2, <3>3, <2>2, YoungestIn DEF S
  <2> QED
    BY <2>1, <2>2
<1> HIDE DEF q
<1>3. Work[b] \in Nat
  BY Sorts
<1>4. q # None => Max({node.diff[x], Work[b] + node.diff[q]}) \in Nat
  <2> SUFFICES ASSUME q # None PROVE Max({node.diff[x], Work[b] + node.diff[q]}) \in Nat
    OBVIOUS
  <2>1. node.diff[x] \in Nat /\ Work[b] + node.diff[q] \in Nat
    BY <1>1, <1>2, <1>3
  <2> QED
    BY <2>1, MaxOfTwo
<1>5. Through(b, x) = IF q = x THEN Work[b] + node.diff[x]
                      ELSE IF q = None THEN node.diff[x]
                      ELSE Max({node.diff[x], Work[b] + node.diff[q]})
  BY DEF Through, q
<1> QED
  BY <1>1, <1>3, <1>4, <1>5

\* The difficulty is the greatest over the links, and the link chosen gives it.
LEMMA TotalIsGreatest ==
  ASSUME GraphInv, NEW b \in Blocks, LinksDown(b)
  PROVE  /\ Total(b) \in Nat /\ Work[b] <= Total(b)
         /\ \A i \in Used(b) : /\ Through(b, Fields[b][i].to) \in Nat
                               /\ Through(b, Fields[b][i].to) <= Total(b)
         /\ Best(b) = None => Used(b) = {} /\ Total(b) = Work[b]
         /\ Best(b) # None =>
              \E i \in Used(b) : Best(b) = Fields[b][i].to
                                 /\ Total(b) \in {Work[b], Through(b, Fields[b][i].to)}
<1> DEFINE thru(i) == Through(b, Fields[b][i].to)
           S == {Work[b]} \cup {Through(b, l.to) : l \in LinkSet(b)}
           h == [i \in 1 .. Len(Fields[b]) |-> IF i \in Used(b) THEN thru(i) ELSE 0]
<1>1. \A i \in Used(b) : thru(i) \in Nat
  BY ThroughType DEF LinksDown
<1>2. S = {Work[b]} \cup {thru(i) : i \in Used(b)}
  BY LinkTypes
<1> HIDE DEF thru
<1>3. PICK m \in Nat : \A i \in 1 .. Len(Fields[b]) : h[i] <= m
  <2>1. Len(Fields[b]) \in Nat /\ \A i \in 1 .. Len(Fields[b]) : h[i] \in Nat
    BY <1>1, LinkTypes
  <2> HIDE DEF h
  <2> QED
    BY <2>1, Bounded
<1>4. \A i \in Used(b) : thru(i) <= m
  BY <1>3, LinkTypes
<1>5. Total(b) \in S /\ \A k \in S : k <= Total(b)
  <2>1. S \subseteq Nat /\ S # {} /\ Work[b] \in Nat
    BY <1>1, <1>2, Sorts
  <2>2. ASSUME NEW k \in S PROVE k <= m + Work[b]
    <3>1. CASE k = Work[b]
      BY <3>1, <2>1
    <3>2. CASE k # Work[b]
      <4>1. PICK i \in Used(b) : k = thru(i)
        BY <3>2, <1>2
      <4> QED
        BY <4>1, <1>1, <1>4, <2>1
    <3> QED
      BY <3>1, <3>2
  <2>3. Total(b) = Max(S)
    BY DEF Total
  <2>4. m + Work[b] \in Nat
    BY <2>1
  <2> HIDE DEF S
  <2> QED
    BY <2>1, <2>2, <2>3, <2>4, MaxIn
<1>6. Total(b) \in Nat /\ Work[b] <= Total(b) /\ \A i \in Used(b) : thru(i) <= Total(b)
  BY <1>1, <1>2, <1>5, Sorts
<1> DEFINE best == {i \in Used(b) : Total(b) \in {Work[b], thru(i)}}
<1>7. Best(b) = IF best = {} THEN None ELSE Fields[b][Min(best)].to
  BY DEF Best, thru
<1>8. CASE best = {}
  <2>1. Used(b) = {} /\ Total(b) = Work[b]
    BY <1>2, <1>5, <1>8
  <2> QED
    BY <2>1, <1>6, <1>7, <1>8
<1>9. CASE best # {}
  <2>1. best \subseteq Nat
    BY LinkTypes
  <2>2. Min(best) \in best
    BY <2>1, <1>9, MinIn
  <2>3. Best(b) = Fields[b][Min(best)].to /\ Best(b) # None
    BY <1>7, <1>9, <2>2, LinkTypes, Sorts
  <2> QED
    BY <2>2, <2>3, <1>1, <1>6 DEF thru
<1> QED
  BY <1>8, <1>9
\* The tree with b in it.
LEMMA TreeGrows ==
  ASSUME GraphInv, NEW b \in Blocks, LinksDown(b), b \notin known,
         NEW N, N = [node EXCEPT !.diff[b] = Total(b), !.parent[b] = Best(b)]
  PROVE  /\ N \in [diff : [Blocks -> Nat], parent : [Blocks -> BlockOrNone]]
         /\ Tree(N, known \cup {b}) /\ \A x \in known : N.parent[x] = node.parent[x]
         /\ N.parent[b] = Best(b) /\ N.diff[b] = Total(b)
         /\ \A x \in known : N.diff[x] = node.diff[x]
<1>1. Best(b) = None \/ (Best(b) \in known /\ Time[Best(b)] < Time[b])
  BY TotalIsGreatest DEF LinksDown
<1>2. Best(b) \in BlockOrNone /\ Total(b) \in Nat
  BY <1>1, TotalIsGreatest DEF BlockOrNone, GraphInv
<1>3. node.diff \in [Blocks -> Nat] /\ node.parent \in [Blocks -> BlockOrNone]
      /\ node = [diff |-> node.diff, parent |-> node.parent]
  BY DEF GraphInv
<1>4. N.diff = [node.diff EXCEPT ![b] = Total(b)] /\ N.parent = [node.parent EXCEPT ![b] = Best(b)]
      /\ N = [diff |-> N.diff, parent |-> N.parent]
  BY <1>3
<1>5. N.diff \in [Blocks -> Nat] /\ N.parent \in [Blocks -> BlockOrNone]
  BY <1>2, <1>3, <1>4
<1>6. /\ \A x \in known : N.parent[x] = node.parent[x] /\ N.diff[x] = node.diff[x]
      /\ N.parent[b] = Best(b) /\ N.diff[b] = Total(b)
  BY <1>3, <1>4 DEF GraphInv
<1>7. Tree(N, known \cup {b})
  BY <1>1, <1>5, <1>6, Sorts DEF Tree, GraphInv
<1> QED
  BY <1>4, <1>5, <1>6, <1>7

LEMMA PretopKnown ==
  ASSUME NEW K, NEW N, NEW x \in K \cup {None}, NEW y \in K \cup {None}
  PROVE  Pretop(N, x, y) \in K \cup {None}
BY DEF Pretop

LEMMA AddKeepsGraph ==
  ASSUME GraphInv, NEW b \in Blocks, AddBlock(b)
  PROVE  GraphInv'
<1> DEFINE N == [node EXCEPT !.diff[b] = Total(b), !.parent[b] = Best(b)]
           K == known \cup {b}
           away == Away(StopAt(N, b))
<1>1. LinksDown(b) /\ b \notin known
  BY AcceptedLinks DEF AddBlock
<1>2. /\ N \in [diff : [Blocks -> Nat], parent : [Blocks -> BlockOrNone]]
      /\ Tree(N, K) /\ \A x \in known : N.parent[x] = node.parent[x]
  BY <1>1, TreeGrows
<1>3. node' = N /\ known' = K /\ light' = light /\ now' = now
      /\ pretop' = Pretop(N, Pretop(N, pretop, b), top)
  BY DEF AddBlock
<1>4. K \subseteq Blocks /\ b \in K /\ known \subseteq K /\ pretop' \in K \cup {None}
  BY <1>3, PretopKnown DEF GraphInv
<1>5. MainsFirst(chain, NewMain.main)
  BY NewMainFirst
<1>6. CASE Total(b) > Difficulty
  <2>1. /\ top' = b /\ chain' = (chain \cup Marks(N, b)) \ away
        /\ main' = NewMain.main \ away
    BY <1>6 DEF AddBlock, Lead
  <2>2. OnPath(Path(N, b), chain') /\ MainsFirst(chain', main')
    <3> HIDE DEF N, K, away
    <3> QED
      BY <1>2, <1>4, <1>5, <2>1, LeadKeepsChain DEF away
  <2>3. chain' \subseteq K
    <3>1. Descends(N, K, b)
      BY <1>2, <1>4, PathDescends
    <3> QED
      BY <2>2, <3>1 DEF OnPath, Descends
  <2> HIDE DEF N, K
  <2> QED
    BY <1>2, <1>3, <1>4, <2>1, <2>2, <2>3 DEF GraphInv
<1>7. CASE ~(Total(b) > Difficulty)
  <2>1. top' = top /\ chain' = chain /\ main' = NewMain.main
    BY <1>7 DEF AddBlock, Follow
  <2>2. Path(N, top) = Path(node, top)
    <3>1. CASE top = None
      BY <3>1 DEF Path
    <3>2. CASE top # None
      <4>1. Tree(N, known)
        BY <1>2 DEF Tree, GraphInv
      <4> HIDE DEF N
      <4> QED
        BY <3>2, <4>1, <1>2, PathSame DEF GraphInv
    <3> QED
      BY <3>1, <3>2
  <2> HIDE DEF N, K
  <2> QED
    BY <1>2, <1>3, <1>4, <1>5, <2>1, <2>2 DEF GraphInv
<1> QED
  BY <1>6, <1>7

LEMMA EmptyTree ==
  ASSUME NEW m, m = NodeInit
  PROVE  /\ m \in [diff : [Blocks -> Nat], parent : [Blocks -> BlockOrNone]]
         /\ Tree(m, {}) /\ OnPath(Path(m, None), {}) /\ MainsFirst({}, {})
BY DEF NodeInit, Tree, OnPath, MainsFirst, BlockOrNone

LEMMA GraphInvHolds == Spec => []GraphInv
<1>1. Init => GraphInv
  <2> SUFFICES ASSUME Init PROVE GraphInv
    OBVIOUS
  <2>1. 0 \in 0 .. MaxNow
    BY ChainAssumption DEF ChainAssumption
  <2> QED
    BY <2>1, EmptyTree DEF Init, GraphInv
<1>2. GraphInv /\ [Next]_vars => GraphInv'
  <2> SUFFICES ASSUME GraphInv, [Next]_vars PROVE GraphInv'
    OBVIOUS
  <2>1. ASSUME NEW b \in Blocks, AddBlock(b) PROVE GraphInv'
    BY <2>1, AddKeepsGraph
  <2>2. CASE CheckNewMain
    <3>1. MainsFirst(chain, main')
      BY <2>2, NewMainFirst DEF CheckNewMain
    <3> QED
      BY <2>2, <3>1 DEF CheckNewMain, graph, GraphInv
  <2>3. CASE Clear
    BY <2>3, EmptyTree DEF Clear, GraphInv
  <2>4. CASE Tick
    <3>1. now' \in 0 .. MaxNow
      BY <2>4, ChainAssumption DEF Tick, GraphInv, ChainAssumption
    <3> QED
      BY <2>4, <3>1 DEF Tick, graph, GraphInv
  <2>5. CASE UNCHANGED vars
    BY <2>5 DEF vars, graph, GraphInv
  <2> QED
    BY <2>1, <2>2, <2>3, <2>4, <2>5 DEF Next
<1> QED
  BY <1>1, <1>2, PTL DEF Spec

\* The marked blocks lie on the way down from the top, one of each period, and
\* the main blocks are the oldest of them, whatever forks overtake each other:
\* unwind_main ends at a block of the way it walks.
THEOREM ChainStaysOnPath == Spec => []ChainOnPath
<1>1. GraphInv => ChainOnPath
  BY DEF GraphInv, ChainOnPath, OnPath, MainsFirst
<1> QED
  BY <1>1, GraphInvHolds, PTL
-----------------------------------------------------------------------------
(* The work of a way down *)

LEMMA WorkBounded == \E m \in Nat : \A x \in Blocks : Work[x] <= m
<1>1. PICK n \in Nat : \E f : f \in Surjection(1 .. n, Blocks)
  BY ChainAssumption, FS_NatSurjection DEF ChainAssumption, ExistsSurjection
<1>2. PICK f : f \in Surjection(1 .. n, Blocks)
  BY <1>1
<1>3. f \in [1 .. n -> Blocks] /\ \A x \in Blocks : \E i \in 1 .. n : f[i] = x
  BY <1>2 DEF Surjection
<1> DEFINE h == [i \in 1 .. n |-> Work[f[i]]]
<1>4. \A i \in 1 .. n : h[i] \in Nat
  BY <1>3, Sorts
<1>5. PICK m \in Nat : \A i \in 1 .. n : h[i] <= m
  <2> HIDE DEF h
  <2> QED
    BY <1>4, Bounded
<1> QED
  BY <1>3, <1>5

LEMMA HardestIs ==
  ASSUME NEW S, S \subseteq Blocks, NEW p
  PROVE  /\ Hardest(S, p) \in Nat
         /\ \A x \in S : Period(Time[x]) = p => Work[x] <= Hardest(S, p)
         /\ Hardest(S, p) = 0 \/ \E x \in S : Period(Time[x]) = p /\ Work[x] = Hardest(S, p)
<1> DEFINE T == {0} \cup {Work[x] : x \in {y \in S : Period(Time[y]) = p}}
<1>1. PICK m \in Nat : \A x \in Blocks : Work[x] <= m
  BY WorkBounded
<1>2. T \subseteq Nat /\ T # {} /\ \A k \in T : k <= m
  BY <1>1, Sorts
<1>3. Max(T) \in T /\ \A k \in T : k <= Max(T)
  <2> HIDE DEF T
  <2> QED
    BY <1>1, <1>2, MaxIn
<1>4. Hardest(S, p) = Max(T)
  BY DEF Hardest
<1> QED
  BY <1>2, <1>3, <1>4

LEMMA HardestSame ==
  ASSUME NEW S, NEW R, NEW p, \A x \in S \cup R : Period(Time[x]) = p => x \in S /\ x \in R
  PROVE  Hardest(S, p) = Hardest(R, p)
<1>1. {y \in S : Period(Time[y]) = p} = {y \in R : Period(Time[y]) = p}
  OBVIOUS
<1> QED
  BY <1>1 DEF Hardest

LEMMA WeightSteps ==
  ASSUME NEW S, S \subseteq Blocks
  PROVE  /\ Weight(S, 0) = 0
         /\ \A n \in Nat : /\ Weight(S, n) \in Nat
                           /\ Weight(S, n + 1) = Weight(S, n) + Hardest(S, n)
<1> DEFINE F(n) == [p \in 1 .. n |-> [w \in Nat |-> w + Hardest(S, p - 1)]]
           G == [p \in Nat |-> [w \in Nat |-> w + Hardest(S, p - 1)]]
<1>1. \A p \in Nat : Hardest(S, p) \in Nat
  BY HardestIs
<1>2. ASSUME NEW N \in Nat, NEW M \in Nat, N <= M
      PROVE  \A n \in 0 .. N : Iterate(F(M), 0, n) \in Nat /\ Iterate(F(M), 0, n) = Iterate(F(N), 0, n)
  <2> DEFINE T == {n \in Nat : Iterate(F(M), 0, n) \in Nat /\ Iterate(F(M), 0, n) = Iterate(F(N), 0, n)}
  <2>1. 0 \in T
    <3> HIDE DEF F
    <3> QED
      BY IterateSteps
  <2>2. ASSUME NEW n \in 0 .. N - 1, n \in T PROVE n + 1 \in T
    <3>1. /\ Iterate(F(M), 0, n + 1) = F(M)[n + 1][Iterate(F(M), 0, n)]
          /\ Iterate(F(N), 0, n + 1) = F(N)[n + 1][Iterate(F(N), 0, n)]
      <4>1. n \in Nat
        OBVIOUS
      <4> HIDE DEF F
      <4> QED
        BY <4>1, IterateSteps, Zenon
    <3>2. n + 1 \in 1 .. N /\ n + 1 \in 1 .. M /\ n + 1 - 1 = n /\ n \in Nat
      BY <1>2
    <3>3. \A w \in Nat : F(M)[n + 1][w] = w + Hardest(S, n) /\ F(N)[n + 1][w] = w + Hardest(S, n)
      BY <3>2
    <3> HIDE DEF F
    <3>4. Iterate(F(M), 0, n + 1) = Iterate(F(M), 0, n) + Hardest(S, n)
          /\ Iterate(F(N), 0, n + 1) = Iterate(F(M), 0, n) + Hardest(S, n)
      BY <2>2, <3>1, <3>3
    <3> QED
      BY <3>2, <3>4, <2>2, <1>1
  <2>3. \A n \in 0 .. N : n \in T
    <3> HIDE DEF T
    <3> QED
      BY <2>1, <2>2, Stepping
  <2> QED
    BY <2>3
<1>3. \A n \in Nat : Weight(S, n) = Iterate(F(n), 0, n)
  BY DEF Weight
<1>4. Weight(S, 0) = 0
  <2> HIDE DEF F
  <2> QED
    BY <1>3, IterateSteps
<1>5. ASSUME NEW n \in Nat
      PROVE  Weight(S, n) \in Nat /\ Weight(S, n + 1) = Weight(S, n) + Hardest(S, n)
  <2>1. F(n + 1)[n + 1] = [w \in Nat |-> w + Hardest(S, n)]
    <3>1. n + 1 \in 1 .. n + 1 /\ n + 1 - 1 = n
      OBVIOUS
    <3> QED
      BY <3>1
  <2> HIDE DEF F
  <2>2. Iterate(F(n + 1), 0, n) \in Nat /\ Iterate(F(n + 1), 0, n) = Iterate(F(n), 0, n)
    <3>1. n \in 0 .. n /\ n <= n + 1 /\ n + 1 \in Nat
      OBVIOUS
    <3> QED
      BY <3>1, <1>2
  <2>3. Iterate(F(n + 1), 0, n + 1) = F(n + 1)[n + 1][Iterate(F(n + 1), 0, n)]
    BY IterateSteps, Zenon
  <2>4. Weight(S, n + 1) = Iterate(F(n + 1), 0, n + 1) /\ Weight(S, n) = Iterate(F(n), 0, n)
    BY <1>3
  <2> QED
    BY <2>1, <2>2, <2>3, <2>4
<1> QED
  BY <1>4, <1>5

\* Only the blocks of the periods that are counted matter.
LEMMA WeightSame ==
  ASSUME NEW S, S \subseteq Blocks, NEW R, R \subseteq Blocks, NEW N \in Nat,
         \A x \in S \cup R : Period(Time[x]) < N => x \in S /\ x \in R
  PROVE  Weight(S, N) = Weight(R, N)
<1> DEFINE T == {n \in Nat : Weight(S, n) = Weight(R, n)}
<1>1. 0 \in T
  BY WeightSteps
<1>2. ASSUME NEW n \in 0 .. N - 1, n \in T PROVE n + 1 \in T
  <2>1. Hardest(S, n) = Hardest(R, n)
    <3>1. \A x \in S \cup R : Period(Time[x]) = n => x \in S /\ x \in R
      OBVIOUS
    <3> QED
      BY <3>1, HardestSame
  <2>2. n \in Nat /\ Weight(S, n) = Weight(R, n)
    BY <1>2
  <2>3. Weight(S, n + 1) = Weight(S, n) + Hardest(S, n)
        /\ Weight(R, n + 1) = Weight(R, n) + Hardest(R, n)
    BY <2>2, WeightSteps
  <2> QED
    BY <2>1, <2>2, <2>3
<1>3. \A n \in 0 .. N : n \in T
  <2> HIDE DEF T
  <2> QED
    BY <1>1, <1>2, Stepping
<1>4. N \in 0 .. N
  OBVIOUS
<1>5. N \in T
  BY <1>3, <1>4
<1> QED
  BY <1>5

\* Periods without a block weigh nothing.
LEMMA WeightFlat ==
  ASSUME NEW S, S \subseteq Blocks, NEW M \in Nat, NEW N \in Nat, M <= N,
         \A x \in S : ~(M <= Period(Time[x]) /\ Period(Time[x]) < N)
  PROVE  Weight(S, N) = Weight(S, M)
<1> DEFINE T == {n \in Nat : Weight(S, M + n) = Weight(S, M)}
<1>1. 0 \in T
  OBVIOUS
<1>2. ASSUME NEW n \in 0 .. (N - M) - 1, n \in T PROVE n + 1 \in T
  <2>1. M + n \in Nat /\ M <= M + n /\ M + n < N /\ M + (n + 1) = M + n + 1
    OBVIOUS
  <2>2. Hardest(S, M + n) = 0
    <3>1. \A x \in S : Period(Time[x]) # M + n
      BY <2>1
    <3> QED
      BY <3>1, HardestIs
  <2>3. Weight(S, M + n + 1) = Weight(S, M + n) + 0 /\ Weight(S, M + n) \in Nat
    BY <2>1, <2>2, WeightSteps
  <2> QED
    BY <2>1, <2>3, <1>2
<1>3. N - M \in Nat /\ N - M \in 0 .. N - M /\ M + (N - M) = N
  OBVIOUS
<1>4. \A n \in 0 .. N - M : n \in T
  <2> HIDE DEF T
  <2> QED
    BY <1>1, <1>2, <1>3, Stepping
<1>5. N - M \in T
  BY <1>3, <1>4
<1> QED
  BY <1>3, <1>5
\* What TopIsHeaviest says, of the blocks of K.
Weighed(N, K) ==
  \A b \in K :
    LET n == Period(Time[b]) + 1
    IN /\ N.diff[b] = Weight(Path(N, b), n)
       /\ \A i \in Used(b) :
            /\ Fields[b][i].to \in K
            /\ N.diff[b] >= Weight({b} \cup Path(N, Fields[b][i].to), n)

TopHeavy ==
  /\ top = None => known = {}
  /\ \A b \in known : node.diff[b] <= Difficulty

WeightInv == GraphInv /\ Weighed(node, known) /\ TopHeavy

\* Together with b's own work, a link gives the work of the way down it starts.
LEMMA ThroughWeighs ==
  ASSUME GraphInv, Weighed(node, known), NEW b \in Blocks, NEW x \in known, Time[x] < Time[b]
  PROVE  Weight({b} \cup Path(node, x), Period(Time[b]) + 1) =
           IF Through(b, x) < Work[b] THEN Work[b] ELSE Through(b, x)
<1> DEFINE p == Period(Time[b])
           S == {b} \cup Path(node, x)
           R == {y \in Path(node, x) : Period(Time[y]) # p}
           q == Youngest(R)
           H == Hardest(Path(node, x), p)
<1>1. Descends(node, known, x) /\ x \in Blocks /\ node.diff \in [Blocks -> Nat]
  BY PathDescends DEF GraphInv
<1>2. Path(node, x) \subseteq Blocks /\ S \subseteq Blocks /\ Path(node, x) \subseteq known
  BY <1>1 DEF Descends, GraphInv
<1>3. Time[x] \in Nat /\ Time[b] \in Nat /\ p \in Nat /\ Work[b] \in Nat /\ Work[b] > 0
      /\ \A y \in Path(node, x) : Time[y] \in Nat /\ Time[y] <= Time[x] /\ Period(Time[y]) \in Nat
                                  /\ Period(Time[y]) <= Period(Time[x])
  <2>1. \A y \in Path(node, x) : Time[y] \in Nat /\ (y # x => Time[y] < Time[x])
    BY <1>1, <1>2, Sorts DEF Descends
  <2>2. Time[x] \in Nat /\ Time[b] \in Nat /\ Work[b] \in Nat /\ Work[b] > 0
    BY <1>1, Sorts
  <2>3. \A y \in Path(node, x) : Time[y] <= Time[x]
    BY <2>1, <2>2
  <2> QED
    BY <2>1, <2>2, <2>3, PeriodGrows
<1>4. Period(Time[x]) \in Nat /\ Period(Time[x]) <= p
  BY <1>3, PeriodGrows
<1>5. x \in Path(node, x)
  BY <1>1 DEF Descends
<1>6. H \in Nat /\ Hardest(S, p) = IF H < Work[b] THEN Work[b] ELSE H
  <2> DEFINE G == Hardest(S, p)
  <2>1. /\ H \in Nat /\ \A y \in Path(node, x) : Period(Time[y]) = p => Work[y] <= H
        /\ H = 0 \/ \E y \in Path(node, x) : Period(Time[y]) = p /\ Work[y] = H
    BY <1>2, HardestIs
  <2>2. /\ G \in Nat /\ \A y \in S : Period(Time[y]) = p => Work[y] <= G
        /\ G = 0 \/ \E y \in S : Period(Time[y]) = p /\ Work[y] = G
    BY <1>2, HardestIs
  <2> HIDE DEF H, G
  <2>3. Work[b] <= G /\ H <= G /\ (G = Work[b] \/ G <= H)
    BY <2>1, <2>2, <1>3
  <2> QED
    BY <2>1, <2>2, <2>3, <1>3 DEF G
<1>7. Weight(S, p) = Weight(Path(node, x), p) /\ Weight(Path(node, x), p) \in Nat
  <2>1. \A y \in S \cup Path(node, x) : Period(Time[y]) < p => y \in S /\ y \in Path(node, x)
    BY <1>3
  <2> HIDE DEF S, p
  <2> QED
    BY <2>1, <1>2, <1>3, WeightSame, WeightSteps
<1>8. Weight(S, p + 1) = Weight(Path(node, x), p) + Hardest(S, p)
  <2> HIDE DEF S, p
  <2> QED
    BY <1>2, <1>3, <1>7, WeightSteps
<1>9. node.diff[x] = Weight(Path(node, x), Period(Time[x]) + 1)
  BY DEF Weighed
<1>10. Through(b, x) = IF q = x THEN Work[b] + node.diff[x]
                       ELSE IF q = None THEN node.diff[x]
                       ELSE Max({node.diff[x], Work[b] + node.diff[q]})
  BY DEF Through
<1>11. R # {} => q \in R /\ \A y \in R : Time[y] <= Time[q]
  <2>1. R \subseteq Blocks /\ \A y \in R : Time[y] <= Time[x]
    BY <1>2, <1>3
  <2> HIDE DEF R
  <2> QED
    BY <2>1, <1>3, YoungestIn
<1>12. CASE Period(Time[x]) # p
  <2>1. x \in R /\ Period(Time[x]) + 1 <= p
    BY <1>3, <1>4, <1>5, <1>12
  <2>2. q = x
    <3>1. q \in Path(node, x) /\ Time[x] <= Time[q] /\ (q # x => Time[q] < Time[x])
      BY <2>1, <1>1, <1>11 DEF Descends
    <3> QED
      BY <3>1, <1>3
  <2>3. H = 0
    <3>1. \A y \in Path(node, x) : Period(Time[y]) # p
      BY <1>3, <1>4, <1>12
    <3> QED
      BY <3>1, <1>2, HardestIs
  <2>4. Weight(Path(node, x), p) = node.diff[x]
    <3>1. \A y \in Path(node, x) : ~(Period(Time[x]) + 1 <= Period(Time[y]) /\ Period(Time[y]) < p)
      BY <1>3, <1>4
    <3> HIDE DEF p
    <3> QED
      BY <3>1, <2>1, <1>2, <1>3, <1>4, <1>9, WeightFlat
  <2> HIDE DEF p, S, q, H
  <2> QED
    BY <2>2, <2>3, <2>4, <1>1, <1>3, <1>6, <1>8, <1>10 DEF p, S
<1>13. CASE Period(Time[x]) = p /\ R = {}
  <2>1. q = None
    BY <1>13 DEF Youngest
  <2>2. Weight(Path(node, x), p) = 0
    <3>1. \A y \in Path(node, x) : ~(0 <= Period(Time[y]) /\ Period(Time[y]) < p)
      BY <1>3, <1>13
    <3> HIDE DEF p
    <3>2. p \in Nat /\ 0 <= p /\ 0 \in Nat
      BY <1>3
    <3>3. Weight(Path(node, x), p) = Weight(Path(node, x), 0)
      BY <3>1, <3>2, <1>2, WeightFlat
    <3> QED
      BY <3>3, <1>2, WeightSteps
  <2>3. node.diff[x] = 0 + H
    BY <2>2, <1>2, <1>3, <1>9, <1>13, WeightSteps
  <2>4. x # None
    BY <1>1, Sorts
  <2> HIDE DEF p, S, q, H
  <2> QED
    BY <2>1, <2>2, <2>3, <2>4, <1>1, <1>3, <1>6, <1>8, <1>10 DEF p, S
<1>14. CASE Period(Time[x]) = p /\ R # {}
  <2>1. q \in Path(node, x) /\ Period(Time[q]) # p /\ \A y \in R : Time[y] <= Time[q]
    BY <1>11, <1>14
  <2>2. q # x /\ q # None /\ q \in known /\ q \in Blocks /\ Period(Time[q]) < p
    BY <2>1, <1>2, <1>3, <1>14, Sorts
  <2>3. Descends(node, known, q) /\ Path(node, q) \subseteq Path(node, x)
    <3>1. Descends(node, known, q)
      BY <2>2, PathDescends DEF GraphInv
    <3> HIDE DEF q
    <3> QED
      BY <3>1, <2>1, <1>1 DEF Descends
  <2>4. \A y \in Path(node, q) : Period(Time[y]) <= Period(Time[q])
    <3> TAKE y \in Path(node, q)
    <3>1. y \in Path(node, x) /\ (y # q => Time[y] < Time[q])
      BY <2>3 DEF Descends
    <3>2. Time[y] \in Nat /\ Time[q] \in Nat /\ Time[y] <= Time[q]
      BY <3>1, <2>1, <1>3
    <3> QED
      BY <3>2, PeriodGrows
  <2>5. Weight(Path(node, x), p) = Weight(Path(node, q), p)
    <3>1. \A y \in Path(node, x) \cup Path(node, q) : Period(Time[y]) < p =>
            y \in Path(node, x) /\ y \in Path(node, q)
      <4> TAKE y \in Path(node, x) \cup Path(node, q)
      <4>1. y \in Path(node, x)
        BY <2>3
      <4>2. Period(Time[y]) < p => Time[y] <= Time[q]
        BY <4>1, <2>1, <1>3
      <4> QED
        BY <4>1, <4>2, <2>1, <1>1 DEF Descends
    <3> HIDE DEF p
    <3> QED
      BY <3>1, <2>3, <1>2, <1>3, WeightSame
  <2>6. Weight(Path(node, q), p) = node.diff[q]
    <3>1. Period(Time[q]) \in Nat /\ Period(Time[q]) + 1 <= p /\ Path(node, q) \subseteq Blocks
      BY <2>1, <2>2, <2>3, <1>2, <1>3
    <3>2. \A y \in Path(node, q) : ~(Period(Time[q]) + 1 <= Period(Time[y]) /\ Period(Time[y]) < p)
      BY <2>3, <2>4, <3>1, <1>3
    <3>3. node.diff[q] = Weight(Path(node, q), Period(Time[q]) + 1)
      BY <2>2 DEF Weighed
    <3> HIDE DEF p, q
    <3> QED
      BY <3>1, <3>2, <3>3, <1>3, WeightFlat
  <2>7. node.diff[x] = node.diff[q] + H
    <3>1. Weight(Path(node, x), p + 1) = Weight(Path(node, x), p) + H
      BY <1>2, <1>3, WeightSteps
    <3> HIDE DEF q, H
    <3> QED
      BY <3>1, <2>5, <2>6, <1>9, <1>14
  <2>8. Max({node.diff[x], Work[b] + node.diff[q]}) =
          IF node.diff[x] < Work[b] + node.diff[q] THEN Work[b] + node.diff[q] ELSE node.diff[x]
    <3>1. node.diff[x] \in Nat /\ Work[b] + node.diff[q] \in Nat
      BY <2>2, <1>1, <1>3
    <3> QED
      BY <3>1, MaxOfTwo
  <2>9. node.diff[q] \in Nat
    BY <2>2, <1>1
  <2> HIDE DEF p, S, q, H
  <2> QED
    BY <2>2, <2>5, <2>6, <2>7, <2>8, <2>9, <1>1, <1>3, <1>6, <1>8, <1>10 DEF p, S
<1> QED
  BY <1>12, <1>13, <1>14
LEMMA AddKeepsWeights ==
  ASSUME WeightInv, NEW b \in Blocks, LinksDown(b), b \notin known,
         NEW N, NEW K, K = known \cup {b}, Tree(N, K),
         N.parent[b] = Best(b), N.diff[b] = Total(b),
         \A x \in known : N.parent[x] = node.parent[x],
         \A x \in known : N.diff[x] = node.diff[x]
  PROVE  Weighed(N, K)
<1> DEFINE n == Period(Time[b]) + 1
           to(i) == Fields[b][i].to
           thru(i) == Through(b, to(i))
<1>0. GraphInv /\ Tree(node, known)
  BY DEF WeightInv, GraphInv
<1>1. /\ Tree(N, K) /\ N.parent[b] = Best(b) /\ N.diff[b] = Total(b) /\ b \in K
      /\ \A x \in known : N.parent[x] = node.parent[x] /\ N.diff[x] = node.diff[x]
  OBVIOUS
<1>2. \A x \in known : Path(N, x) = Path(node, x)
  <2>1. Tree(N, known)
    BY <1>0, <1>1 DEF Tree
  <2> QED
    BY <2>1, <1>0, <1>1, PathSame
<1>3. ASSUME NEW x \in known
      PROVE  LET m == Period(Time[x]) + 1
             IN /\ N.diff[x] = Weight(Path(N, x), m)
                /\ \A i \in Used(x) : /\ Fields[x][i].to \in K
                                      /\ N.diff[x] >= Weight({x} \cup Path(N, Fields[x][i].to), m)
  BY <1>1, <1>2 DEF WeightInv, Weighed
<1>4. /\ Total(b) \in Nat /\ Work[b] <= Total(b)
      /\ \A i \in Used(b) : thru(i) \in Nat /\ thru(i) <= Total(b)
      /\ Best(b) = None => Used(b) = {} /\ Total(b) = Work[b]
      /\ Best(b) # None => \E i \in Used(b) : Best(b) = to(i) /\ Total(b) \in {Work[b], thru(i)}
  BY TotalIsGreatest DEF WeightInv
<1>5. ASSUME NEW i \in Used(b)
      PROVE  /\ to(i) \in known /\ Path(N, to(i)) = Path(node, to(i))
             /\ Weight({b} \cup Path(N, to(i)), n) = IF thru(i) < Work[b] THEN Work[b] ELSE thru(i)
  <2>1. to(i) \in known /\ Time[to(i)] < Time[b]
    BY DEF LinksDown
  <2> HIDE DEF to
  <2> QED
    BY <2>1, <1>2, ThroughWeighs DEF WeightInv
<1>6. Path(N, b) = {b} \cup Path(N, Best(b))
  <2>1. Path(N, b) = {b} \cup Path(N, N.parent[b])
    BY <1>1, PathStep
  <2> QED
    BY <2>1, <1>1
<1>7. Work[b] \in Nat /\ Period(Time[b]) \in Nat /\ Work[b] > 0
  <2>1. Time[b] \in Nat /\ Work[b] \in Nat /\ Work[b] > 0
    BY Sorts
  <2> QED
    BY <2>1, PeriodGrows
<1>8. N.diff[b] = Weight(Path(N, b), n)
  <2>1. CASE Best(b) = None
    <3>1. Path(N, b) = {b}
      BY <2>1, <1>6 DEF Path
    <3>2. Weight({b}, Period(Time[b]) + 1) = Weight({b}, Period(Time[b])) + Hardest({b}, Period(Time[b]))
      BY <1>7, WeightSteps
    <3>3. Weight({b}, Period(Time[b])) = Weight({b}, 0)
      <4>1. \A x \in {b} : ~(0 <= Period(Time[x]) /\ Period(Time[x]) < Period(Time[b]))
        BY <1>7
      <4>2. 0 \in Nat /\ 0 <= Period(Time[b]) /\ {b} \subseteq Blocks
        BY <1>7
      <4> QED
        BY <4>1, <4>2, <1>7, WeightFlat
    <3>4. Hardest({b}, Period(Time[b])) = Work[b] /\ Weight({b}, 0) = 0
      <4>1. {b} \subseteq Blocks
        OBVIOUS
      <4> QED
        BY <4>1, <1>7, HardestIs, WeightSteps
    <3>5. Weight({b}, n) = Work[b]
      BY <3>2, <3>3, <3>4, <1>7
    <3> QED
      BY <3>1, <3>5, <2>1, <1>1, <1>4
  <2>2. CASE Best(b) # None
    <3>1. PICK i \in Used(b) : Best(b) = to(i) /\ Total(b) \in {Work[b], thru(i)}
      BY <2>2, <1>4
    <3>2. Weight({b} \cup Path(N, Best(b)), n) = IF thru(i) < Work[b] THEN Work[b] ELSE thru(i)
      BY <3>1, <1>5
    <3>3. thru(i) \in Nat /\ thru(i) <= Total(b)
      BY <1>4
    <3>4. Total(b) = Weight({b} \cup Path(N, Best(b)), n)
      <4> HIDE DEF thru, to, n
      <4> QED
        BY <3>1, <3>2, <3>3, <1>4, <1>7
    <3> QED
      BY <3>4, <1>1, <1>6
  <2> QED
    BY <2>1, <2>2
<1>9. \A i \in Used(b) : to(i) \in K /\ N.diff[b] >= Weight({b} \cup Path(N, to(i)), n)
  <2> TAKE i \in Used(b)
  <2>1. thru(i) \in Nat /\ thru(i) <= Total(b)
    BY <1>4
  <2>2. to(i) \in known /\ Weight({b} \cup Path(N, to(i)), n) = IF thru(i) < Work[b] THEN Work[b] ELSE thru(i)
    BY <1>5
  <2> HIDE DEF thru, to, n
  <2> QED
    BY <2>1, <2>2, <1>1, <1>4, <1>7
<1> QED
  BY <1>3, <1>8, <1>9 DEF Weighed

LEMMA AddKeepsTop ==
  ASSUME WeightInv, NEW b \in Blocks, AddBlock(b)
  PROVE  TopHeavy'
<1> DEFINE N == [node EXCEPT !.diff[b] = Total(b), !.parent[b] = Best(b)]
<1>1. LinksDown(b) /\ b \notin known
  BY AcceptedLinks DEF AddBlock
<1>2. N.diff[b] = Total(b) /\ \A x \in known : N.diff[x] = node.diff[x]
  BY <1>1, TreeGrows DEF WeightInv
<1>3. node' = N /\ known' = known \cup {b}
  BY DEF AddBlock
<1> HIDE DEF N
<1>4. Total(b) \in Nat /\ Total(b) > 0
  BY <1>1, TotalIsGreatest, Sorts DEF WeightInv
<1>5. Difficulty \in Nat /\ \A x \in known : node.diff[x] \in Nat /\ node.diff[x] <= Difficulty
  BY DEF WeightInv, GraphInv, TopHeavy, Difficulty
<1>6. CASE Total(b) > Difficulty
  <2>1. top' = b
    BY <1>6 DEF AddBlock, Lead
  <2>2. Difficulty' = Total(b)
    BY <2>1, <1>2, <1>3, Sorts DEF Difficulty
  <2>3. \A x \in known' : node'.diff[x] <= Total(b)
    BY <1>2, <1>3, <1>4, <1>5, <1>6
  <2> QED
    BY <2>1, <2>2, <2>3, Sorts DEF TopHeavy
<1>7. CASE ~(Total(b) > Difficulty)
  <2>1. top' = top /\ top # None
    BY <1>4, <1>7 DEF AddBlock, Follow, Difficulty
  <2>2. Difficulty' = Difficulty
    BY <2>1, <1>2, <1>3 DEF Difficulty, WeightInv, GraphInv
  <2>3. \A x \in known' : node'.diff[x] <= Difficulty
    BY <1>2, <1>3, <1>4, <1>5, <1>7
  <2> QED
    BY <2>1, <2>2, <2>3 DEF TopHeavy
<1> QED
  BY <1>6, <1>7

LEMMA WeightInvHolds == Spec => []WeightInv
<1>1. Init => WeightInv
  <2> SUFFICES ASSUME Init PROVE WeightInv
    OBVIOUS
  <2>1. 0 \in 0 .. MaxNow
    BY ChainAssumption DEF ChainAssumption
  <2>2. GraphInv
    BY <2>1, EmptyTree DEF Init, GraphInv
  <2> QED
    BY <2>2 DEF Init, WeightInv, Weighed, TopHeavy
<1>2. WeightInv /\ GraphInv' /\ [Next]_vars => WeightInv'
  <2> SUFFICES ASSUME WeightInv, GraphInv', [Next]_vars PROVE Weighed(node, known)' /\ TopHeavy'
    BY DEF WeightInv
  <2>1. ASSUME NEW b \in Blocks, AddBlock(b) PROVE Weighed(node, known)' /\ TopHeavy'
    <3> DEFINE N == [node EXCEPT !.diff[b] = Total(b), !.parent[b] = Best(b)]
    <3>1. LinksDown(b) /\ b \notin known
      BY <2>1, AcceptedLinks DEF AddBlock
    <3>2. node' = N /\ known' = known \cup {b} /\ light' = light
      BY <2>1 DEF AddBlock
    <3>3. Weighed(N, known \cup {b})
      <4>1. /\ Tree(N, known \cup {b}) /\ N.parent[b] = Best(b) /\ N.diff[b] = Total(b)
            /\ \A x \in known : N.parent[x] = node.parent[x]
            /\ \A x \in known : N.diff[x] = node.diff[x]
        BY <3>1, TreeGrows DEF WeightInv
      <4> HIDE DEF N
      <4> QED
        BY <4>1, <3>1, AddKeepsWeights
    <3> HIDE DEF N
    <3>4. Weighed(node, known)'
      BY <3>2, <3>3 DEF Weighed, Used
    <3> QED
      BY <3>4, <2>1, AddKeepsTop
  <2>2. CASE CheckNewMain
    BY <2>2 DEF CheckNewMain, graph, WeightInv, Weighed, Used, TopHeavy, Difficulty
  <2>3. CASE Clear
    BY <2>3 DEF Clear, Weighed, TopHeavy
  <2>4. CASE Tick
    BY <2>4 DEF Tick, graph, WeightInv, Weighed, Used, TopHeavy, Difficulty
  <2>5. CASE UNCHANGED vars
    BY <2>5 DEF vars, graph, WeightInv, Weighed, Used, TopHeavy, Difficulty
  <2> QED
    BY <2>1, <2>2, <2>3, <2>4, <2>5 DEF Next
<1> QED
  BY <1>1, <1>2, GraphInvHolds, PTL DEF Spec

\* A block's difficulty is the work of its way down, counting the hardest block
\* of each period, and of no way that goes on from another of its links; and
\* no block is heavier than the top of the chain.
THEOREM TopStaysHeaviest == Spec => []TopIsHeaviest
<1>1. WeightInv => TopIsHeaviest
  <2> SUFFICES ASSUME WeightInv PROVE TopIsHeaviest
    OBVIOUS
  <2>1. ASSUME NEW b \in known
        PROVE  LET Weigh(S) == Weight(S, Period(Time[b]) + 1)
               IN /\ node.diff[b] = Weigh(Path(node, b))
                  /\ \A l \in LinkSet(b) : node.diff[b] >= Weigh({b} \cup Path(node, l.to))
    BY DEF WeightInv, Weighed, LinkSet
  <2> DEFINE S == {0} \cup {node.diff[b] : b \in known}
  <2>2. Difficulty \in S /\ Difficulty \in Nat /\ S \subseteq Nat /\ \A k \in S : k <= Difficulty
    BY DEF WeightInv, GraphInv, TopHeavy, Difficulty
  <2>3. Max(S) = Difficulty
    <3> HIDE DEF S
    <3>1. Max(S) \in S /\ \A k \in S : k <= Max(S)
      BY <2>2, MaxIn
    <3>2. Max(S) \in Nat /\ Max(S) <= Difficulty /\ Difficulty <= Max(S)
      BY <3>1, <2>2
    <3> QED
      BY <3>2, <2>2
  <2> QED
    BY <2>1, <2>3 DEF TopIsHeaviest
<1> QED
  BY <1>1, WeightInvHolds, PTL
-----------------------------------------------------------------------------
(* The ledger *)

LEMMA IterateEnds ==
  ASSUME NEW F, NEW S, NEW x \in S, NEW N \in Nat,
         \A i \in 1 .. N : \A y \in S : F[i][y] \in S
  PROVE  Iterate(F, x, N) \in S
<1>1. \A n \in 0 .. N : Iterate(F, x, n) \in S
  BY IterateIn, Zenon
<1>2. N \in 0 .. N
  OBVIOUS
<1> QED
  BY <1>1, <1>2

LEMMA Words ==
  /\ Word \in Nat /\ Word > 0
  /\ \A x, y \in Int : Plus(x, y) \in 0 .. Word - 1 /\ Minus(x, y) \in 0 .. Word - 1
<1>1. Word \in Nat /\ Word > 0
  BY ChainAssumption DEF ChainAssumption
<1>2. \A x \in Int : x % Word \in 0 .. Word - 1
  BY <1>1
<1> QED
  BY <1>1, <1>2 DEF Plus, Minus

LEMMA SwapTyped ==
  ASSUME NEW L \in Ledger, NEW a \in Blocks, NEW b \in Blocks
  PROVE  /\ Swap(L, a, b) \in Ledger
         /\ \A f \in {"amount", "balance", "nmain", "applied", "mainRef", "ref", "unearned"} :
              Swap(L, a, b)[f] = L[f]
<1> DEFINE before == L.prev[a]
           after == L.next[b]
           p == [x \in Blocks |-> CASE x = a -> b [] x = b -> before [] x = after -> a [] OTHER -> L.prev[x]]
           q == [x \in Blocks |-> CASE x = a -> after [] x = b -> a [] x = before -> b [] OTHER -> L.next[x]]
<1>1. Swap(L, a, b) = [L EXCEPT !.prev = p, !.next = q,
                         !.first = IF before = None THEN b ELSE @,
                         !.last  = IF after = None THEN a ELSE @]
  BY DEF Swap
<1>2. before \in BlockOrNone /\ after \in BlockOrNone
  BY DEF Ledger
<1>3. p \in [Blocks -> BlockOrNone] /\ q \in [Blocks -> BlockOrNone]
  BY <1>2 DEF Ledger, BlockOrNone
<1> HIDE DEF p, q, before, after
<1> QED
  BY <1>1, <1>3 DEF Ledger, BlockOrNone

\* The loops of accept_amount move blocks about in our list.
LEMMA AcceptTyped ==
  ASSUME NEW L \in Ledger, NEW b \in Blocks, NEW sum \in Int
  PROVE  /\ Accept(L, b, sum) \in Ledger
         /\ LET A == Accept(L, b, sum)
            IN /\ A.nmain = L.nmain /\ A.applied = L.applied /\ A.mainRef = L.mainRef
               /\ A.ref = L.ref /\ A.unearned = L.unearned
               /\ A.amount = [L.amount EXCEPT ![b] = Plus(@, sum)]
<1> DEFINE S == {A \in Ledger : /\ A.nmain = L.nmain /\ A.applied = L.applied
                                /\ A.mainRef = L.mainRef /\ A.ref = L.ref
                                /\ A.unearned = L.unearned
                                /\ A.amount = [L.amount EXCEPT ![b] = Plus(@, sum)]}
           paid == [L EXCEPT !.amount[b] = Plus(@, sum)]
           full == [paid EXCEPT !.balance = Plus(@, sum)]
           N == Cardinality(Ours)
<1>1. N \in Nat
  BY ChainAssumption, FS_CardinalityType, FS_Subset DEF ChainAssumption
<1>2. \A x \in 0 .. Word - 1 : Plus(x, sum) \in 0 .. Word - 1
  BY Words
<1>3. paid \in S
  <2>1. [L.amount EXCEPT ![b] = Plus(@, sum)] \in [Blocks -> 0 .. Word - 1]
    BY <1>2 DEF Ledger
  <2> QED
    BY <2>1 DEF Ledger
<1>4. full \in S
  <2>1. paid.balance \in 0 .. Word - 1 /\ paid \in Ledger
    BY <1>3 DEF Ledger
  <2> HIDE DEF paid
  <2> QED
    BY <2>1, <1>2, <1>3 DEF Ledger
<1> HIDE DEF paid, full, N
<1>5. ASSUME NEW A \in S PROVE MoveUp(A, b) \in S
  <2> DEFINE F == [i \in 1 .. N |-> [B \in Ledger |->
                    LET t == B.prev[b]
                    IN IF t # None /\ B.amount[b] > B.amount[t] THEN Swap(B, t, b) ELSE B]]
  <2>1. \A i \in 1 .. N : \A B \in S : F[i][B] \in S
    <3> TAKE i \in 1 .. N
    <3> TAKE B \in S
    <3>1. B.prev[b] \in Blocks \cup {None}
      BY DEF Ledger, BlockOrNone
    <3>2. ASSUME NEW t \in Blocks PROVE Swap(B, t, b) \in S
      <4>1. /\ Swap(B, t, b) \in Ledger
            /\ \A f \in {"amount", "balance", "nmain", "applied", "mainRef", "ref", "unearned"} :
                 Swap(B, t, b)[f] = B[f]
        BY SwapTyped
      <4> QED
        BY <4>1
    <3> QED
      BY <3>1, <3>2
  <2> HIDE DEF F, S
  <2>2. Iterate(F, A, N) \in S
    BY <1>1, <2>1, IterateEnds
  <2> QED
    BY <2>2 DEF MoveUp, F, N
<1>6. ASSUME NEW A \in S PROVE MoveDown(A, b) \in S
  <2> DEFINE F == [i \in 1 .. N |-> [B \in Ledger |->
                    LET t == B.next[b]
                    IN IF t # None /\ B.amount[b] < B.amount[t] THEN Swap(B, b, t) ELSE B]]
  <2>1. \A i \in 1 .. N : \A B \in S : F[i][B] \in S
    <3> TAKE i \in 1 .. N
    <3> TAKE B \in S
    <3>1. B.next[b] \in Blocks \cup {None}
      BY DEF Ledger, BlockOrNone
    <3>2. ASSUME NEW t \in Blocks PROVE Swap(B, b, t) \in S
      <4>1. /\ Swap(B, b, t) \in Ledger
            /\ \A f \in {"amount", "balance", "nmain", "applied", "mainRef", "ref", "unearned"} :
                 Swap(B, b, t)[f] = B[f]
        BY SwapTyped
      <4> QED
        BY <4>1
    <3> QED
      BY <3>1, <3>2
  <2> HIDE DEF F, S
  <2>2. Iterate(F, A, N) \in S
    BY <1>1, <2>1, IterateEnds
  <2> QED
    BY <2>2 DEF MoveDown, F, N
<1>7. Accept(L, b, sum) \in S
  <2> HIDE DEF S
  <2> QED
    BY <1>3, <1>4, <1>5, <1>6 DEF Accept, paid, full
<1> QED
  BY <1>7

\* Every known block links to known blocks that have been made before, and
\* have left the list of unlinked blocks.
Grounded ==
  /\ known \subseteq Blocks /\ linked \subseteq known
  /\ \A b \in known : \A i \in Used(b) :
       Fields[b][i].to \in linked /\ Time[Fields[b][i].to] < Time[b]

\* What is true of the ledger whatever set_main and unset_main do to it.
Kept(G) ==
  /\ G \subseteq Ledger
  /\ \A A \in G, x \in known, sum \in Int : Accept(A, x, sum) \in G
  /\ \A A \in G, x \in known :
       /\ [A EXCEPT !.mainRef = @ \cup {x}] \in G
       /\ [A EXCEPT !.mainRef = @ \ {x}] \in G
       /\ [A EXCEPT !.applied = @ \cup {x}] \in G
       /\ [A EXCEPT !.applied = @ \ {x}] \in G
       /\ [A EXCEPT !.unearned = @ \/ Fee[x] > 0] \in G
       /\ \A y \in linked : [A EXCEPT !.ref[y] = x] \in G

LEMMA CarryKept ==
  ASSUME NEW G, Kept(G), Grounded, NEW L \in G, NEW b \in known, NEW sign \in {-1, 1}
  PROVE  Carry(L, b, sign) \in G
<1> DEFINE N == Len(Fields[b])
           F == [i \in 1 .. N |-> [A \in Ledger |->
                  LET l == Fields[b][i]
                  IN IF i \in Used(b)
                     THEN Accept(A, l.to, Minus(0, sign * (IF l.in THEN l.amount ELSE -l.amount)))
                     ELSE A]]
<1>0. b \in Blocks
  BY DEF Grounded
<1>1. N \in Nat /\ \A i \in 1 .. N : Fields[b][i].amount \in Int
  BY <1>0, LinkTypes
<1>2. \A i \in 1 .. N : \A A \in G : F[i][A] \in G
  <2> TAKE i \in 1 .. N
  <2> TAKE A \in G
  <2> DEFINE l == Fields[b][i]
             m == IF l.in THEN l.amount ELSE -l.amount
  <2>1. sign * m \in Int
    <3>1. m \in Int
      BY <1>1
    <3> HIDE DEF m
    <3>2. CASE sign = 1
      BY <3>1, <3>2
    <3>3. CASE sign = -1
      BY <3>1, <3>3
    <3> QED
      BY <3>2, <3>3
  <2>2. Minus(0, sign * m) \in Int
    <3> HIDE DEF m
    <3> QED
      BY <2>1, Words
  <2>3. i \in Used(b) => Accept(A, l.to, Minus(0, sign * m)) \in G
    <3> HIDE DEF m
    <3> QED
      BY <2>2 DEF Kept, Grounded
  <2>4. A \in Ledger
    BY DEF Kept
  <2> QED
    BY <2>3, <2>4
<1> HIDE DEF F
<1>3. Iterate(F, L, N) \in G
  <2> HIDE DEF N
  <2> QED
    BY <1>1, <1>2, IterateEnds
<1> QED
  BY <1>3 DEF Carry, F

LEMMA SumTyped ==
  ASSUME NEW b \in Blocks, NEW in \in BOOLEAN
  PROVE  SumOf(b, in) \in Nat
<1> DEFINE N == Len(Fields[b])
           F == [i \in 1 .. N |-> [s \in Nat |->
                  IF i \in Used(b) /\ Fields[b][i].in = in THEN s + Fields[b][i].amount ELSE s]]
<1>1. N \in Nat /\ \A i \in 1 .. N : Fields[b][i].amount \in Nat
  <2>1. Word \in Nat
    BY Words
  <2> QED
    BY <2>1, LinkTypes
<1>2. \A i \in 1 .. N : \A s \in Nat : F[i][s] \in Nat
  <2> TAKE i \in 1 .. N
  <2> TAKE s \in Nat
  <2>1. s + Fields[b][i].amount \in Nat
    BY <1>1
  <2>2. F[i][s] \in {s, s + Fields[b][i].amount}
    <3> HIDE DEF N
    <3> QED
      OBVIOUS
  <2> QED
    BY <2>1, <2>2
<1> HIDE DEF F
<1>3. Iterate(F, 0, N) \in Nat
  <2> HIDE DEF N
  <2> QED
    BY <1>1, <1>2, IterateEnds
<1> QED
  BY <1>3 DEF SumOf, F

LEMMA FeeTyped == \A b \in Blocks : Fee[b] \in 0 .. Word - 1 /\ Fee[b] \in Nat
BY Words, ChainAssumption DEF ChainAssumption

LEMMA CarriedKept ==
  ASSUME NEW G, Kept(G), Grounded, NEW L \in G, NEW b \in known
  PROVE  Carried(L, b) \in G /\ Undo(L, b) \in G
<1> DEFINE in == SumOf(b, TRUE)
           out == SumOf(b, FALSE) + Fee[b]
<1>0. b \in Blocks
  BY DEF Grounded
<1>1. in \in Int /\ out \in Int
  <2>1. SumOf(b, TRUE) \in Nat /\ SumOf(b, FALSE) \in Nat /\ Fee[b] \in Nat
    BY <1>0, SumTyped, FeeTyped
  <2>2. \A x, y, z \in Nat : x \in Int /\ y + z \in Int
    OBVIOUS
  <2> QED
    BY <2>1, <2>2, Zenon
<1>2. Minus(in, out) \in Int /\ Minus(out, in) \in Int
  <2> HIDE DEF in, out
  <2> QED
    BY <1>1, Words
<1>3. Carry(L, b, 1) \in G /\ Carry(L, b, -1) \in G
  BY CarryKept
<1>4. Accept(Carry(L, b, 1), b, Minus(in, out)) \in G /\ Accept(Carry(L, b, -1), b, Minus(out, in)) \in G
  <2> HIDE DEF in, out
  <2> QED
    BY <1>2, <1>3 DEF Kept
<1>5. Carried(L, b) \in G
  BY <1>4 DEF Carried, Kept
<1>6. Undone(L, b) \in G
  BY <1>4 DEF Undone, Kept
<1>7. [L EXCEPT !.unearned = @ \/ Fee[b] > 0] \in G
  BY DEF Kept
<1>8. Undo(L, b) \in G
  <2> DEFINE U == IF b \in L.applied THEN Undone(L, b) ELSE [L EXCEPT !.unearned = @ \/ Fee[b] > 0]
  <2>1. U \in G
    BY <1>6, <1>7
  <2> HIDE DEF U
  <2>2. [U EXCEPT !.mainRef = @ \ {b}] \in G
    BY <2>1 DEF Kept
  <2> QED
    BY <2>2 DEF Undo, U
<1> QED
  BY <1>5, <1>8

\* The recursion of apply_block (`up`) and of unapply_block, level by level.
Level(up, below) ==
  IF up THEN [A \in Ledger |-> [x \in Blocks |-> ApplyOne(below, A, x)]]
        ELSE [A \in Ledger |-> [x \in Blocks |-> UnapplyOne(below, A, x)]]

Levels(up, N, f) == f = [n \in 0 .. N |-> Level(up, IF n = 0 THEN <<>> ELSE f[n - 1])]

LEMMA LevelsExist ==
  ASSUME NEW up
  PROVE  \A N \in Nat : \E f : Levels(up, N, f)
<1> DEFINE T == {n \in Nat : \E f : Levels(up, n, f)}
<1>1. ASSUME NEW n \in Nat, \A k \in 0 .. n - 1 : k \in T PROVE n \in T
  <2>1. CASE n = 0
    <3>1. Levels(up, 0, [i \in 0 .. 0 |-> Level(up, <<>>)])
      BY DEF Levels
    <3> QED
      BY <3>1, <2>1
  <2>2. CASE n > 0
    <3>1. PICK f : Levels(up, n - 1, f)
      BY <1>1, <2>2
    <3> DEFINE g == [i \in 0 .. n |-> IF i = n THEN Level(up, f[n - 1]) ELSE f[i]]
    <3>2. \A i \in 0 .. n : g[i] = Level(up, IF i = 0 THEN <<>> ELSE g[i - 1])
      <4> TAKE i \in 0 .. n
      <4>1. CASE i = n
        BY <4>1, <2>2
      <4>2. CASE i # n
        <5>1. f[i] = Level(up, IF i = 0 THEN <<>> ELSE f[i - 1])
          BY <3>1, <4>2 DEF Levels
        <5>2. g[i] = f[i] /\ (i # 0 => g[i - 1] = f[i - 1])
          BY <4>2
        <5> QED
          BY <5>1, <5>2
      <4> QED
        BY <4>1, <4>2
    <3>3. Levels(up, n, g)
      <4>1. g = [i \in 0 .. n |-> g[i]]
        OBVIOUS
      <4> HIDE DEF g
      <4> QED
        BY <4>1, <3>2 DEF Levels
    <3> QED
      BY <3>3
  <2> QED
    BY <2>1, <2>2
<1>2. \A n \in Nat : n \in T
  <2> HIDE DEF T
  <2> QED
    BY <1>1, Climbing
<1> QED
  BY <1>2

LEMMA ApplyIsLevels ==
  ASSUME NEW L, NEW b \in Blocks
  PROVE  /\ \E f : Levels(TRUE, Time[b], f) /\ Apply(L, b) = f[Time[b]][L][b]
         /\ \E f : Levels(FALSE, Time[b], f) /\ Unapply(L, b) = f[Time[b]][L][b]
<1>1. Time[b] \in Nat
  BY Sorts
<1>2. (\E f : Levels(TRUE, Time[b], f)) /\ (\E f : Levels(FALSE, Time[b], f))
  BY <1>1, LevelsExist
<1>3. Apply(L, b) = (CHOOSE f : Levels(TRUE, Time[b], f))[Time[b]][L][b]
  BY DEF Apply, Levels, Level
<1>4. Unapply(L, b) = (CHOOSE f : Levels(FALSE, Time[b], f))[Time[b]][L][b]
  BY DEF Unapply, Levels, Level
<1> QED
  BY <1>2, <1>3, <1>4

LEMMA ApplyOneKept ==
  ASSUME NEW G, Kept(G), Grounded, NEW L \in G, NEW b \in known, NEW below,
         \A A \in G, y \in linked :
           Time[y] < Time[b] => below[A][y].led \in G /\ below[A][y].fee \in Nat
  PROVE  ApplyOne(below, L, b).led \in G /\ ApplyOne(below, L, b).fee \in Nat
<1> DEFINE N == Len(Fields[b])
           F == ApplyLinks(below, b)
           M == [L EXCEPT !.mainRef = @ \cup {b}]
           E == Iterate(F, M, N)
<1>0. b \in Blocks /\ N \in Nat
  BY LinkTypes DEF Grounded
<1>1. M \in G
  BY DEF Kept
<1>2. \A i \in 1 .. N : \A A \in G : F[i][A] \in G
  <2> TAKE i \in 1 .. N
  <2> TAKE A \in G
  <2> DEFINE y == Fields[b][i].to
             r == below[A][y]
             R == [r.led EXCEPT !.ref[y] = b]
  <2>0. A \in Ledger
    BY DEF Kept
  <2>1. F[i][A] = IF i \notin Used(b) THEN A
                  ELSE IF r.fee = Visited THEN r.led
                  ELSE IF Plus(R.amount[b], r.fee) >= R.amount[b] THEN Accept(R, b, r.fee) ELSE R
    BY <2>0 DEF ApplyLinks
  <2>2. CASE i \in Used(b)
    <3>1. y \in linked /\ Time[y] < Time[b]
      BY <2>2 DEF Grounded
    <3>2. r.led \in G /\ r.fee \in Nat
      <4> HIDE DEF y
      <4> QED
        BY <3>1
    <3>3. R \in G
      <4> HIDE DEF y, r
      <4> QED
        BY <3>1, <3>2 DEF Kept
    <3>4. Accept(R, b, r.fee) \in G
      <4> HIDE DEF y, r, R
      <4> QED
        BY <3>2, <3>3 DEF Kept
    <3> HIDE DEF y, r, R, F
    <3> QED
      BY <2>1, <2>2, <3>2, <3>3, <3>4
  <2> HIDE DEF y, r, R, F
  <2> QED
    BY <2>1, <2>2
<1> HIDE DEF F, M
<1>3. E \in G
  <2> HIDE DEF N
  <2> QED
    BY <1>0, <1>1, <1>2, IterateEnds
<1>4. ApplyOne(below, L, b) =
        IF b \in L.mainRef THEN [led |-> L, fee |-> Visited]
        ELSE IF Covered(E, b) THEN [led |-> Carried(E, b), fee |-> Fee[b]]
        ELSE [led |-> E, fee |-> 0]
  BY DEF ApplyOne, F, M
<1> HIDE DEF E
<1>5. Carried(E, b) \in G
  BY <1>3, CarriedKept
<1>6. Visited \in Nat /\ Fee[b] \in Nat
  BY <1>0, FeeTyped, Words DEF Visited
<1> QED
  BY <1>3, <1>4, <1>5, <1>6

LEMMA UnapplyOneKept ==
  ASSUME NEW G, Kept(G), Grounded, NEW L \in G, NEW b \in known, NEW below,
         \A A \in G, y \in linked : Time[y] < Time[b] => below[A][y] \in G
  PROVE  UnapplyOne(below, L, b) \in G
<1> DEFINE N == Len(Fields[b])
           F == UnapplyLinks(below, b)
<1>0. b \in Blocks /\ N \in Nat
  BY LinkTypes DEF Grounded
<1>1. Undo(L, b) \in G
  BY CarriedKept
<1>2. \A i \in 1 .. N : \A A \in G : F[i][A] \in G
  <2> TAKE i \in 1 .. N
  <2> TAKE A \in G
  <2> DEFINE y == Fields[b][i].to
             s == Minus(0, Fee[y])
  <2>0. A \in Ledger
    BY DEF Kept
  <2>1. F[i][A] = IF i \in Used(b) /\ A.ref[y] = b /\ y \in A.mainRef
                  THEN Accept(below[A][y], b, s) ELSE A
    BY <2>0 DEF UnapplyLinks
  <2>2. CASE i \in Used(b)
    <3>1. y \in linked /\ Time[y] < Time[b] /\ y \in Blocks
      BY <2>2 DEF Grounded
    <3>2. s \in Int
      <4> HIDE DEF y
      <4>1. 0 \in Int /\ Fee[y] \in Int
        BY <3>1, FeeTyped
      <4>2. Minus(0, Fee[y]) \in 0 .. Word - 1
        BY <4>1, Words, Zenon
      <4> QED
        BY <4>2, Words
    <3>3. Accept(below[A][y], b, s) \in G
      <4> HIDE DEF y, s
      <4> QED
        BY <3>1, <3>2 DEF Kept
    <3> HIDE DEF y, s, F
    <3> QED
      BY <2>1, <3>3
  <2> HIDE DEF y, s, F
  <2> QED
    BY <2>1, <2>2
<1> HIDE DEF F, N
<1>3. Iterate(F, Undo(L, b), N) \in G
  BY <1>0, <1>1, <1>2, IterateEnds
<1> QED
  BY <1>3 DEF UnapplyOne, F, N

LEMMA ApplyKept ==
  ASSUME NEW G, Kept(G), Grounded, NEW L \in G, NEW b \in known
  PROVE  Apply(L, b).led \in G /\ Apply(L, b).fee \in Nat
<1>0. \A x \in known : x \in Blocks /\ Time[x] \in Nat
  BY Sorts DEF Grounded
<1>1. PICK f : Levels(TRUE, Time[b], f) /\ Apply(L, b) = f[Time[b]][L][b]
  BY <1>0, ApplyIsLevels
<1> DEFINE Fine(n) == \A A \in G, x \in known :
                        Time[x] <= n => f[n][A][x].led \in G /\ f[n][A][x].fee \in Nat
           T == {n \in Nat : Fine(n)}
           N == Time[b]
<1>2. \A n \in 0 .. N, A \in G, x \in known :
        f[n][A][x] = ApplyOne(IF n = 0 THEN <<>> ELSE f[n - 1], A, x)
  <2> TAKE n \in 0 .. N, A \in G, x \in known
  <2>1. A \in Ledger /\ x \in Blocks
    BY <1>0 DEF Kept
  <2>2. f[n] = Level(TRUE, IF n = 0 THEN <<>> ELSE f[n - 1])
    BY <1>1 DEF Levels
  <2> QED
    BY <2>1, <2>2 DEF Level
<1>3. 0 \in T
  <2> SUFFICES ASSUME NEW A \in G, NEW x \in known, Time[x] <= 0
               PROVE  f[0][A][x].led \in G /\ f[0][A][x].fee \in Nat
    OBVIOUS
  <2>1. f[0][A][x] = ApplyOne(<<>>, A, x)
    BY <1>0, <1>2
  <2>2. \A y \in linked : ~(Time[y] < Time[x])
    BY <1>0 DEF Grounded
  <2> QED
    BY <2>1, <2>2, ApplyOneKept
<1>4. ASSUME NEW n \in 0 .. N - 1, n \in T PROVE n + 1 \in T
  <2>1. n + 1 \in 0 .. N /\ n + 1 # 0 /\ (n + 1) - 1 = n /\ n + 1 \in Nat
    BY <1>0
  <2> SUFFICES ASSUME NEW A \in G, NEW x \in known, Time[x] <= n + 1
               PROVE  f[n + 1][A][x].led \in G /\ f[n + 1][A][x].fee \in Nat
    BY <2>1
  <2>2. f[n + 1][A][x] = ApplyOne(f[n], A, x)
    BY <1>2, <2>1
  <2>3. \A B \in G, y \in linked :
          Time[y] < Time[x] => f[n][B][y].led \in G /\ f[n][B][y].fee \in Nat
    <3> TAKE B \in G, y \in linked
    <3>1. Time[y] < Time[x] => Time[y] <= n
      BY <1>0 DEF Grounded
    <3> QED
      BY <3>1, <1>4 DEF Grounded
  <2> QED
    BY <2>2, <2>3, ApplyOneKept
<1>5. \A n \in 0 .. N : n \in T
  <2> HIDE DEF T
  <2> QED
    BY <1>0, <1>3, <1>4, Stepping
<1> QED
  BY <1>0, <1>1, <1>5

LEMMA UnapplyKept ==
  ASSUME NEW G, Kept(G), Grounded, NEW L \in G, NEW b \in known
  PROVE  Unapply(L, b) \in G
<1>0. \A x \in known : x \in Blocks /\ Time[x] \in Nat
  BY Sorts DEF Grounded
<1>1. PICK f : Levels(FALSE, Time[b], f) /\ Unapply(L, b) = f[Time[b]][L][b]
  BY <1>0, ApplyIsLevels
<1> DEFINE Fine(n) == \A A \in G, x \in known : Time[x] <= n => f[n][A][x] \in G
           T == {n \in Nat : Fine(n)}
           N == Time[b]
<1>2. \A n \in 0 .. N, A \in G, x \in known :
        f[n][A][x] = UnapplyOne(IF n = 0 THEN <<>> ELSE f[n - 1], A, x)
  <2> TAKE n \in 0 .. N, A \in G, x \in known
  <2>1. A \in Ledger /\ x \in Blocks
    BY <1>0 DEF Kept
  <2>2. f[n] = Level(FALSE, IF n = 0 THEN <<>> ELSE f[n - 1])
    BY <1>1 DEF Levels
  <2> QED
    BY <2>1, <2>2 DEF Level
<1>3. 0 \in T
  <2> SUFFICES ASSUME NEW A \in G, NEW x \in known, Time[x] <= 0 PROVE f[0][A][x] \in G
    OBVIOUS
  <2>1. f[0][A][x] = UnapplyOne(<<>>, A, x)
    BY <1>0, <1>2
  <2>2. \A y \in linked : ~(Time[y] < Time[x])
    BY <1>0 DEF Grounded
  <2> QED
    BY <2>1, <2>2, UnapplyOneKept
<1>4. ASSUME NEW n \in 0 .. N - 1, n \in T PROVE n + 1 \in T
  <2>1. n + 1 \in 0 .. N /\ n + 1 # 0 /\ (n + 1) - 1 = n /\ n + 1 \in Nat
    BY <1>0
  <2> SUFFICES ASSUME NEW A \in G, NEW x \in known, Time[x] <= n + 1 PROVE f[n + 1][A][x] \in G
    BY <2>1
  <2>2. f[n + 1][A][x] = UnapplyOne(f[n], A, x)
    BY <1>2, <2>1
  <2>3. \A B \in G, y \in linked : Time[y] < Time[x] => f[n][B][y] \in G
    <3> TAKE B \in G, y \in linked
    <3>1. Time[y] < Time[x] => Time[y] <= n
      BY <1>0 DEF Grounded
    <3> QED
      BY <3>1, <1>4 DEF Grounded
  <2> QED
    BY <2>2, <2>3, UnapplyOneKept
<1>5. \A n \in 0 .. N : n \in T
  <2> HIDE DEF T
  <2> QED
    BY <1>0, <1>3, <1>4, Stepping
<1> QED
  BY <1>0, <1>1, <1>5
\* The number of main blocks only changes where a block becomes or stops being
\* one.
Free(G) == \A A \in G, c \in Int : [A EXCEPT !.nmain = c] \in G

LEMMA CountKept ==
  ASSUME NEW G, Kept(G), Grounded, NEW c \in Int
  PROVE  Kept({A \in G : A.nmain = c})
<1> DEFINE H == {A \in G : A.nmain = c}
<1>1. \A A \in H, x \in known, sum \in Int : Accept(A, x, sum) \in H
  <2> TAKE A \in H, x \in known, sum \in Int
  <2>1. A \in Ledger /\ x \in Blocks
    BY DEF Kept, Grounded
  <2> QED
    BY <2>1, AcceptTyped DEF Kept
<1>2. \A A \in H, x \in known :
       /\ [A EXCEPT !.mainRef = @ \cup {x}] \in H
       /\ [A EXCEPT !.mainRef = @ \ {x}] \in H
       /\ [A EXCEPT !.applied = @ \cup {x}] \in H
       /\ [A EXCEPT !.applied = @ \ {x}] \in H
       /\ [A EXCEPT !.unearned = @ \/ Fee[x] > 0] \in H
       /\ \A y \in linked : [A EXCEPT !.ref[y] = x] \in H
  <2> TAKE A \in H, x \in known
  <2>1. A \in Ledger /\ A \in G
    BY DEF Kept
  <2>2. \A f, g, h, k : /\ [A EXCEPT !.mainRef = f].nmain = A.nmain
                        /\ [A EXCEPT !.applied = g].nmain = A.nmain
                        /\ [A EXCEPT !.unearned = h].nmain = A.nmain
                        /\ [A EXCEPT !.ref = k].nmain = A.nmain
    BY <2>1 DEF Ledger
  <2> QED
    BY <2>1, <2>2 DEF Kept
<1> QED
  BY <1>1, <1>2 DEF Kept

LEMMA RewardTyped ==
  ASSUME NEW n \in Nat
  PROVE  Reward(n) \in Nat
<1> DEFINE F == [i \in 1 .. n |-> [x \in Nat |-> x \div 2]]
           N == n \div BigPeriod
<1>1. Start \in Nat /\ BigPeriod \in Nat /\ BigPeriod > 0
  BY ChainAssumption DEF ChainAssumption
<1>2. N \in Nat /\ N <= n
  BY <1>1
<1>3. \A i \in 1 .. N : \A x \in Nat : F[i][x] \in Nat
  <2>1. \A i \in 1 .. N : i \in 1 .. n
    <3> HIDE DEF N
    <3> QED
      BY <1>2
  <2>2. \A x \in Nat : x \div 2 \in Nat
    OBVIOUS
  <2> QED
    BY <2>1, <2>2
<1> HIDE DEF F
<1>4. Iterate(F, Start, N) \in Nat
  <2> HIDE DEF N
  <2> QED
    BY <1>1, <1>2, <1>3, IterateEnds
<1> QED
  BY <1>4 DEF Reward, F

LEMMA SetMainKept ==
  ASSUME NEW G, Kept(G), Free(G), Grounded, NEW L \in G, L.nmain \in Nat, NEW b \in known
  PROVE  SetMain(L, b) \in G /\ SetMain(L, b).nmain = L.nmain + 1
<1> DEFINE c == L.nmain + 1
           H == {A \in G : A.nmain = c}
           more == [L EXCEPT !.nmain = @ + 1]
           r == Apply(Accept(more, b, Reward(L.nmain)), b)
<1>1. c \in Int /\ Kept(H) /\ L \in Ledger
  <2>1. c \in Int
    OBVIOUS
  <2>2. L \in Ledger
    BY DEF Kept
  <2> HIDE DEF c
  <2>3. Kept(H)
    BY <2>1, CountKept
  <2> QED
    BY <2>1, <2>2, <2>3
<1>2. more \in H
  BY <1>1 DEF Free, Ledger
<1>3. Reward(L.nmain) \in Int
  BY RewardTyped
<1> HIDE DEF H, more
<1>4. Accept(more, b, Reward(L.nmain)) \in H
  BY <1>1, <1>2, <1>3 DEF Kept
<1>5. r.led \in H /\ r.fee \in Int
  BY <1>1, <1>4, ApplyKept
<1> HIDE DEF r
<1>6. Accept(r.led, b, r.fee) \in H
  BY <1>1, <1>5 DEF Kept
<1> QED
  BY <1>6 DEF SetMain, r, more, H

LEMMA UnsetMainKept ==
  ASSUME NEW G, Kept(G), Free(G), Grounded, NEW L \in G, L.nmain \in Nat \ {0}, NEW b \in known
  PROVE  UnsetMain(L, b) \in G /\ UnsetMain(L, b).nmain = L.nmain - 1
<1> DEFINE c == L.nmain - 1
           H == {A \in G : A.nmain = c}
           less == [L EXCEPT !.nmain = @ - 1]
           P == Minus(0, Reward(less.nmain))
           Q == Minus(0, Fee[b])
           U == Accept(less, b, P)
<1>0. b \in Blocks
  BY DEF Grounded
<1>1. c \in Nat /\ c \in Int /\ Kept(H) /\ L \in Ledger
  <2>1. c \in Nat /\ c \in Int
    OBVIOUS
  <2>2. L \in Ledger
    BY DEF Kept
  <2> HIDE DEF c
  <2>3. Kept(H)
    BY <2>1, CountKept
  <2> QED
    BY <2>1, <2>2, <2>3
<1>2. less \in H /\ less.nmain = c
  BY <1>1 DEF Free, Ledger
<1>3. P \in Int /\ Q \in Int
  <2>1. Reward(less.nmain) \in Int /\ Fee[b] \in Int /\ 0 \in Int
    BY <1>0, <1>1, <1>2, RewardTyped, FeeTyped
  <2>2. \A x \in 0 .. Word - 1 : x \in Int
    BY Words
  <2> HIDE DEF less
  <2> QED
    BY <2>1, <2>2, Words, Zenon
<1> HIDE DEF H, less, P, Q
<1>4. U \in H
  BY <1>1, <1>2, <1>3 DEF Kept
<1> HIDE DEF U
<1>5. Unapply(U, b) \in H
  BY <1>1, <1>4, UnapplyKept
<1>6. Accept(Unapply(U, b), b, Q) \in H
  BY <1>1, <1>3, <1>5 DEF Kept
<1> QED
  BY <1>6 DEF UnsetMain, less, H, P, Q, U

LEMMA FiniteParts ==
  ASSUME NEW S, S \subseteq Blocks
  PROVE  /\ IsFiniteSet(S) /\ Cardinality(S) \in Nat /\ (Cardinality(S) = 0 <=> S = {})
         /\ \A x \in S : Cardinality(S) > 0 /\ Cardinality(S \ {x}) = Cardinality(S) - 1
         /\ \A x \in Blocks \ S : Cardinality(S \cup {x}) = Cardinality(S) + 1
<1>1. IsFiniteSet(S)
  BY ChainAssumption, FS_Subset DEF ChainAssumption
<1>2. Cardinality(S) \in Nat /\ (Cardinality(S) = 0 <=> S = {})
  BY <1>1, FS_CardinalityType, FS_EmptySet
<1>3. \A x \in S : Cardinality(S \ {x}) = Cardinality(S) - 1
  BY <1>1, FS_RemoveElement
<1>4. \A x \in Blocks \ S : Cardinality(S \cup {x}) = Cardinality(S) + 1
  BY <1>1, FS_AddElement
<1> QED
  BY <1>1, <1>2, <1>3, <1>4

LEMMA NewMainKept ==
  ASSUME GraphInv, Grounded, NEW G, Kept(G), Free(G),
         ledger \in G, ledger.nmain = Cardinality(main)
  PROVE  NewMain.led \in G /\ NewMain.led.nmain = Cardinality(NewMain.main)
<1>1. CASE ~Ripe
  BY <1>1 DEF NewMain
<1>2. CASE Ripe
  <2> DEFINE x == Oldest(Waiting)
  <2>1. Waiting # {} /\ Waiting \subseteq Blocks /\ x \in chain /\ main \subseteq Blocks
    BY <1>2, NewMainFirst, WaitingOldest DEF Waiting, GraphInv, MainsFirst
  <2>2. x \in Waiting
    BY <2>1, OldestIn
  <2>3. x \in known /\ x \in Blocks /\ x \notin main
    <3>1. x \in known /\ x \in Blocks
      BY <2>1 DEF GraphInv
    <3>2. ASSUME x \in main PROVE FALSE
      <4>1. Time[x] < Time[x]
        BY <2>2, <3>2 DEF Waiting
      <4> QED
        BY <3>1, <4>1, Sorts
    <3> QED
      BY <3>1, <3>2
  <2>4. ledger.nmain \in Nat /\ Cardinality(main \cup {x}) = ledger.nmain + 1
    BY <2>1, <2>3, FiniteParts
  <2>5. NewMain.led = SetMain(ledger, x) /\ NewMain.main = main \cup {x}
    BY <1>2 DEF NewMain
  <2> HIDE DEF x
  <2> QED
    BY <2>3, <2>4, <2>5, SetMainKept
<1> QED
  BY <1>1, <1>2

LEMMA UnwindKept ==
  ASSUME GraphInv, Grounded, NEW G, Kept(G), Free(G),
         NEW M, M.main \subseteq chain, M.led \in G, M.led.nmain = Cardinality(M.main),
         NEW stop, NEW away, away = Away(stop)
  PROVE  Unwind(M, away) \in G /\ Unwind(M, away).nmain = Cardinality(M.main \ away)
<1> DEFINE N == Cardinality(away)
           W == Path(node, top)
           States == [led : Ledger, t : BlockOrNone]
           F == [i \in 1 .. N |-> [S \in States |->
                  [led |-> IF S.t \in M.main THEN UnsetMain(S.led, S.t) ELSE S.led,
                   t |-> node.parent[S.t]]]]
           x0 == [led |-> M.led, t |-> top]
           Fine(S, n) ==
             /\ S \in States /\ S.led \in G /\ S.t \in known \cup {None}
             /\ W \subseteq away \cup Path(node, S.t) /\ Path(node, S.t) \subseteq W
             /\ Cardinality(away \cap Path(node, S.t)) = N - n
             /\ S.led.nmain = Cardinality(M.main \cap Path(node, S.t))
           T == {n \in Nat : Fine(Iterate(F, x0, n), n)}
<1>0. /\ known \subseteq Blocks /\ W \subseteq known /\ away \subseteq W /\ M.main \subseteq W
      /\ Tree(node, known) /\ top \in known \cup {None} /\ N \in Nat /\ G \subseteq Ledger
  <2>1. W \subseteq known /\ away \subseteq W /\ known \subseteq Blocks
    BY TopDescends DEF Away, GraphInv
  <2> QED
    BY <2>1, FiniteParts DEF GraphInv, OnPath, Kept
<1>1. 0 \in T
  <2>1. away \cap W = away /\ M.main \cap W = M.main /\ x0 \in States
    BY <1>0 DEF BlockOrNone
  <2>2. Fine(x0, 0)
    <3>1. x0.led = M.led /\ x0.t = top
      OBVIOUS
    <3>2. Cardinality(away \cap W) = N - 0
      <4> HIDE DEF W, N
      <4>1. Cardinality(away \cap W) = N /\ N \in Nat
        BY <1>0, <2>1 DEF N
      <4> HIDE DEF N
      <4> QED
        BY <4>1
    <3>3. x0.led.nmain = Cardinality(M.main \cap W) /\ W \subseteq away \cup W
      <4> HIDE DEF W, N
      <4> QED
        BY <2>1, <3>1
    <3> HIDE DEF x0, N
    <3> QED
      BY <1>0, <2>1, <3>1, <3>2, <3>3
  <2> HIDE DEF F, x0, Fine
  <2> QED
    BY <2>2, IterateSteps
<1>2. ASSUME NEW n \in 0 .. N - 1, n \in T PROVE n + 1 \in T
  <2> DEFINE S == Iterate(F, x0, n)
             R == Iterate(F, x0, n + 1)
             t == S.t
             p == node.parent[t]
  <2>0. N \in Nat /\ n \in Nat /\ n + 1 \in Nat /\ n + 1 \in 1 .. N
    <3>1. N \in Nat
      BY <1>0
    <3> HIDE DEF N
    <3> QED
      BY <3>1
  <2>1. Fine(S, n)
    <3> HIDE DEF F, x0, Fine
    <3> QED
      BY <1>2
  <2>2. R = F[n + 1][S]
    <3>1. n \in Nat
      BY <2>0
    <3> HIDE DEF F, x0
    <3> QED
      BY <3>1, IterateSteps
  <2>3. F[n + 1][S] = [led |-> IF t \in M.main THEN UnsetMain(S.led, t) ELSE S.led, t |-> p]
    <3> HIDE DEF S, N
    <3> QED
      BY <2>0, <2>1
  <2> HIDE DEF F, S, R, W, N
  <2>4. PICK y \in away : y \in Path(node, t)
    <3>1. away \cap Path(node, t) \subseteq Blocks /\ Cardinality(away \cap Path(node, t)) = N - n
      BY <2>1, <1>0
    <3>2. N - n # 0
      BY <2>0
    <3>3. away \cap Path(node, t) # {}
      BY <3>1, <3>2, FiniteParts
    <3> QED
      BY <3>3
  <2>5. t \in known /\ t \in Blocks /\ t \in W /\ Descends(node, known, t)
    <3>1. t # None
      BY <2>4 DEF Path
    <3>2. t \in known /\ Descends(node, known, t)
      BY <3>1, <2>1, <1>0, PathDescends
    <3> QED
      BY <3>2, <2>1, <1>0 DEF Descends
  <2>6. t \in away
    <3>1. Time[y] <= Time[t]
      BY <2>4, <2>5, <1>0, Sorts DEF Descends
    <3>2. stop \in W => Time[stop] < Time[y]
      BY <2>4 DEF Away, W
    <3>3. stop \in W => Time[stop] < Time[t]
      BY <3>1, <3>2, <2>4, <2>5, <1>0, Sorts
    <3> QED
      BY <3>3, <2>5 DEF Away, W
  <2>7. /\ p \in known \cup {None} /\ Path(node, t) = {t} \cup Path(node, p)
        /\ t \notin Path(node, p)
    <3>1. p \in BlockOrNone /\ (p # None => p \in known /\ Time[p] < Time[t])
      BY <2>5, <1>0 DEF Tree
    <3>2. Path(node, t) = {t} \cup Path(node, p)
      BY <2>5, <1>0, PathStep
    <3>3. CASE p = None
      BY <3>2, <3>3 DEF Path
    <3>4. CASE p # None
      <4>1. Descends(node, known, p) /\ p \in Blocks
        BY <3>1, <3>4, <1>0, PathDescends
      <4>2. \A z \in Path(node, p) : z = p \/ Time[z] < Time[p]
        BY <4>1 DEF Descends
      <4>3. Time[t] \in Nat /\ Time[p] \in Nat
        BY <4>1, <2>5, Sorts
      <4>4. t \notin Path(node, p)
        BY <3>1, <3>4, <4>2, <4>3
      <4> QED
        BY <3>1, <3>2, <3>4, <4>4
    <3> QED
      BY <3>3, <3>4
  <2> HIDE DEF p
  <2>8. /\ away \cap Path(node, p) = (away \cap Path(node, t)) \ {t}
        /\ t \in M.main => M.main \cap Path(node, p) = (M.main \cap Path(node, t)) \ {t}
        /\ t \notin M.main => M.main \cap Path(node, p) = M.main \cap Path(node, t)
        /\ W \subseteq away \cup Path(node, p) /\ Path(node, p) \subseteq W
    BY <2>1, <2>6, <2>7
  <2>9. Cardinality(away \cap Path(node, p)) = N - (n + 1)
    <3>1. away \cap Path(node, t) \subseteq Blocks /\ t \in away \cap Path(node, t)
      BY <2>6, <2>7, <1>0
    <3>2. Cardinality((away \cap Path(node, t)) \ {t}) = (N - n) - 1
      BY <2>1, <3>1, FiniteParts
    <3>3. (N - n) - 1 = N - (n + 1)
      BY <2>0
    <3> QED
      BY <2>8, <3>2, <3>3
  <2>10. R.led \in G /\ R.t = p /\ R \in [led : {R.led}, t : {R.t}]
         /\ R.led.nmain = Cardinality(M.main \cap Path(node, p))
    <3>0. M.main \cap Path(node, t) \subseteq Blocks
      BY <1>0
    <3>1. CASE t \in M.main
      <4>1. R = [led |-> UnsetMain(S.led, t), t |-> p]
        BY <2>2, <2>3, <3>1
      <4>2. S.led.nmain \in Nat \ {0} /\ S.led \in G
            /\ Cardinality(M.main \cap Path(node, p)) = S.led.nmain - 1
        <5>1. t \in M.main \cap Path(node, t)
          BY <3>1, <2>7
        <5> QED
          BY <3>0, <5>1, <2>1, <2>8, <3>1, FiniteParts
      <4>3. UnsetMain(S.led, t) \in G /\ UnsetMain(S.led, t).nmain = S.led.nmain - 1
        BY <4>2, <2>5, UnsetMainKept
      <4> QED
        BY <4>1, <4>2, <4>3
    <3>2. CASE t \notin M.main
      <4>1. R = [led |-> S.led, t |-> p]
        BY <2>2, <2>3, <3>2
      <4> QED
        BY <4>1, <2>1, <2>8, <3>2
    <3> QED
      BY <3>1, <3>2
  <2>11. R \in States
    BY <2>7, <2>10, <1>0 DEF BlockOrNone
  <2>12. Fine(R, n + 1)
    BY <2>7, <2>8, <2>9, <2>10, <2>11
  <2> QED
    BY <2>12, <2>0 DEF R
<1>3. \A n \in 0 .. N : n \in T
  <2> HIDE DEF T, N
  <2> QED
    BY <1>0, <1>1, <1>2, Stepping
<1> DEFINE E == Iterate(F, x0, N)
<1>4. Fine(E, N)
  <2>1. N \in 0 .. N
    BY <1>0
  <2> HIDE DEF Fine, N, F, x0
  <2> QED
    BY <2>1, <1>3
<1> HIDE DEF E
<1>5. away \cap Path(node, E.t) = {}
  <2>1. away \cap Path(node, E.t) \subseteq Blocks /\ Cardinality(away \cap Path(node, E.t)) = 0
    BY <1>0, <1>4
  <2> QED
    BY <2>1, FiniteParts
<1>6. M.main \cap Path(node, E.t) = M.main \ away
  BY <1>0, <1>4, <1>5
<1>7. Unwind(M, away) = E.led
  BY DEF Unwind, E, F, x0, N
<1> QED
  BY <1>4, <1>6, <1>7
-----------------------------------------------------------------------------
(* The list of unlinked blocks *)

\* s lists the n members of U in the order of the pointers r, from first to last.
Strung(U, r, first, last, n, s) ==
  /\ s \in [1 .. n -> U] /\ \A x \in U : \E i \in 1 .. n : s[i] = x
  /\ \A i, j \in 1 .. n : s[i] = s[j] => i = j
  /\ IF n = 0 THEN first = None /\ last = None ELSE first = s[1] /\ last = s[n]
  /\ \A i \in 1 .. n : r[s[i]] = IF i = n THEN None ELSE s[i + 1]

Shorter(s, n, k) == [i \in 1 .. n - 1 |-> IF i < k THEN s[i] ELSE s[i + 1]]
Longer(s, n, b) == [i \in 1 .. n + 1 |-> IF i = n + 1 THEN b ELSE s[i]]

LEMMA StringBefore ==
  ASSUME NEW U, U \subseteq Blocks, NEW r, NEW first, NEW last,
         NEW n \in Nat, NEW s, Strung(U, r, first, last, n, s), NEW b \in U, first # b
  PROVE  \E x \in U : r[x] = b
<1>1. PICK k \in 1 .. n : s[k] = b
  BY DEF Strung
<1>2. k # 1
  BY <1>1 DEF Strung
<1>3. k - 1 \in 1 .. n /\ k - 1 # n /\ (k - 1) + 1 = k
  BY <1>2
<1>4. s[k - 1] \in U /\ r[s[k - 1]] = s[k]
  BY <1>3 DEF Strung
<1> QED
  BY <1>1, <1>4

LEMMA StringShortens ==
  ASSUME NEW U, U \subseteq Blocks, NEW r \in [Blocks -> BlockOrNone], NEW first, NEW last,
         NEW n \in Nat, NEW s, Strung(U, r, first, last, n, s), NEW b \in U,
         NEW p, IF first = b THEN p = None ELSE p \in U /\ r[p] = b
  PROVE  \E m, t :
              m \in Nat /\ Strung(U \ {b}, IF p = None THEN r ELSE [r EXCEPT ![p] = r[b]],
                     IF p = None THEN r[b] ELSE first, IF last = b THEN p ELSE last, m, t)
<1>0. None \notin U
  BY Sorts
<1>1. PICK k \in 1 .. n : s[k] = b
  BY DEF Strung
<1>2. n > 0 /\ n - 1 \in Nat /\ first = s[1] /\ last = s[n]
  BY <1>1 DEF Strung
<1>3. \A i, j \in 1 .. n : s[i] = s[j] => i = j
  BY DEF Strung
<1>4. first = b <=> k = 1
  BY <1>1, <1>2, <1>3
<1>5. p = IF k = 1 THEN None ELSE s[k - 1]
  <2>1. CASE k = 1
    BY <1>4, <2>1
  <2>2. CASE k # 1
    <3>1. k - 1 \in 1 .. n /\ (k - 1) + 1 = k /\ k - 1 # n
      BY <2>2
    <3>3. PICK i \in 1 .. n : s[i] = p
      BY <1>4, <2>2 DEF Strung
    <3>4. i # n /\ s[i + 1] = b
      BY <1>0, <1>4, <2>2, <3>3 DEF Strung
    <3>5. i + 1 = k
      BY <3>4, <1>1, <1>3
    <3> QED
      BY <2>2, <3>3, <3>5
  <2> QED
    BY <2>1, <2>2
<1> DEFINE t == Shorter(s, n, k)
           q == IF p = None THEN r ELSE [r EXCEPT ![p] = r[b]]
           f == IF p = None THEN r[b] ELSE first
           l == IF last = b THEN p ELSE last
<1>6. k # 1 => k - 1 \in 1 .. n /\ p \in U /\ p # None /\ p \in Blocks
  <2>1. k # 1 => k - 1 \in 1 .. n
    OBVIOUS
  <2>2. \A i \in 1 .. n : s[i] \in U
    BY DEF Strung
  <2> QED
    BY <1>0, <1>5, <2>1, <2>2
<1>7. r[b] = IF k = n THEN None ELSE s[k + 1]
  BY <1>1 DEF Strung
<1>8. \A i \in 1 .. n - 1 : t[i] = IF i < k THEN s[i] ELSE s[i + 1]
  BY DEF Shorter
<1>9. t \in [1 .. n - 1 -> U \ {b}]
  <2>1. \A i \in 1 .. n - 1 : (IF i < k THEN s[i] ELSE s[i + 1]) \in U \ {b}
    <3> TAKE i \in 1 .. n - 1
    <3>1. i \in 1 .. n /\ i + 1 \in 1 .. n /\ (i < k => i # k) /\ (~(i < k) => i + 1 # k)
      OBVIOUS
    <3>2. s[i] \in U /\ s[i + 1] \in U /\ (i < k => s[i] # b) /\ (~(i < k) => s[i + 1] # b)
      BY <1>1, <1>3, <3>1 DEF Strung
    <3> QED
      BY <3>2
  <2> QED
    BY <2>1 DEF Shorter
<1>10. \A x \in U \ {b} : \E i \in 1 .. n - 1 : t[i] = x
  <2> TAKE x \in U \ {b}
  <2>1. PICK i \in 1 .. n : s[i] = x
    BY DEF Strung
  <2>2. CASE i < k
    <3>1. i \in 1 .. n - 1
      BY <2>2
    <3> HIDE DEF t
    <3> QED
      BY <1>8, <2>1, <2>2, <3>1
  <2>3. CASE i > k
    <3>1. i - 1 \in 1 .. n - 1 /\ ~(i - 1 < k) /\ (i - 1) + 1 = i
      BY <2>3
    <3> HIDE DEF t
    <3> QED
      BY <1>8, <2>1, <3>1
  <2>4. i # k
    BY <1>1, <2>1
  <2> QED
    BY <2>2, <2>3, <2>4
<1> HIDE DEF t
<1>11. \A i, j \in 1 .. n - 1 : t[i] = t[j] => i = j
  <2> TAKE i, j \in 1 .. n - 1
  <2> DEFINE u == IF i < k THEN i ELSE i + 1
             v == IF j < k THEN j ELSE j + 1
  <2>1. u \in 1 .. n /\ v \in 1 .. n /\ (u = v => i = j)
    OBVIOUS
  <2>2. t[i] = s[u] /\ t[j] = s[v]
    BY <1>8
  <2> HIDE DEF u, v
  <2> QED
    BY <1>3, <2>1, <2>2
<1>12. \A i \in 1 .. n - 1 : q[t[i]] = IF i = n - 1 THEN None ELSE t[i + 1]
  <2> TAKE i \in 1 .. n - 1
  <2> DEFINE u == IF i < k THEN i ELSE i + 1
  <2>1. u \in 1 .. n /\ t[i] = s[u] /\ u # k /\ s[u] \in Blocks
    BY <1>8 DEF Strung
  <2>2. r[s[u]] = IF u = n THEN None ELSE s[u + 1]
    BY <2>1 DEF Strung
  <2>3. CASE i = k - 1
    <3>1. k # 1 /\ u = k - 1 /\ s[u] = p
      <4>1. k # 1 /\ i < k /\ u = i
        BY <2>3
      <4> HIDE DEF u
      <4> QED
        BY <1>5, <2>3, <4>1
    <3>2. q[s[u]] = r[b]
      BY <1>6, <3>1
    <3>3. i # n - 1 => t[i + 1] = s[k + 1]
      <4>1. i # n - 1 => i + 1 \in 1 .. n - 1 /\ ~(i + 1 < k) /\ i + 1 + 1 = k + 1
        BY <2>3
      <4> QED
        BY <4>1, <1>8
    <3>4. i = n - 1 <=> k = n
      BY <2>3
    <3> QED
      BY <1>7, <2>1, <3>2, <3>3, <3>4
  <2>4. CASE i # k - 1
    <3>1. s[u] # p
      <4>1. k # 1 => k - 1 \in 1 .. n /\ u # k - 1
        BY <2>4
      <4>2. k = 1 => p = None
        BY <1>5
      <4> QED
        BY <1>3, <1>5, <2>1, <4>1, <4>2, Sorts
    <3>2. q[s[u]] = r[s[u]]
      BY <2>1, <3>1
    <3>3. i = n - 1 <=> u = n
      BY <2>4
    <3>4. i # n - 1 => t[i + 1] = s[u + 1]
      <4>1. i # n - 1 => i + 1 \in 1 .. n - 1
        OBVIOUS
      <4>2. i < k => i + 1 < k
        BY <2>4
      <4> QED
        BY <1>8, <4>1, <4>2
    <3> HIDE DEF u, q
    <3> QED
      BY <2>1, <2>2, <3>2, <3>3, <3>4
  <2> QED
    BY <2>3, <2>4
<1>13. IF n - 1 = 0 THEN f = None /\ l = None ELSE f = t[1] /\ l = t[n - 1]
  <2>1. CASE n = 1
    <3>1. k = 1 /\ k = n
      BY <2>1
    <3> QED
      BY <1>1, <1>2, <1>5, <1>7, <2>1, <3>1
  <2>2. CASE n > 1
    <3>1. 1 \in 1 .. n - 1 /\ n - 1 \in 1 .. n - 1 /\ n - 1 + 1 = n
      BY <2>2
    <3>2. t[1] = (IF 1 < k THEN s[1] ELSE s[2]) /\ t[n - 1] = IF n - 1 < k THEN s[n - 1] ELSE s[n]
      BY <1>8, <3>1
    <3>3. f = t[1]
      BY <1>2, <1>5, <1>6, <1>7, <2>2, <3>2
    <3>4. l = t[n - 1]
      <4>1. CASE k = n
        <5>0. k # 1
          BY <2>2, <4>1
        <5>1. last = b /\ p = s[n - 1]
          BY <1>1, <1>2, <1>5, <4>1, <5>0
        <5>2. n - 1 < k
          BY <4>1
        <5> QED
          BY <3>2, <5>1, <5>2
      <4>2. CASE k # n
        <5>1. last # b /\ ~(n - 1 < k)
          BY <1>1, <1>2, <1>3, <4>2
        <5> QED
          BY <1>2, <3>2, <5>1
      <4> QED
        BY <4>1, <4>2
    <3> QED
      BY <2>2, <3>3, <3>4
  <2> QED
    BY <1>2, <2>1, <2>2
<1>14. Strung(U \ {b}, q, f, l, n - 1, t)
  <2> HIDE DEF q, f, l
  <2> QED
    BY <1>9, <1>10, <1>11, <1>12, <1>13 DEF Strung
<1> QED
  BY <1>2, <1>14

LEMMA StringLengthens ==
  ASSUME NEW U, U \subseteq Blocks, NEW r \in [Blocks -> BlockOrNone], NEW first, NEW last,
         NEW n \in Nat, NEW s, Strung(U, r, first, last, n, s), NEW b \in Blocks \ U, r[b] = None
  PROVE  /\ last = None <=> n = 0
         /\ last \in U \cup {None}
         /\ Strung(U \cup {b}, IF last = None THEN r ELSE [r EXCEPT ![last] = b],
                   IF last = None THEN b ELSE first, b, n + 1, Longer(s, n, b))
<1> DEFINE t == Longer(s, n, b)
           q == IF last = None THEN r ELSE [r EXCEPT ![last] = b]
           f == IF last = None THEN b ELSE first
<1>0. None \notin U
  BY Sorts
<1>1. last = None <=> n = 0
  BY <1>0 DEF Strung
<1>2. last \in U \cup {None}
  BY DEF Strung
<1>3. t \in [1 .. n + 1 -> U \cup {b}]
  <2>1. \A i \in 1 .. n + 1 : i # n + 1 => i \in 1 .. n
    OBVIOUS
  <2> QED
    BY <2>1 DEF Longer, Strung
<1>4. n + 1 \in 1 .. n + 1 /\ t[n + 1] = b /\ \A i \in 1 .. n : i \in 1 .. n + 1 /\ t[i] = s[i]
  BY DEF Longer
<1> HIDE DEF t
<1>5. \A x \in U \cup {b} : \E i \in 1 .. n + 1 : t[i] = x
  BY <1>4 DEF Strung
<1>6. \A i, j \in 1 .. n + 1 : t[i] = t[j] => i = j
  <2> TAKE i, j \in 1 .. n + 1
  <2>1. (i \in 1 .. n \/ i = n + 1) /\ (j \in 1 .. n \/ j = n + 1)
    OBVIOUS
  <2>2. \A h \in 1 .. n : s[h] # b
    BY DEF Strung
  <2> QED
    BY <1>4, <2>1, <2>2 DEF Strung
<1>7. \A i \in 1 .. n + 1 : q[t[i]] = IF i = n + 1 THEN None ELSE t[i + 1]
  <2> TAKE i \in 1 .. n + 1
  <2>1. CASE i = n + 1
    <3>1. b # last
      BY <1>2, Sorts
    <3> QED
      BY <1>4, <2>1, <3>1
  <2>2. CASE i = n
    <3>1. n \in 1 .. n /\ n # 0 /\ last = s[n] /\ last \in Blocks /\ last # None
      BY <1>1, <1>2, <2>2 DEF Strung
    <3>2. q[last] = b
      BY <3>1
    <3> QED
      BY <1>4, <2>2, <3>1, <3>2
  <2>3. CASE i \in 1 .. n - 1
    <3>1. i \in 1 .. n /\ i + 1 \in 1 .. n /\ n \in 1 .. n /\ i # n /\ n # 0 /\ i # n + 1
      BY <2>3
    <3>2. s[i] # last /\ s[i] \in Blocks /\ r[s[i]] = s[i + 1]
      BY <3>1 DEF Strung
    <3>3. q[s[i]] = s[i + 1]
      BY <3>2
    <3> HIDE DEF q
    <3> QED
      BY <1>4, <3>1, <3>3
  <2> QED
    BY <2>1, <2>2, <2>3
<1>8. f = t[1] /\ b = t[n + 1]
  <2>1. CASE n = 0
    BY <1>1, <1>4, <2>1
  <2>2. CASE n # 0
    <3>1. 1 \in 1 .. n /\ first = s[1]
      BY <2>2 DEF Strung
    <3> QED
      BY <1>1, <1>4, <2>2, <3>1
  <2> QED
    BY <2>1, <2>2
<1>9. Strung(U \cup {b}, q, f, b, n + 1, t)
  <2>1. n + 1 # 0
    OBVIOUS
  <2> HIDE DEF q, f
  <2> QED
    BY <1>3, <1>5, <1>6, <1>7, <1>8, <2>1 DEF Strung
<1> QED
  BY <1>1, <1>2, <1>9 DEF t

LEMMA WalkIs ==
  ASSUME NEW U, NEW r, NEW first, NEW last, NEW n \in Nat, NEW s,
         Strung(U, r, first, last, n, s)
  PROVE  /\ Cardinality(U) = n
         /\ Walk(r, first, n) = s /\ ToSet(s) = U
<1> DEFINE Follows(f) == f = [i \in 1 .. n |-> IF i = 1 THEN first ELSE r[f[i - 1]]]
<1>1. Cardinality(U) = n
  <2>1. s \in Bijection(1 .. n, U)
    BY DEF Strung, Bijection, Injection, Surjection, IsInjective
  <2>2. ExistsBijection(1 .. n, U)
    BY <2>1 DEF ExistsBijection
  <2> QED
    BY <2>2, FS_CountingElements
<1>2. Follows(s)
  <2>1. \A i \in 1 .. n : s[i] = IF i = 1 THEN first ELSE r[s[i - 1]]
    <3> TAKE i \in 1 .. n
    <3>1. i # 1 => i - 1 \in 1 .. n /\ i - 1 # n /\ (i - 1) + 1 = i
      OBVIOUS
    <3>2. n # 0
      OBVIOUS
    <3> QED
      BY <3>1, <3>2 DEF Strung
  <2>2. s = [i \in 1 .. n |-> s[i]]
    BY DEF Strung
  <2> QED
    BY <2>1, <2>2
<1>3. ASSUME NEW f, Follows(f) PROVE f = s
  <2> DEFINE T == {i \in Nat : i \in 1 .. n => f[i] = s[i]}
  <2>1. 0 \in T
    OBVIOUS
  <2>2. ASSUME NEW i \in 0 .. n - 1, i \in T PROVE i + 1 \in T
    <3>1. i + 1 \in 1 .. n /\ (i + 1) - 1 = i /\ i + 1 \in Nat /\ (i + 1 # 1 => i \in 1 .. n)
      OBVIOUS
    <3>2. f[i + 1] = (IF i + 1 = 1 THEN first ELSE r[f[i]])
          /\ s[i + 1] = (IF i + 1 = 1 THEN first ELSE r[s[i]])
      BY <1>2, <1>3, <3>1
    <3> QED
      BY <2>2, <3>1, <3>2
  <2>3. \A i \in 0 .. n : i \in T
    <3> HIDE DEF T
    <3> QED
      BY <2>1, <2>2, Stepping
  <2>4. \A i \in 1 .. n : f[i] = s[i]
    BY <2>3
  <2>5. f = [i \in 1 .. n |-> f[i]] /\ s = [i \in 1 .. n |-> s[i]]
    BY <1>3 DEF Strung
  <2> QED
    BY <2>4, <2>5
<1>4. Walk(r, first, n) = CHOOSE f : Follows(f)
  BY DEF Walk
<1>5. ToSet(s) = U
  BY DEF ToSet, Strung
<1> HIDE DEF Follows
<1> QED
  BY <1>1, <1>2, <1>3, <1>4, <1>5

\* The list of unlinked blocks, as UnlistLinks and Enlist carry it along.
Queue(K, S) ==
  /\ S \in Lists /\ S.linked \subseteq K
  /\ \A x \in Blocks \ K : S.led.ref[x] = None
  /\ \E n, s :
       n \in Nat /\ Strung(K \ S.linked, S.led.ref, S.norefs.first, S.norefs.last, n, s)

\* A is L with other pointers of that list.
Repointed(A, L) == \E r \in [Blocks -> BlockOrNone] : A = [L EXCEPT !.ref = r]

LEMMA RefTyped ==
  ASSUME NEW L \in Ledger, NEW r \in [Blocks -> BlockOrNone]
  PROVE  /\ [L EXCEPT !.ref = r] \in Ledger /\ [L EXCEPT !.ref = r].ref = r
         /\ \A q : [[L EXCEPT !.ref = r] EXCEPT !.ref = q] = [L EXCEPT !.ref = q]
         /\ L = [L EXCEPT !.ref = L.ref]
         /\ \A M : M = [L EXCEPT !.ref = r] => M = [L EXCEPT !.ref = M.ref]
<1>1. [L EXCEPT !.ref = r] \in Ledger /\ [L EXCEPT !.ref = r].ref = r
  BY DEF Ledger
<1>2. \A q : [[L EXCEPT !.ref = r] EXCEPT !.ref = q] = [L EXCEPT !.ref = q]
  BY DEF Ledger
<1>3. L = [L EXCEPT !.ref = L.ref]
  BY DEF Ledger
<1> QED
  BY <1>1, <1>2, <1>3

LEMMA UnlistQueue ==
  ASSUME known \subseteq Blocks, NEW S, Queue(known, S), NEW y \in known \ S.linked
  PROVE  /\ Queue(known, Unlist(S, y)) /\ Unlist(S, y).linked = S.linked \cup {y}
         /\ Repointed(Unlist(S, y).led, S.led)
<1> DEFINE U == known \ S.linked
           r == S.led.ref
           p == Before(S, y)
           q == IF p = None THEN r ELSE [r EXCEPT ![p] = r[y]]
           E == Unlist(S, y)
<1>1. /\ S.led \in Ledger /\ r \in [Blocks -> BlockOrNone] /\ U \subseteq Blocks /\ y \in U
      /\ S.linked \subseteq known /\ y \in Blocks
      /\ S.norefs \in [first : BlockOrNone, last : BlockOrNone]
  BY DEF Queue, Lists, Ledger
<1>2. PICK n, s : n \in Nat /\ Strung(U, r, S.norefs.first, S.norefs.last, n, s)
  BY DEF Queue
<1>3. p = IF S.norefs.first = y THEN None ELSE CHOOSE x \in U : r[x] = y
  BY DEF Before
<1> HIDE DEF U, p
<1>4. /\ p \in U \cup {None}
      /\ \E m, t :
           m \in Nat /\ Strung(U \ {y}, q, IF p = None THEN r[y] ELSE S.norefs.first,
                  IF S.norefs.last = y THEN p ELSE S.norefs.last, m, t)
  <2> DEFINE first == S.norefs.first
             last == S.norefs.last
  <2> HIDE DEF r, first, last
  <2>1. U \subseteq Blocks /\ r \in [Blocks -> BlockOrNone] /\ y \in U
    BY <1>1
  <2>2. n \in Nat /\ Strung(U, r, first, last, n, s)
    BY <1>2 DEF first, last
  <2>3. first # y => \E x \in U : r[x] = y
    BY <2>1, <2>2, StringBefore
  <2>4. IF first = y THEN p = None ELSE p \in U /\ r[p] = y
    BY <1>3, <2>3 DEF first
  <2>5. \E m, t :
             m \in Nat /\ Strung(U \ {y}, IF p = None THEN r ELSE [r EXCEPT ![p] = r[y]],
                    IF p = None THEN r[y] ELSE first, IF last = y THEN p ELSE last, m, t)
    BY <2>1, <2>2, <2>4, StringShortens
  <2> QED
    BY <2>4, <2>5 DEF first, last
<1>5. q \in [Blocks -> BlockOrNone] /\ \A x \in Blocks \ U : q[x] = r[x]
  BY <1>1, <1>4, Sorts
<1>6. /\ E.linked = S.linked \cup {y}
      /\ E.led = [S.led EXCEPT !.ref = q]
      /\ E.norefs = [first |-> IF p = None THEN r[y] ELSE S.norefs.first,
                     last |-> IF S.norefs.last = y THEN p ELSE S.norefs.last]
      /\ E = [linked |-> E.linked, led |-> E.led, norefs |-> E.norefs]
  <2>1. S.led = [S.led EXCEPT !.ref = r]
    BY <1>1, RefTyped
  <2>2. [S.led EXCEPT !.ref[p] = S.led.ref[y]] = [S.led EXCEPT !.ref = [r EXCEPT ![p] = r[y]]]
    OBVIOUS
  <2> QED
    BY <2>1, <2>2 DEF Unlist, p
<1> HIDE DEF E
<1>7. E.led \in Ledger /\ E.led.ref = q
  <2>1. S.led \in Ledger /\ q \in [Blocks -> BlockOrNone]
    BY <1>1, <1>5
  <2> HIDE DEF q
  <2>2. [S.led EXCEPT !.ref = q] \in Ledger /\ [S.led EXCEPT !.ref = q].ref = q
    BY <2>1, RefTyped
  <2> QED
    BY <2>2, <1>6
<1>8. E \in Lists
  <2>1. E.linked \in SUBSET Blocks
    BY <1>1, <1>6
  <2>2. E.norefs \in [first : BlockOrNone, last : BlockOrNone]
    BY <1>1, <1>4, <1>6 DEF BlockOrNone
  <2> QED
    BY <1>6, <1>7, <2>1, <2>2 DEF Lists
<1>9. known \ E.linked = U \ {y} /\ E.linked \subseteq known
  BY <1>1, <1>6 DEF U
<1>10. \A x \in Blocks \ known : E.led.ref[x] = None
  BY <1>5, <1>7 DEF Queue, U
<1>11. \E n1, s1 :
         n1 \in Nat /\ Strung(known \ E.linked, E.led.ref, E.norefs.first, E.norefs.last, n1, s1)
  <2>1. E.norefs.first = (IF p = None THEN r[y] ELSE S.norefs.first)
        /\ E.norefs.last = (IF S.norefs.last = y THEN p ELSE S.norefs.last)
    BY <1>6
  <2> HIDE DEF q
  <2> QED
    BY <1>4, <1>7, <1>9, <2>1
<1>12. Queue(known, E)
  BY <1>8, <1>9, <1>10, <1>11 DEF Queue
<1> QED
  BY <1>5, <1>6, <1>12 DEF E, Repointed

LEMMA UnlistLinksQueue ==
  ASSUME known \subseteq Blocks, NEW b \in Blocks, LinksDown(b), NEW L,
         Queue(known, [linked |-> linked, led |-> L, norefs |-> norefs])
  PROVE  LET E == UnlistLinks(L, b)
         IN /\ Queue(known, E) /\ E.linked = linked \cup {Fields[b][i].to : i \in Used(b)}
            /\ Repointed(E.led, L)
<1> DEFINE N == Len(Fields[b])
           F == [i \in 1 .. N |-> [S \in Lists |->
                  IF i \notin Used(b) \/ Fields[b][i].to \in S.linked THEN S
                  ELSE Unlist(S, Fields[b][i].to)]]
           x0 == [linked |-> linked, led |-> L, norefs |-> norefs]
           Gone(n) == {Fields[b][i].to : i \in {j \in Used(b) : j <= n}}
           Fine(S, n) ==
             /\ Queue(known, S) /\ S.linked = linked \cup Gone(n)
             /\ Repointed(S.led, L)
           T == {n \in Nat : Fine(Iterate(F, x0, n), n)}
<1>0. N \in Nat /\ Used(b) \subseteq 1 .. N
  BY LinkTypes
<1>1. L \in Ledger
  BY DEF Queue, Lists
<1>2. 0 \in T
  <2>1. Gone(0) = {}
    BY <1>0
  <2>2. L = [L EXCEPT !.ref = L.ref] /\ L.ref \in [Blocks -> BlockOrNone]
    BY <1>1, RefTyped DEF Ledger
  <2>3. x0.linked = linked /\ x0.led = L /\ Queue(known, x0)
    OBVIOUS
  <2> HIDE DEF x0
  <2>4. Fine(x0, 0)
    <3> HIDE DEF Gone
    <3> QED
      BY <2>1, <2>2, <2>3 DEF Repointed
  <2> HIDE DEF F, Fine
  <2> QED
    BY <2>4, IterateSteps
<1>3. ASSUME NEW n \in 0 .. N - 1, n \in T PROVE n + 1 \in T
  <2> DEFINE S == Iterate(F, x0, n)
             R == Iterate(F, x0, n + 1)
             y == Fields[b][n + 1].to
  <2>0. n \in Nat /\ n + 1 \in Nat /\ n + 1 \in 1 .. N
    <3>1. N \in Nat
      BY <1>0
    <3> HIDE DEF N
    <3> QED
      BY <3>1
  <2>1. Fine(S, n)
    <3> HIDE DEF F, x0, Fine
    <3> QED
      BY <1>3
  <2>2. R = F[n + 1][S]
    <3>1. n \in Nat
      BY <2>0
    <3> HIDE DEF F, x0
    <3> QED
      BY <3>1, IterateSteps
  <2>3. F[n + 1][S] = IF n + 1 \notin Used(b) \/ y \in S.linked THEN S ELSE Unlist(S, y)
    <3>1. S \in Lists
      BY <2>1 DEF Queue
    <3> HIDE DEF S, N
    <3> QED
      BY <2>0, <3>1
  <2> HIDE DEF F, S, R, N
  <2>4. Gone(n + 1) = IF n + 1 \in Used(b) THEN Gone(n) \cup {y} ELSE Gone(n)
    <3>1. \A j \in Used(b) : j <= n + 1 <=> j <= n \/ j = n + 1
      BY <2>0, <1>0
    <3> QED
      BY <3>1, <2>0
  <2> HIDE DEF Gone
  <2>5. Fine(R, n + 1)
    <3>1. CASE n + 1 \notin Used(b) \/ y \in S.linked
      <4>1. S.linked = linked \cup Gone(n + 1)
        BY <2>1, <2>4, <3>1
      <4> HIDE DEF y
      <4> QED
        BY <2>1, <2>2, <2>3, <3>1, <4>1
    <3>2. CASE n + 1 \in Used(b) /\ y \notin S.linked
      <4>1. y \in known \ S.linked /\ R = Unlist(S, y)
        BY <2>2, <2>3, <3>2 DEF LinksDown
      <4> HIDE DEF y
      <4>2. /\ Queue(known, R) /\ R.linked = S.linked \cup {y}
            /\ Repointed(R.led, S.led)
        <5>1. Queue(known, S) /\ y \in known \ S.linked
          BY <2>1, <4>1
        <5>2. /\ Queue(known, Unlist(S, y)) /\ Unlist(S, y).linked = S.linked \cup {y}
              /\ Repointed(Unlist(S, y).led, S.led)
          <6> HIDE DEF Fine
          <6> QED
            BY <5>1, UnlistQueue
        <5> QED
          BY <4>1, <5>2
      <4>3. PICK r \in [Blocks -> BlockOrNone] : R.led = [S.led EXCEPT !.ref = r]
        BY <4>2 DEF Repointed
      <4>4. PICK q \in [Blocks -> BlockOrNone] : S.led = [L EXCEPT !.ref = q]
        BY <2>1 DEF Repointed
      <4>5. R.led = [L EXCEPT !.ref = r]
        <5>1. [[L EXCEPT !.ref = q] EXCEPT !.ref = r] = [L EXCEPT !.ref = r]
          BY <1>1, RefTyped
        <5> QED
          BY <4>3, <4>4, <5>1
      <4>6. R.linked = linked \cup Gone(n + 1)
        BY <2>1, <2>4, <3>2, <4>2
      <4> QED
        BY <4>2, <4>5, <4>6 DEF Repointed
    <3> QED
      BY <3>1, <3>2
  <2> HIDE DEF Fine
  <2> QED
    BY <2>5, <2>0 DEF R
<1>4. \A n \in 0 .. N : n \in T
  <2> HIDE DEF T, N
  <2> QED
    BY <1>0, <1>2, <1>3, Stepping
<1>5. Fine(Iterate(F, x0, N), N)
  <2>1. N \in 0 .. N
    BY <1>0
  <2> HIDE DEF Fine, N, F, x0
  <2> QED
    BY <2>1, <1>4
<1>6. Gone(N) = {Fields[b][i].to : i \in Used(b)}
  <2>1. {j \in Used(b) : j <= N} = Used(b)
    BY <1>0
  <2> QED
    BY <2>1
<1>7. UnlistLinks(L, b) = Iterate(F, x0, N)
  BY DEF UnlistLinks
<1> HIDE DEF F, x0, N, Gone
<1> QED
  BY <1>5, <1>6, <1>7

LEMMA EnlistQueue ==
  ASSUME NEW K, K \subseteq Blocks, NEW S, Queue(K, S), NEW b \in Blocks \ K
  PROVE  LET E == Enlist(S, b)
         IN /\ Queue(K \cup {b}, E) /\ E.linked = S.linked
            /\ Repointed(E.led, S.led)
<1> DEFINE U == K \ S.linked
           r == S.led.ref
           l == S.norefs.last
           q == IF l = None THEN r ELSE [r EXCEPT ![l] = b]
           E == Enlist(S, b)
<1>1. /\ S.led \in Ledger /\ r \in [Blocks -> BlockOrNone] /\ U \subseteq Blocks
      /\ S.linked \subseteq K /\ b \in Blocks /\ b \notin U /\ r[b] = None
      /\ S \in Lists
  BY DEF Queue, Lists, Ledger
<1>2. PICK n, s : n \in Nat /\ Strung(U, r, S.norefs.first, l, n, s)
  BY DEF Queue
<1>3. /\ l \in U \cup {None}
      /\ Strung(U \cup {b}, q, IF l = None THEN b ELSE S.norefs.first, b, n + 1, Longer(s, n, b))
  <2>1. /\ U \subseteq Blocks /\ r \in [Blocks -> BlockOrNone] /\ b \in Blocks \ U
        /\ r[b] = None
    BY <1>1
  <2> DEFINE first == S.norefs.first
  <2> HIDE DEF U, r, l, first
  <2>2. n \in Nat /\ Strung(U, r, first, l, n, s)
    BY <1>2 DEF first
  <2>3. /\ l \in U \cup {None}
        /\ Strung(U \cup {b}, IF l = None THEN r ELSE [r EXCEPT ![l] = b],
                  IF l = None THEN b ELSE first, b, n + 1, Longer(s, n, b))
    BY <2>1, <2>2, StringLengthens
  <2> QED
    BY <2>3 DEF first
<1>4. q \in [Blocks -> BlockOrNone] /\ \A x \in Blocks \ U : q[x] = r[x]
  <2> HIDE DEF U, r, l
  <2> QED
    BY <1>1, <1>3, Sorts DEF BlockOrNone
<1>5. /\ E.linked = S.linked
      /\ E.led = [S.led EXCEPT !.ref = q]
      /\ E.norefs = [first |-> IF l = None THEN b ELSE S.norefs.first, last |-> b]
      /\ E = [linked |-> E.linked, led |-> E.led, norefs |-> E.norefs]
  <2> DEFINE e == [first |-> IF l = None THEN b ELSE S.norefs.first, last |-> b]
  <2>1. E = [S EXCEPT !.led = [S.led EXCEPT !.ref = q], !.norefs = e]
    <3>1. E = [S EXCEPT !.led = [S.led EXCEPT !.ref = IF l = None THEN @ ELSE [@ EXCEPT ![l] = b]],
                        !.norefs = e]
      BY DEF Enlist
    <3>2. [S.led EXCEPT !.ref = IF l = None THEN @ ELSE [@ EXCEPT ![l] = b]] =
          [S.led EXCEPT !.ref = q]
      OBVIOUS
    <3> QED
      BY <3>1, <3>2
  <2> HIDE DEF q, E, e
  <2>2. E.linked = S.linked /\ E.led = [S.led EXCEPT !.ref = q] /\ E.norefs = e
    BY <1>1, <2>1 DEF Lists
  <2>3. E = [linked |-> E.linked, led |-> E.led, norefs |-> E.norefs]
    BY <1>1, <2>1 DEF Lists
  <2> QED
    BY <2>2, <2>3 DEF e
<1> HIDE DEF E
<1>6. E.led \in Ledger /\ E.led.ref = q
  <2>1. S.led \in Ledger /\ q \in [Blocks -> BlockOrNone]
    BY <1>1, <1>4
  <2> HIDE DEF q
  <2>2. [S.led EXCEPT !.ref = q] \in Ledger /\ [S.led EXCEPT !.ref = q].ref = q
    BY <2>1, RefTyped
  <2> QED
    BY <2>2, <1>5
<1>7. E \in Lists
  <2>1. E.norefs \in [first : BlockOrNone, last : BlockOrNone]
    BY <1>1, <1>5 DEF BlockOrNone, Lists
  <2> QED
    BY <1>1, <1>5, <1>6, <2>1 DEF Lists
<1>8. (K \cup {b}) \ E.linked = U \cup {b} /\ E.linked \subseteq K \cup {b}
  BY <1>1, <1>5
<1>9. \A x \in Blocks \ (K \cup {b}) : E.led.ref[x] = None
  BY <1>4, <1>6 DEF Queue
<1>10. \E n1, s1 :
         n1 \in Nat /\ Strung((K \cup {b}) \ E.linked, E.led.ref, E.norefs.first, E.norefs.last, n1, s1)
  <2>1. E.norefs.first = (IF l = None THEN b ELSE S.norefs.first) /\ E.norefs.last = b
        /\ n + 1 \in Nat
    BY <1>2, <1>5
  <2> HIDE DEF q, l, U
  <2>2. Strung((K \cup {b}) \ E.linked, E.led.ref, E.norefs.first, E.norefs.last,
               n + 1, Longer(s, n, b))
    BY <1>3, <1>6, <1>8, <2>1
  <2> QED
    BY <2>1, <2>2
<1>11. Queue(K \cup {b}, E)
  BY <1>7, <1>8, <1>9, <1>10 DEF Queue
<1> QED
  BY <1>4, <1>5, <1>11 DEF E, Repointed

\* What a new block finds once the chain is settled.
LEMMA AddSettles ==
  ASSUME GraphInv, Grounded, NEW G, Kept(G), Free(G),
         ledger \in G, ledger.nmain = Cardinality(main), NEW b \in Blocks, AddBlock(b)
  PROVE  \E L \in G : L.nmain = Cardinality(main') /\ Join(L, b)
<1> DEFINE N == [node EXCEPT !.diff[b] = Total(b), !.parent[b] = Best(b)]
           M == NewMain
           away == Away(StopAt(N, b))
<1>1. M.led \in G /\ M.led.nmain = Cardinality(M.main)
  BY NewMainKept
<1>2. M.main \subseteq chain
  BY NewMainFirst DEF MainsFirst
<1>3. CASE Total(b) > Difficulty
  <2>1. main' = M.main \ away /\ Join(Unwind(M, away), b)
    BY <1>3 DEF AddBlock, Lead
  <2> HIDE DEF M, N
  <2>2. Unwind(M, away) \in G /\ Unwind(M, away).nmain = Cardinality(M.main \ away)
    BY <1>1, <1>2, UnwindKept
  <2> QED
    BY <2>1, <2>2
<1>4. CASE ~(Total(b) > Difficulty)
  <2>1. main' = M.main /\ Join(M.led, b)
    BY <1>4 DEF AddBlock, Follow
  <2> QED
    BY <1>1, <2>1
<1> QED
  BY <1>3, <1>4

LEMMA OwnTyped ==
  ASSUME NEW L \in Ledger, NEW b \in Blocks
  PROVE  /\ Own(L, b) \in Ledger
         /\ LET A == Own(L, b)
            IN /\ A.amount = L.amount /\ A.balance = L.balance /\ A.nmain = L.nmain
               /\ A.applied = L.applied /\ A.mainRef = L.mainRef /\ A.ref = L.ref
<1> DEFINE p == [L.prev EXCEPT ![b] = L.last]
           q == IF L.last = None THEN L.next ELSE [L.next EXCEPT ![L.last] = b]
           f == IF L.last = None THEN b ELSE L.first
<1>1. b \in Ours => Own(L, b) = [L EXCEPT !.prev = p, !.last = b, !.next = q, !.first = f]
  <2>1. L.prev = [L.prev EXCEPT ![b] = L.prev[b]]
    BY DEF Ledger
  <2> QED
    BY <2>1 DEF Own
<1>2. b \notin Ours => Own(L, b) = L
  BY DEF Own
<1>3. p \in [Blocks -> BlockOrNone] /\ q \in [Blocks -> BlockOrNone] /\ f \in BlockOrNone
      /\ b \in BlockOrNone
  BY DEF Ledger, BlockOrNone
<1> HIDE DEF p, q, f
<1>4. CASE b \in Ours
  BY <1>1, <1>3, <1>4 DEF Ledger
<1> QED
  BY <1>2, <1>4

ListInv ==
  /\ Grounded
  /\ \A y \in linked : \E x \in known : \E i \in Used(x) : Fields[x][i].to = y
  /\ Queue(known, [linked |-> linked, led |-> ledger, norefs |-> norefs])
  /\ ledger.applied \subseteq known /\ ledger.mainRef \subseteq known
  /\ ledger.nmain = Cardinality(main)

\* What stays so while blocks become main blocks and stop being main blocks.
Frame ==
  {A \in Ledger : /\ A.applied \subseteq known /\ A.mainRef \subseteq known
                  /\ \A x \in Blocks \ linked : A.ref[x] = ledger.ref[x]}

LEMMA FrameKept ==
  ASSUME ListInv
  PROVE  /\ Kept(Frame) /\ Free(Frame) /\ ledger \in Frame
         /\ \A A \in Frame : Queue(known, [linked |-> linked, led |-> A, norefs |-> norefs])
<1> DEFINE G == Frame
<1>0. /\ known \subseteq Blocks /\ linked \subseteq known /\ ledger \in Ledger
      /\ norefs \in [first : BlockOrNone, last : BlockOrNone]
  BY DEF ListInv, Grounded, Queue, Lists
<1>1. Kept(G)
  <2>1. \A A \in G, x \in known, sum \in Int : Accept(A, x, sum) \in G
    <3> TAKE A \in G, x \in known, sum \in Int
    <3>1. x \in Blocks
      BY <1>0
    <3> QED
      BY <3>1, AcceptTyped DEF Frame
  <2>2. ASSUME NEW A \in G, NEW x \in known
        PROVE  /\ [A EXCEPT !.mainRef = @ \cup {x}] \in G
               /\ [A EXCEPT !.mainRef = @ \ {x}] \in G
               /\ [A EXCEPT !.applied = @ \cup {x}] \in G
               /\ [A EXCEPT !.applied = @ \ {x}] \in G
               /\ [A EXCEPT !.unearned = @ \/ Fee[x] > 0] \in G
               /\ \A y \in linked : [A EXCEPT !.ref[y] = x] \in G
    <3>1. [A EXCEPT !.mainRef = @ \cup {x}] \in G /\ [A EXCEPT !.mainRef = @ \ {x}] \in G
      BY <1>0 DEF Ledger, Frame
    <3>2. [A EXCEPT !.applied = @ \cup {x}] \in G /\ [A EXCEPT !.applied = @ \ {x}] \in G
      BY <1>0 DEF Ledger, Frame
    <3>3. [A EXCEPT !.unearned = @ \/ Fee[x] > 0] \in G
      BY DEF Ledger, Frame
    <3>4. ASSUME NEW y \in linked PROVE [A EXCEPT !.ref[y] = x] \in G
      <4> DEFINE r == [A.ref EXCEPT ![y] = x]
      <4>1. r \in [Blocks -> BlockOrNone] /\ \A z \in Blocks \ linked : r[z] = ledger.ref[z]
        BY <1>0 DEF Ledger, BlockOrNone, Frame
      <4>2. [A EXCEPT !.ref[y] = x] = [A EXCEPT !.ref = r]
        OBVIOUS
      <4> HIDE DEF r
      <4> QED
        BY <4>1, <4>2 DEF Ledger, Frame
    <3> QED
      BY <3>1, <3>2, <3>3, <3>4
  <2>3. G \subseteq Ledger
    BY DEF Frame
  <2> HIDE DEF G
  <2> QED
    BY <2>1, <2>2, <2>3 DEF Kept
<1>2. Free(G)
  BY DEF Free, Ledger, Frame
<1>3. ledger \in G
  BY <1>0 DEF ListInv, Frame
<1>4. ASSUME NEW A \in Frame PROVE Queue(known, [linked |-> linked, led |-> A, norefs |-> norefs])
  <2> DEFINE S == [linked |-> linked, led |-> A, norefs |-> norefs]
  <2>1. S \in Lists /\ S.linked = linked /\ S.led = A /\ S.norefs = norefs
    BY <1>0 DEF Lists, Frame
  <2>2. \A x \in Blocks \ known : A.ref[x] = None
    BY <1>0 DEF ListInv, Queue, Frame
  <2>3. PICK n, s : n \in Nat /\ Strung(known \ linked, ledger.ref, norefs.first, norefs.last, n, s)
    BY DEF ListInv, Queue
  <2>4. \A i \in 1 .. n : A.ref[s[i]] = ledger.ref[s[i]]
    <3>1. \A i \in 1 .. n : s[i] \in Blocks \ linked
      BY <1>0, <2>3 DEF Strung
    <3> QED
      BY <3>1 DEF Frame
  <2>5. n \in Nat /\ Strung(known \ linked, A.ref, norefs.first, norefs.last, n, s)
    BY <2>3, <2>4 DEF Strung
  <2> HIDE DEF S
  <2>6. Queue(known, S)
    BY <1>0, <2>1, <2>2, <2>5 DEF Queue
  <2> QED
    BY <2>6 DEF S
<1> QED
  BY <1>1, <1>2, <1>3, <1>4

\* Joining changes nothing in the ledger but our list and the pointers of the
\* list of unlinked blocks, which b then ends.
LEMMA JoinPoints ==
  ASSUME ListInv, NEW L \in Frame, NEW b \in Blocks \ known, LinksDown(b), Join(L, b)
  PROVE  /\ Queue(known \cup {b}, [linked |-> linked', led |-> ledger', norefs |-> norefs'])
         /\ linked' = linked \cup {Fields[b][i].to : i \in Used(b)}
         /\ Own(L, b) \in Ledger /\ Repointed(ledger', Own(L, b))
<1> DEFINE O == Own(L, b)
           S == [linked |-> linked, led |-> O, norefs |-> norefs]
           E == UnlistLinks(O, b)
           Z == Enlist(E, b)
<1>0. known \subseteq Blocks
  BY DEF ListInv, Grounded
<1>1. /\ O \in Ledger /\ O.applied = L.applied /\ O.mainRef = L.mainRef
      /\ O.ref = L.ref
  <2>1. L \in Ledger
    BY DEF Frame
  <2> QED
    BY <2>1, OwnTyped
<1>2. Queue(known, S)
  <2>1. O \in Frame
    <3> HIDE DEF O
    <3> QED
      BY <1>1 DEF Frame
  <2> QED
    BY <2>1, FrameKept
<1> HIDE DEF O
<1>3. /\ Queue(known, E) /\ E.linked = linked \cup {Fields[b][i].to : i \in Used(b)}
      /\ Repointed(E.led, O)
  BY <1>0, <1>2, UnlistLinksQueue
<1> HIDE DEF E
<1>4. /\ Queue(known \cup {b}, Z) /\ Z.linked = E.linked
      /\ Repointed(Z.led, E.led)
  <2>1. Queue(known \cup {b}, Enlist(E, b))
    BY <1>0, <1>3, EnlistQueue
  <2>2. Enlist(E, b).linked = E.linked
    BY <1>0, <1>3, EnlistQueue
  <2>3. Repointed(Enlist(E, b).led, E.led)
    BY <1>0, <1>3, EnlistQueue
  <2> QED
    BY <2>1, <2>2, <2>3
<1> HIDE DEF Z
<1>5. ledger' = Z.led /\ linked' = Z.linked /\ norefs' = Z.norefs
  BY DEF Join, Z, E, O
<1>6. Repointed(Z.led, O)
  <2>1. PICK r \in [Blocks -> BlockOrNone] : E.led = [O EXCEPT !.ref = r]
    BY <1>3 DEF Repointed
  <2>2. PICK q \in [Blocks -> BlockOrNone] : Z.led = [E.led EXCEPT !.ref = q]
    BY <1>4 DEF Repointed
  <2>3. Z.led = [O EXCEPT !.ref = q]
    BY <1>1, <2>1, <2>2, RefTyped
  <2> QED
    BY <2>3 DEF Repointed
<1>7. Queue(known \cup {b}, [linked |-> linked', led |-> ledger', norefs |-> norefs'])
  <2>1. Z = [linked |-> Z.linked, led |-> Z.led, norefs |-> Z.norefs]
    BY <1>4 DEF Queue, Lists
  <2> QED
    BY <2>1, <1>4, <1>5
<1> QED
  BY <1>1, <1>3, <1>4, <1>5, <1>6, <1>7 DEF O

LEMMA AddKeepsList ==
  ASSUME GraphInv, ListInv, NEW b \in Blocks, AddBlock(b)
  PROVE  ListInv'
<1> DEFINE K == known \cup {b}
<1>0. /\ known \subseteq Blocks /\ linked \subseteq known
      /\ LinksDown(b) /\ b \notin known /\ known' = K /\ light' = light
  BY AcceptedLinks DEF ListInv, Grounded, AddBlock
<1>1. Kept(Frame) /\ Free(Frame) /\ ledger \in Frame
  BY FrameKept
<1>2. PICK L \in Frame : L.nmain = Cardinality(main') /\ Join(L, b)
  BY <1>1, AddSettles DEF ListInv
<1>3. /\ Queue(K, [linked |-> linked', led |-> ledger', norefs |-> norefs'])
      /\ linked' = linked \cup {Fields[b][i].to : i \in Used(b)}
      /\ Own(L, b) \in Ledger /\ Repointed(ledger', Own(L, b))
  BY <1>0, <1>2, JoinPoints
<1>4. /\ ledger'.nmain = Cardinality(main') /\ ledger'.applied \subseteq K
      /\ ledger'.mainRef \subseteq K
  <2>1. PICK r \in [Blocks -> BlockOrNone] : ledger' = [Own(L, b) EXCEPT !.ref = r]
    BY <1>3 DEF Repointed
  <2>2. L \in Ledger /\ L.applied \subseteq known /\ L.mainRef \subseteq known
    BY DEF Frame
  <2>3. /\ Own(L, b).nmain = L.nmain /\ Own(L, b).applied = L.applied
        /\ Own(L, b).mainRef = L.mainRef
    BY <2>2, OwnTyped
  <2>4. /\ ledger'.nmain = Own(L, b).nmain /\ ledger'.applied = Own(L, b).applied
        /\ ledger'.mainRef = Own(L, b).mainRef
    BY <1>3, <2>1 DEF Ledger
  <2> QED
    BY <1>2, <2>2, <2>3, <2>4
<1>5. \A x : Used(x)' = Used(x)
  BY <1>0 DEF Used
<1>6. Grounded'
  <2>1. linked' \subseteq known' /\ known' \subseteq Blocks
    BY <1>0, <1>3 DEF LinksDown
  <2>2. \A x \in K : \A i \in Used(x) :
          Fields[x][i].to \in linked' /\ Time[Fields[x][i].to] < Time[x]
    BY <1>3, <1>0 DEF ListInv, Grounded, LinksDown
  <2> QED
    BY <1>0, <1>5, <2>1, <2>2 DEF Grounded
<1>7. \A y \in linked' : \E x \in known' : \E i \in Used(x)' : Fields[x][i].to = y
  <2>1. \A y \in linked' : \E x \in K : \E i \in Used(x) : Fields[x][i].to = y
    BY <1>3 DEF ListInv
  <2> QED
    BY <2>1, <1>0, <1>5
<1> QED
  BY <1>3, <1>4, <1>6, <1>7, <1>0 DEF ListInv

LEMMA EmptyList ==
  ASSUME NEW e, e = [first |-> None, last |-> None]
  PROVE  Queue({}, [linked |-> {}, led |-> LedgerInit, norefs |-> e])
<1>1. LedgerInit \in Ledger /\ LedgerInit.ref = [b \in Blocks |-> None]
  <2>1. Word \in Nat /\ Word > 0
    BY Words
  <2>2. 0 \in 0 .. Word - 1
    BY <2>1
  <2> QED
    BY <2>2 DEF LedgerInit, Ledger, BlockOrNone
<1>2. [linked |-> {}, led |-> LedgerInit, norefs |-> e] \in Lists
  BY <1>1 DEF Lists, BlockOrNone
<1>3. Strung({} \ {}, LedgerInit.ref, e.first, e.last, 0, <<>>)
  BY DEF Strung
<1> QED
  BY <1>1, <1>2, <1>3 DEF Queue

LEMMA ListInvHolds == Spec => []ListInv
<1>1. ASSUME known = {}, linked = {}, main = {}, ledger = LedgerInit,
             norefs = [first |-> None, last |-> None]
      PROVE  ListInv
  <2>1. LedgerInit.nmain = 0 /\ LedgerInit.applied = {} /\ LedgerInit.mainRef = {}
    BY DEF LedgerInit
  <2>2. Cardinality(main) = 0
    BY <1>1, FiniteParts
  <2>3. Queue(known, [linked |-> linked, led |-> ledger, norefs |-> norefs])
    BY <1>1, EmptyList
  <2> QED
    BY <1>1, <2>1, <2>2, <2>3 DEF ListInv, Grounded
<1>2. GraphInv /\ ListInv /\ [Next]_vars => ListInv'
  <2> SUFFICES ASSUME GraphInv, ListInv, [Next]_vars PROVE ListInv'
    OBVIOUS
  <2>1. ASSUME NEW b \in Blocks, AddBlock(b) PROVE ListInv'
    BY <2>1, AddKeepsList
  <2>2. CASE CheckNewMain
    <3>1. /\ ledger' = NewMain.led /\ main' = NewMain.main /\ known' = known
          /\ linked' = linked /\ norefs' = norefs /\ light' = light
      BY <2>2 DEF CheckNewMain, graph
    <3>2. NewMain.led \in Frame /\ NewMain.led.nmain = Cardinality(NewMain.main)
      BY FrameKept, NewMainKept DEF ListInv
    <3>3. Queue(known, [linked |-> linked, led |-> NewMain.led, norefs |-> norefs])
      BY <3>2, FrameKept
    <3>4. Grounded' /\ \A x : Used(x)' = Used(x)
      BY <3>1 DEF ListInv, Grounded, Used
    <3> QED
      BY <3>1, <3>2, <3>3, <3>4 DEF ListInv, Frame
  <2>3. CASE Clear
    <3>1. /\ known' = {} /\ linked' = {} /\ main' = {} /\ ledger' = LedgerInit
          /\ norefs' = [first |-> None, last |-> None]
      BY <2>3 DEF Clear
    <3>2. LedgerInit.nmain = Cardinality({}) /\ LedgerInit.applied = {} /\ LedgerInit.mainRef = {}
      BY FiniteParts DEF LedgerInit
    <3>3. Queue({}, [linked |-> {}, led |-> LedgerInit, norefs |-> norefs'])
      BY <3>1, EmptyList
    <3> QED
      BY <3>1, <3>2, <3>3 DEF ListInv, Grounded
  <2>4. CASE Tick \/ UNCHANGED vars
    <3>1. /\ ledger' = ledger /\ main' = main /\ known' = known
          /\ linked' = linked /\ norefs' = norefs /\ light' = light
      BY <2>4 DEF Tick, vars, graph
    <3>2. Grounded' /\ \A x : Used(x)' = Used(x)
      BY <3>1 DEF ListInv, Grounded, Used
    <3> QED
      BY <3>1, <3>2 DEF ListInv
  <2> QED
    BY <2>1, <2>2, <2>3, <2>4 DEF Next
<1>3. Init => ListInv
  BY <1>1 DEF Init
<1> QED
  BY <1>2, <1>3, GraphInvHolds, PTL DEF Spec

\* Whatever reorganisations do with the flags and pointers of blocks, what
\* set_main, unwind_main and the list of unlinked blocks leave is well-formed.
THEOREM MainChainTypeCorrect == Spec => []TypeOK
<1>1. GraphInv /\ ListInv => TypeOK
  <2> SUFFICES ASSUME GraphInv, ListInv PROVE TypeOK
    OBVIOUS
  <2>1. ledger \in Ledger /\ norefs \in [first : BlockOrNone, last : BlockOrNone]
    BY DEF ListInv, Queue, Lists
  <2> QED
    BY <2>1 DEF GraphInv, ListInv, Grounded, MainsFirst, TypeOK
<1> QED
  BY <1>1, GraphInvHolds, ListInvHolds, PTL

\* set_main and unset_main count the main blocks exactly: a reward is that of
\* the block's place among them, when it is paid and when it is taken back.
THEOREM MainsCounted == Spec => [](ledger.nmain = Cardinality(main))
<1>1. ListInv => ledger.nmain = Cardinality(main)
  BY DEF ListInv
<1> QED
  BY <1>1, ListInvHolds, PTL

\* The list from noref_first to noref_last holds every block that no other
\* links to, once, although apply_block uses the pointers of the blocks that
\* have left it for the block that applied them.
THEOREM NorefsStayExact == Spec => []NorefsExact
<1>1. ListInv => NorefsExact
  <2> SUFFICES ASSUME ListInv PROVE NorefsExact
    OBVIOUS
  <2>1. PICK n, s : n \in Nat /\ Strung(known \ linked, ledger.ref, norefs.first, norefs.last, n, s)
    BY DEF ListInv, Queue
  <2>2. /\ Cardinality(known \ linked) = n /\ Walk(ledger.ref, norefs.first, n) = s
        /\ ToSet(s) = known \ linked
    BY <2>1, WalkIs
  <2>3. /\ norefs.last = IF n = 0 THEN None ELSE s[n]
        /\ n = 0 => norefs.first = None
    BY <2>1 DEF Strung
  <2>4. linked = {l.to : l \in UNION {LinkSet(b) : b \in known}}
    <3>1. \A b \in known : LinkSet(b) = {Fields[b][i] : i \in Used(b)}
      BY DEF LinkSet
    <3>2. \A y \in linked : \E b \in known : \E l \in LinkSet(b) : l.to = y
      BY <3>1 DEF ListInv
    <3>3. \A b \in known : \A l \in LinkSet(b) : l.to \in linked
      BY <3>1 DEF ListInv, Grounded
    <3> QED
      BY <3>2, <3>3
  <2> QED
    BY <2>2, <2>3, <2>4 DEF NorefsExact
<1> QED
  BY <1>1, ListInvHolds, PTL
-----------------------------------------------------------------------------
(* Sums over sets of blocks, and sums modulo Word *)

SumOver(h, S) == MapThenSumSet(LAMBDA b : h[b], S)
Pick(S) == CHOOSE x \in S : TRUE
Sums(h, S, f) ==
  f = [s \in SUBSET S |-> IF s = {} THEN 0 ELSE h[Pick(s)] + f[s \ {Pick(s)}]]

LEMMA PickIn == \A S : S # {} => Pick(S) \in S
BY DEF Pick

LEMMA SumsExist ==
  ASSUME NEW S, S \subseteq Blocks, NEW h
  PROVE  \E f : Sums(h, S, f)
<1> DEFINE next(g) == [s \in SUBSET S |-> IF s = {} THEN 0 ELSE h[Pick(s)] + g[s \ {Pick(s)}]]
           Upto(g, n) == \A s \in SUBSET S : Cardinality(s) <= n => g[s] = next(g)[s]
           N == Cardinality(S)
           T == {n \in Nat : \E g : Upto(g, n)}
<1>1. \A s \in SUBSET S : Cardinality(s) \in Nat /\ Cardinality(s) <= N /\ N \in Nat
  BY FiniteParts, FS_Subset
<1>2. \A s \in SUBSET S : s # {} =>
        /\ s \ {Pick(s)} \in SUBSET S
        /\ Cardinality(s \ {Pick(s)}) = Cardinality(s) - 1
  <2> SUFFICES ASSUME NEW s \in SUBSET S, s # {}
               PROVE  /\ s \ {Pick(s)} \in SUBSET S
                      /\ Cardinality(s \ {Pick(s)}) = Cardinality(s) - 1
    OBVIOUS
  <2>1. Pick(s) \in s
    BY PickIn
  <2> QED
    BY <2>1, FiniteParts
<1>3. 0 \in T
  <2> DEFINE g == [s \in SUBSET S |-> 0]
  <2>1. \A s \in SUBSET S : Cardinality(s) <= 0 => s = {}
    BY <1>1, FiniteParts
  <2>2. Upto(g, 0)
    BY <2>1
  <2> HIDE DEF Upto
  <2> QED
    BY <2>2
<1>4. ASSUME NEW n \in 0 .. N - 1, n \in T PROVE n + 1 \in T
  <2>1. PICK g : Upto(g, n)
    BY <1>4
  <2> DEFINE k == next(g)
  <2>2. n \in Nat /\ n + 1 \in Nat
    OBVIOUS
  <2>3. Upto(k, n + 1)
    <3> SUFFICES ASSUME NEW s \in SUBSET S, Cardinality(s) <= n + 1 PROVE k[s] = next(k)[s]
      OBVIOUS
    <3>1. CASE s = {}
      BY <3>1
    <3>2. CASE s # {}
      <4> DEFINE t == s \ {Pick(s)}
      <4>1. t \in SUBSET S /\ Cardinality(t) <= n
        BY <1>1, <1>2, <2>2, <3>2
      <4>2. k[t] = g[t]
        BY <4>1, <2>1
      <4>3. k[s] = h[Pick(s)] + g[t] /\ next(k)[s] = h[Pick(s)] + k[t]
        BY <3>2
      <4> QED
        BY <4>2, <4>3
    <3> QED
      BY <3>1, <3>2
  <2> HIDE DEF Upto, k
  <2> QED
    BY <2>2, <2>3
<1>5. \A n \in 0 .. N : n \in T
  <2>1. N \in Nat
    BY <1>1
  <2> HIDE DEF T, N
  <2> QED
    BY <1>3, <1>4, <2>1, Stepping
<1>6. PICK g : Upto(g, N)
  <2>1. N \in 0 .. N
    BY <1>1
  <2> QED
    BY <1>5, <2>1
<1> DEFINE f == next(g)
<1>7. \A s \in SUBSET S : f[s] = next(f)[s]
  <2> TAKE s \in SUBSET S
  <2>1. CASE s = {}
    BY <2>1
  <2>2. CASE s # {}
    <3> DEFINE t == s \ {Pick(s)}
    <3>1. t \in SUBSET S /\ Cardinality(t) <= N
      BY <1>1, <1>2, <2>2
    <3>2. f[t] = g[t]
      BY <1>6, <3>1
    <3>3. f[s] = h[Pick(s)] + g[t] /\ next(f)[s] = h[Pick(s)] + f[t]
      BY <2>2
    <3> QED
      BY <3>2, <3>3
  <2> QED
    BY <2>1, <2>2
<1>8. f = next(f)
  BY <1>7
<1> QED
  BY <1>8 DEF Sums

LEMMA SumsOnce ==
  ASSUME NEW S, S \subseteq Blocks, NEW R, R \subseteq Blocks, NEW h, NEW k, NEW f, NEW g,
         Sums(h, S, f), Sums(k, R, g)
  PROVE  \A s \in SUBSET S : s \subseteq R /\ (\A x \in s : h[x] = k[x]) => f[s] = g[s]
<1> DEFINE Same(s) == s \subseteq R /\ (\A x \in s : h[x] = k[x]) => f[s] = g[s]
           T == {n \in Nat : \A s \in SUBSET S : Cardinality(s) = n => Same(s)}
<1>1. ASSUME NEW n \in Nat, \A m \in 0 .. n - 1 : m \in T PROVE n \in T
  <2> SUFFICES ASSUME NEW s \in SUBSET S, Cardinality(s) = n,
                      s \subseteq R, \A x \in s : h[x] = k[x]
               PROVE  f[s] = g[s]
    OBVIOUS
  <2>1. CASE s = {}
    BY <2>1 DEF Sums
  <2>2. CASE s # {}
    <3> DEFINE t == s \ {Pick(s)}
    <3>1. Pick(s) \in s
      BY <2>2, PickIn
    <3>2. t \in SUBSET S /\ Cardinality(t) \in 0 .. n - 1
      BY <3>1, FiniteParts
    <3>3. f[t] = g[t]
      BY <1>1, <3>2
    <3>4. f[s] = h[Pick(s)] + f[t] /\ g[s] = k[Pick(s)] + g[t]
      BY <2>2 DEF Sums
    <3> QED
      BY <3>1, <3>3, <3>4
  <2> QED
    BY <2>1, <2>2
<1>2. \A n \in Nat : n \in T
  <2> HIDE DEF T
  <2> QED
    BY <1>1, Climbing
<1>3. \A s \in SUBSET S : Cardinality(s) \in Nat
  BY FiniteParts
<1> QED
  BY <1>2, <1>3

LEMMA SumIs ==
  ASSUME NEW S, S \subseteq Blocks, NEW h
  PROVE  \E f : Sums(h, S, f) /\ SumOver(h, S) = f[S]
<1>1. SumOver(h, S) = (CHOOSE f : Sums(h, S, f))[S]
  BY DEF SumOver, MapThenSumSet, MapThenFoldSet, Sums, Pick
<1> QED
  BY <1>1, SumsExist

LEMMA SumSame ==
  ASSUME NEW S, S \subseteq Blocks, NEW h, NEW k, \A x \in S : h[x] = k[x]
  PROVE  SumOver(h, S) = SumOver(k, S)
<1>1. PICK f : Sums(h, S, f) /\ SumOver(h, S) = f[S]
  BY SumIs
<1>2. PICK g : Sums(k, S, g) /\ SumOver(k, S) = g[S]
  BY SumIs
<1> QED
  BY <1>1, <1>2, SumsOnce

LEMMA SumSteps ==
  ASSUME NEW h, NEW S, S \subseteq Blocks
  PROVE  SumOver(h, S) = IF S = {} THEN 0 ELSE h[Pick(S)] + SumOver(h, S \ {Pick(S)})
<1>1. PICK f : Sums(h, S, f) /\ SumOver(h, S) = f[S]
  BY SumIs
<1>2. CASE S = {}
  BY <1>1, <1>2 DEF Sums
<1>3. CASE S # {}
  <2> DEFINE t == S \ {Pick(S)}
  <2>1. PICK g : Sums(h, t, g) /\ SumOver(h, t) = g[t]
    BY SumIs
  <2>2. f[t] = g[t]
    <3>1. t \in SUBSET S /\ t \subseteq Blocks /\ t \subseteq t
      OBVIOUS
    <3> HIDE DEF t
    <3>2. \A s \in SUBSET S : s \subseteq t /\ (\A x \in s : h[x] = h[x]) => f[s] = g[s]
      BY <1>1, <2>1, <3>1, SumsOnce
    <3> QED
      BY <3>1, <3>2
  <2>3. f[S] = h[Pick(S)] + f[t]
    BY <1>1, <1>3 DEF Sums
  <2> QED
    BY <1>1, <1>3, <2>1, <2>2, <2>3
<1> QED
  BY <1>2, <1>3

LEMMA SumTyping ==
  ASSUME NEW h \in [Blocks -> Nat]
  PROVE  \A S \in SUBSET Blocks : SumOver(h, S) \in Nat
<1> DEFINE T == {n \in Nat : \A S \in SUBSET Blocks : Cardinality(S) = n => SumOver(h, S) \in Nat}
<1>1. ASSUME NEW n \in Nat, \A m \in 0 .. n - 1 : m \in T PROVE n \in T
  <2> SUFFICES ASSUME NEW S \in SUBSET Blocks, Cardinality(S) = n PROVE SumOver(h, S) \in Nat
    OBVIOUS
  <2>1. CASE S = {}
    <3>1. SumOver(h, S) = 0
      BY <2>1, SumSteps
    <3> QED
      BY <3>1
  <2>2. CASE S # {}
    <3> DEFINE t == S \ {Pick(S)}
    <3>1. Pick(S) \in S
      BY <2>2, PickIn
    <3>2. t \in SUBSET Blocks /\ Cardinality(t) \in 0 .. n - 1
      BY <3>1, FiniteParts
    <3>3. SumOver(h, t) \in Nat /\ h[Pick(S)] \in Nat
      BY <1>1, <3>1, <3>2
    <3>4. SumOver(h, S) = h[Pick(S)] + SumOver(h, t)
      BY <2>2, SumSteps
    <3> QED
      BY <3>3, <3>4
  <2> QED
    BY <2>1, <2>2
<1>2. \A n \in Nat : n \in T
  <2> HIDE DEF T
  <2> QED
    BY <1>1, Climbing
<1>3. \A S \in SUBSET Blocks : Cardinality(S) \in Nat
  BY FiniteParts
<1> QED
  BY <1>2, <1>3

\* Any member may be counted first.
LEMMA SumTakes ==
  ASSUME NEW h \in [Blocks -> Nat]
  PROVE  \A S \in SUBSET Blocks : \A x \in S : SumOver(h, S) = h[x] + SumOver(h, S \ {x})
<1> DEFINE Fine(S) == \A x \in S : SumOver(h, S) = h[x] + SumOver(h, S \ {x})
           T == {n \in Nat : \A S \in SUBSET Blocks : Cardinality(S) = n => Fine(S)}
<1>1. ASSUME NEW n \in Nat, \A m \in 0 .. n - 1 : m \in T PROVE n \in T
  <2> SUFFICES ASSUME NEW S \in SUBSET Blocks, Cardinality(S) = n, NEW x \in S
               PROVE  SumOver(h, S) = h[x] + SumOver(h, S \ {x})
    OBVIOUS
  <2> DEFINE p == Pick(S)
  <2>1. p \in S
    BY PickIn
  <2>2. SumOver(h, S) = h[p] + SumOver(h, S \ {p})
    BY <2>1, SumSteps
  <2>3. CASE p = x
    BY <2>2, <2>3
  <2>4. CASE p # x
    <3> DEFINE u == (S \ {p}) \ {x}
    <3>1. S \ {p} \in SUBSET Blocks /\ Cardinality(S \ {p}) \in 0 .. n - 1
          /\ S \ {x} \in SUBSET Blocks /\ Cardinality(S \ {x}) \in 0 .. n - 1
      BY <2>1, FiniteParts
    <3>2. Fine(S \ {p}) /\ Fine(S \ {x})
      BY <1>1, <3>1
    <3>3. SumOver(h, S \ {p}) = h[x] + SumOver(h, u)
      BY <2>4, <3>2
    <3>4. (S \ {x}) \ {p} = u
      OBVIOUS
    <3>5. SumOver(h, S \ {x}) = h[p] + SumOver(h, u)
      BY <2>1, <2>4, <3>2, <3>4
    <3>6. SumOver(h, u) \in Nat /\ h[x] \in Nat /\ h[p] \in Nat
      BY <2>1, SumTyping
    <3> HIDE DEF u, p
    <3> QED
      BY <2>2, <3>3, <3>5, <3>6
  <2> QED
    BY <2>3, <2>4
<1>2. \A n \in Nat : n \in T
  <2> HIDE DEF T
  <2> QED
    BY <1>1, Climbing
<1>3. \A S \in SUBSET Blocks : Cardinality(S) \in Nat
  BY FiniteParts
<1> QED
  BY <1>2, <1>3

LEMMA Division ==
  ASSUME NEW W \in Nat, W > 0, NEW x \in Int
  PROVE  \E q \in Int, r \in 0 .. W - 1 : x = W * q + r /\ x % W = r
<1> DEFINE q == x \div W
<1>1. q \in Int /\ W * q \in Int
  OBVIOUS
<1>2. x >= W * q
  OBVIOUS
<1>3. x < W * q + W
  OBVIOUS
<1> HIDE DEF q
<1>4. x - W * q \in 0 .. W - 1 /\ x = W * q + (x - W * q)
  BY <1>1, <1>2, <1>3
<1>5. \A r \in 0 .. W - 1 : (W * q + r) % W = r
  BY <1>1
<1> QED
  BY <1>1, <1>4, <1>5

LEMMA Wraps ==
  ASSUME NEW W \in Nat, W > 0, NEW x \in Int, NEW q \in Int
  PROVE  (W * q + x) % W = x % W
<1>1. PICK p \in Int, r \in 0 .. W - 1 : x = W * p + r /\ x % W = r
  BY Division
<1>2. W * q + x = W * (q + p) + r /\ q + p \in Int
  BY <1>1
<1>3. \A k \in Int : (W * k + r) % W = r
  OBVIOUS
<1> QED
  BY <1>1, <1>2, <1>3

\* A change of one amount of a sum, modulo Word, changes the sum by as much.
LEMMA SumShifts ==
  ASSUME NEW S \in Nat, NEW a \in Nat, NEW sum \in Int
  PROVE  (S + Plus(a, sum)) % Word = Plus((S + a) % Word, sum)
<1> DEFINE W == Word
<1>0. W \in Nat /\ W > 0
  BY Words
<1> HIDE DEF W
<1>1. PICK q1 \in Int, r1 \in 0 .. W - 1 : a + sum = W * q1 + r1 /\ (a + sum) % W = r1
  <2>1. a + sum \in Int
    OBVIOUS
  <2> QED
    BY <1>0, <2>1, Division
<1>2. PICK q2 \in Int, r2 \in 0 .. W - 1 : S + a = W * q2 + r2 /\ (S + a) % W = r2
  <2>1. S + a \in Int
    OBVIOUS
  <2> QED
    BY <1>0, <2>1, Division
<1>3. S + r1 = W * q2 + (r2 - a + r1) /\ r2 + sum = W * q1 + (r2 - a + r1)
      /\ r2 - a + r1 \in Int
  BY <1>0, <1>1, <1>2
<1>4. (S + r1) % W = (r2 - a + r1) % W
  BY <1>0, <1>3, Wraps
<1>5. (r2 + sum) % W = (r2 - a + r1) % W
  BY <1>0, <1>3, Wraps
<1> QED
  BY <1>1, <1>2, <1>4, <1>5 DEF Plus, W
-----------------------------------------------------------------------------
(* The list of our blocks *)

\* s lists the n members of U forwards over next and backwards over prev.
Doubly(U, A, n, s) ==
  /\ Strung(U, A.next, A.first, A.last, n, s)
  /\ \A i \in 1 .. n : A.prev[s[i]] = IF i = 1 THEN None ELSE s[i - 1]

\* h is the amounts; all but b are in order.
Ordered(h, n, s) == \A i, j \in 1 .. n : i < j => h[s[j]] <= h[s[i]]
OthersOrdered(h, n, s, b) ==
  \A i, j \in 1 .. n : i < j /\ s[i] # b /\ s[j] # b => h[s[j]] <= h[s[i]]

Turn(k, i) == IF i = k THEN k + 1 ELSE IF i = k + 1 THEN k ELSE i
Turned(s, n, k) == [i \in 1 .. n |-> s[Turn(k, i)]]

LEMMA TurnIs ==
  ASSUME NEW n \in Nat, NEW k \in 1 .. n - 1
  PROVE  /\ \A i \in 1 .. n : Turn(k, i) \in 1 .. n /\ Turn(k, Turn(k, i)) = i
         /\ \A i, j \in 1 .. n : Turn(k, i) = Turn(k, j) => i = j
         /\ \A i, j \in 1 .. n : i < j => Turn(k, i) < Turn(k, j) \/ (i = k /\ j = k + 1)
         /\ k \in 1 .. n /\ k + 1 \in 1 .. n /\ Turn(k, k) = k + 1 /\ Turn(k, k + 1) = k
BY DEF Turn

\* Elsewhere nothing has been moved.
Untouched(U, A, B) == \A x \in Blocks \ U : B.next[x] = A.next[x]

LEMMA SwapTurns ==
  ASSUME NEW U, U \subseteq Blocks, NEW A \in Ledger, NEW n \in Nat, NEW s, Doubly(U, A, n, s),
         NEW k \in 1 .. n - 1
  PROVE  /\ Doubly(U, Swap(A, s[k], s[k + 1]), n, Turned(s, n, k))
         /\ Untouched(U, A, Swap(A, s[k], s[k + 1]))
<1> DEFINE a == s[k]
           b == s[k + 1]
           before == A.prev[a]
           after == A.next[b]
           B == Swap(A, a, b)
           t == Turned(s, n, k)
<1>0. /\ k \in 1 .. n /\ k + 1 \in 1 .. n /\ n # 0 /\ k # n /\ k + 1 # 1 /\ (k + 1) - 1 = k
      /\ None \notin U
  BY Sorts
<1>1. /\ s \in [1 .. n -> U] /\ (\A x \in U : \E i \in 1 .. n : s[i] = x)
      /\ (\A i, j \in 1 .. n : s[i] = s[j] => i = j)
      /\ A.first = s[1] /\ A.last = s[n]
      /\ (\A i \in 1 .. n : A.next[s[i]] = IF i = n THEN None ELSE s[i + 1])
      /\ (\A i \in 1 .. n : A.prev[s[i]] = IF i = 1 THEN None ELSE s[i - 1])
  BY <1>0 DEF Doubly, Strung
<1>2. /\ before = (IF k = 1 THEN None ELSE s[k - 1])
      /\ after = (IF k + 1 = n THEN None ELSE s[k + 2])
      /\ a \in U /\ b \in U /\ a # b
      /\ before \notin {a, b} /\ after \notin {a, b}
  <2>1. k + 1 + 1 = k + 2
    OBVIOUS
  <2>2. /\ before = (IF k = 1 THEN None ELSE s[k - 1])
        /\ after = (IF k + 1 = n THEN None ELSE s[k + 2])
        /\ a \in U /\ b \in U /\ a # b
    BY <1>0, <1>1, <2>1
  <2>3. (k # 1 => k - 1 \in 1 .. n) /\ (k + 1 # n => k + 2 \in 1 .. n)
    OBVIOUS
  <2>7. \A i \in 1 .. n : (s[i] = a => i = k) /\ (s[i] = b => i = k + 1)
    BY <1>0, <1>1
  <2>8. k - 1 # k /\ k - 1 # k + 1 /\ k + 2 # k /\ k + 2 # k + 1
    OBVIOUS
  <2> HIDE DEF a, b
  <2>4. k # 1 => s[k - 1] \notin {a, b}
    BY <2>3, <2>7, <2>8
  <2>5. k + 1 # n => s[k + 2] \notin {a, b}
    BY <2>3, <2>7, <2>8
  <2>6. None \notin {a, b}
    BY <1>0, <2>2
  <2> HIDE DEF a, b, before, after
  <2> QED
    BY <2>2, <2>4, <2>5, <2>6
<1>3. /\ B.prev = [x \in Blocks |-> CASE x = a -> b [] x = b -> before
                                     [] x = after -> a [] OTHER -> A.prev[x]]
      /\ B.next = [x \in Blocks |-> CASE x = a -> after [] x = b -> a
                                     [] x = before -> b [] OTHER -> A.next[x]]
      /\ B.first = (IF before = None THEN b ELSE A.first)
      /\ B.last = (IF after = None THEN a ELSE A.last)
  BY DEF Swap, Ledger
<1> HIDE DEF a, b, before, after, B
<1>4. /\ B.prev[a] = b /\ B.prev[b] = before
      /\ \A x \in U : x # a /\ x # b => B.prev[x] = IF x = after THEN a ELSE A.prev[x]
  <2>1. /\ a \in Blocks /\ b \in Blocks /\ a # b
        /\ before # a /\ before # b /\ after # a /\ after # b
    BY <1>2
  <2>2. B.prev[a] = b
    BY <1>3, <2>1
  <2>3. B.prev[b] = before
    BY <1>3, <2>1
  <2>4. \A x \in Blocks : x # a /\ x # b => B.prev[x] = IF x = after THEN a ELSE A.prev[x]
    BY <1>3
  <2> QED
    BY <2>2, <2>3, <2>4
<1>5. /\ B.next[a] = after
      /\ B.next[b] = a
      /\ \A x \in Blocks : x # a /\ x # b => B.next[x] = IF x = before THEN b ELSE A.next[x]
  <2>1. /\ a \in Blocks /\ b \in Blocks /\ a # b
        /\ before # a /\ before # b /\ after # a /\ after # b
    BY <1>2
  <2>2. B.next[a] = after
    BY <1>3, <2>1
  <2>3. B.next[b] = a
    BY <1>3, <2>1
  <2>4. \A x \in Blocks : x # a /\ x # b => B.next[x] = IF x = before THEN b ELSE A.next[x]
    BY <1>3
  <2> QED
    BY <2>2, <2>3, <2>4
<1>6. \A i \in 1 .. n : t[i] = s[Turn(k, i)]
  BY DEF Turned
<1>7. t \in [1 .. n -> U]
  BY <1>1, TurnIs DEF Turned
<1> HIDE DEF t
<1>8. \A x \in U : \E i \in 1 .. n : t[i] = x
  <2> TAKE x \in U
  <2>1. PICK j \in 1 .. n : s[j] = x
    BY <1>1
  <2>2. Turn(k, j) \in 1 .. n /\ Turn(k, Turn(k, j)) = j
    BY TurnIs
  <2>3. t[Turn(k, j)] = x
    BY <1>6, <2>1, <2>2
  <2> QED
    BY <2>2, <2>3
<1>9. \A i, j \in 1 .. n : t[i] = t[j] => i = j
  <2> TAKE i, j \in 1 .. n
  <2>1. Turn(k, i) \in 1 .. n /\ Turn(k, j) \in 1 .. n /\ (Turn(k, i) = Turn(k, j) => i = j)
    BY TurnIs
  <2> QED
    BY <1>1, <1>6, <2>1
<1>10. /\ t[k] = b /\ t[k + 1] = a
       /\ \A i \in 1 .. n : i # k /\ i # k + 1 => t[i] = s[i] /\ s[i] # a /\ s[i] # b
  <2>1. \A i \in 1 .. n : i # k /\ i # k + 1 => Turn(k, i) = i
    BY DEF Turn
  <2>2. Turn(k, k) = k + 1 /\ Turn(k, k + 1) = k
    BY TurnIs
  <2> QED
    <3>1. t[k] = b /\ t[k + 1] = a
      BY <1>0, <1>6, <2>2 DEF a, b
    <3>2. \A i \in 1 .. n : i # k /\ i # k + 1 => t[i] = s[i]
      BY <1>6, <2>1
    <3>3. \A i \in 1 .. n : i # k /\ i # k + 1 => s[i] # a /\ s[i] # b
      BY <1>0, <1>1 DEF a, b
    <3> QED
      BY <3>1, <3>2, <3>3
<1>11. \A i \in 1 .. n : B.next[t[i]] = IF i = n THEN None ELSE t[i + 1]
  <2> TAKE i \in 1 .. n
  <2>1. CASE i = k
    BY <1>0, <1>5, <1>10, <2>1
  <2>2. CASE i = k + 1
    <3>1. k + 1 # n => k + 2 \in 1 .. n /\ k + 2 # k /\ k + 2 # k + 1 /\ i + 1 = k + 2
      BY <1>0, <2>2
    <3>2. k + 1 # n => t[i + 1] = s[k + 2]
      BY <1>10, <3>1
    <3> QED
      BY <1>2, <1>5, <1>10, <2>2, <3>2
  <2>3. CASE i = k - 1
    <3>1. i # k /\ i # k + 1 /\ i + 1 = k /\ i # n /\ k # 1 /\ i = k - 1
      BY <2>3
    <3>2. t[i] = before /\ t[i] # a /\ t[i] # b /\ t[i] \in Blocks
      BY <1>2, <1>7, <1>10, <3>1
    <3>3. B.next[t[i]] = b
      BY <1>5, <3>2
    <3> QED
      BY <1>10, <3>1, <3>3
  <2>4. CASE i # k /\ i # k + 1 /\ i # k - 1
    <3>1. t[i] = s[i] /\ t[i] # a /\ t[i] # b /\ t[i] \in Blocks
      BY <1>7, <1>10, <2>4
    <3>2. t[i] # before
      <4>1. k # 1 => k - 1 \in 1 .. n
        OBVIOUS
      <4>2. k # 1 => s[i] # s[k - 1]
        BY <1>1, <2>4, <4>1
      <4>3. t[i] # None
        BY <1>0, <1>7
      <4> QED
        BY <1>2, <3>1, <4>2, <4>3
    <3>3. B.next[t[i]] = A.next[s[i]]
      BY <1>5, <3>1, <3>2
    <3>4. i # n => i + 1 \in 1 .. n /\ i + 1 # k /\ i + 1 # k + 1
      BY <2>4
    <3>5. i # n => t[i + 1] = s[i + 1]
      BY <1>10, <3>4
    <3> QED
      BY <1>1, <3>3, <3>5
  <2> QED
    BY <2>1, <2>2, <2>3, <2>4
<1>12. \A i \in 1 .. n : B.prev[t[i]] = IF i = 1 THEN None ELSE t[i - 1]
  <2> TAKE i \in 1 .. n
  <2>1. CASE i = k + 1
    BY <1>0, <1>4, <1>10, <2>1
  <2>2. CASE i = k
    <3>1. k # 1 => k - 1 \in 1 .. n /\ k - 1 # k /\ k - 1 # k + 1 /\ i - 1 = k - 1
      BY <1>0, <2>2
    <3>2. k # 1 => t[i - 1] = s[k - 1]
      BY <1>10, <3>1
    <3> QED
      BY <1>2, <1>4, <1>10, <2>2, <3>2
  <2>3. CASE i = k + 2
    <3>1. i # k /\ i # k + 1 /\ i - 1 = k + 1 /\ i # 1 /\ k + 1 # n
      BY <2>3
    <3>2. t[i] = after /\ t[i] # a /\ t[i] # b /\ t[i] \in U
      BY <1>2, <1>7, <1>10, <2>3, <3>1
    <3>3. B.prev[t[i]] = a
      BY <1>4, <3>2
    <3> QED
      BY <1>10, <3>1, <3>3
  <2>4. CASE i # k /\ i # k + 1 /\ i # k + 2
    <3>1. t[i] = s[i] /\ t[i] # a /\ t[i] # b /\ t[i] \in U
      BY <1>7, <1>10, <2>4
    <3>2. t[i] # after
      <4>1. k + 1 # n => k + 2 \in 1 .. n
        OBVIOUS
      <4>2. k + 1 # n => s[i] # s[k + 2]
        BY <1>1, <2>4, <4>1
      <4>3. t[i] # None
        BY <1>0, <1>7
      <4> QED
        BY <1>2, <3>1, <4>2, <4>3
    <3>3. B.prev[t[i]] = A.prev[s[i]]
      BY <1>4, <3>1, <3>2
    <3>4. i # 1 => i - 1 \in 1 .. n /\ i - 1 # k /\ i - 1 # k + 1
      BY <2>4
    <3>5. i # 1 => t[i - 1] = s[i - 1]
      BY <1>10, <3>4
    <3> QED
      BY <1>1, <3>3, <3>5
  <2> QED
    BY <2>1, <2>2, <2>3, <2>4
<1>13. B.first = t[1] /\ B.last = t[n]
  <2>1. B.first = t[1]
    <3>1. CASE k = 1
      BY <1>2, <1>3, <1>10, <3>1
    <3>2. CASE k # 1
      <4>1. 1 \in 1 .. n /\ 1 # k /\ 1 # k + 1 /\ k - 1 \in 1 .. n
        BY <3>2
      <4>2. before # None
        BY <1>0, <1>1, <1>2, <3>2, <4>1
      <4> QED
        BY <1>1, <1>3, <1>10, <4>1, <4>2
    <3> QED
      BY <3>1, <3>2
  <2>2. B.last = t[n]
    <3>1. CASE k + 1 = n
      BY <1>2, <1>3, <1>10, <3>1
    <3>2. CASE k + 1 # n
      <4>1. n \in 1 .. n /\ n # k /\ n # k + 1 /\ k + 2 \in 1 .. n
        BY <3>2
      <4>2. after # None
        BY <1>0, <1>1, <1>2, <3>2, <4>1
      <4> QED
        BY <1>1, <1>3, <1>10, <4>1, <4>2
    <3> QED
      BY <3>1, <3>2
  <2> QED
    BY <2>1, <2>2
<1>14. Doubly(U, B, n, t)
  <2>1. Strung(U, B.next, B.first, B.last, n, t)
    BY <1>0, <1>7, <1>8, <1>9, <1>11, <1>13 DEF Strung
  <2> QED
    BY <1>12, <2>1 DEF Doubly
<1>15. \A x \in Blocks \ U : B.next[x] = A.next[x]
  <2>1. before \in U \cup {None}
    <3>1. k # 1 => k - 1 \in 1 .. n
      OBVIOUS
    <3> QED
      BY <1>1, <1>2, <3>1
  <2> QED
    BY <1>2, <1>5, <2>1, Sorts
<1> QED
  BY <1>14, <1>15 DEF Untouched, B, t, a, b

LEMMA OrderTurns ==
  ASSUME NEW h, NEW n \in Nat, NEW s, NEW b, OthersOrdered(h, n, s, b), NEW k \in 1 .. n - 1,
         s[k] = b \/ s[k + 1] = b
  PROVE  OthersOrdered(h, n, Turned(s, n, k), b)
<1> DEFINE t == Turned(s, n, k)
<1>1. \A i \in 1 .. n : t[i] = s[Turn(k, i)] /\ Turn(k, i) \in 1 .. n
  BY TurnIs DEF Turned
<1>2. t[k] = s[k + 1] /\ t[k + 1] = s[k]
  BY <1>1, TurnIs
<1> HIDE DEF t
<1>3. ASSUME NEW i \in 1 .. n, NEW j \in 1 .. n, i < j, t[i] # b, t[j] # b
      PROVE  h[t[j]] <= h[t[i]]
  <2>1. ~(i = k /\ j = k + 1)
    BY <1>2, <1>3
  <2>2. Turn(k, i) < Turn(k, j)
    BY <1>3, <2>1, TurnIs
  <2> QED
    BY <1>1, <1>3, <2>2 DEF OthersOrdered
<1> QED
  BY <1>3 DEF OthersOrdered, t

\* A is L but for the list, which s gives, with b at its k-th place.
Listed(U, L, A, n, s, b, k) ==
  /\ A \in Ledger /\ A.amount = L.amount /\ A.balance = L.balance
  /\ \A x \in Blocks \ U : A.next[x] = L.next[x]
  /\ Doubly(U, A, n, s) /\ OthersOrdered(L.amount, n, s, b) /\ s[k] = b

LEMMA ListedPlace ==
  ASSUME NEW U, U \subseteq Blocks, NEW L, NEW A, NEW n \in Nat, NEW s, NEW b,
         NEW k \in 1 .. n, Listed(U, L, A, n, s, b, k)
  PROVE  \A i \in 1 .. n : s[i] \in U /\ s[i] # None
<1>1. None \notin U /\ s \in [1 .. n -> U]
  BY Sorts DEF Listed, Doubly, Strung
<1> QED
  BY <1>1

LEMMA ListedSwaps ==
  ASSUME NEW U, U \subseteq Blocks, NEW L, NEW A, NEW n \in Nat, NEW s, NEW b,
         NEW k \in 1 .. n, Listed(U, L, A, n, s, b, k)
  PROVE  /\ k # 1 => /\ Listed(U, L, Swap(A, s[k - 1], b), n, Turned(s, n, k - 1), b, k - 1)
                     /\ Turned(s, n, k - 1)[k] = s[k - 1]
         /\ k # n => /\ Listed(U, L, Swap(A, b, s[k + 1]), n, Turned(s, n, k), b, k + 1)
                     /\ Turned(s, n, k)[k] = s[k + 1]
<1>0. \A i \in 1 .. n : s[i] \in U /\ s[i] # None
  BY ListedPlace
<1>1. /\ A \in Ledger /\ Doubly(U, A, n, s) /\ s[k] = b
      /\ \A i \in 1 .. n : s[i] \in U /\ s[i] # None
  BY <1>0 DEF Listed
<1>2. ASSUME NEW j \in 1 .. n - 1, j = k \/ j + 1 = k
      PROVE  /\ Swap(A, s[j], s[j + 1]) \in Ledger
             /\ Swap(A, s[j], s[j + 1]).amount = L.amount
             /\ Swap(A, s[j], s[j + 1]).balance = L.balance
             /\ \A x \in Blocks \ U : Swap(A, s[j], s[j + 1]).next[x] = L.next[x]
             /\ Doubly(U, Swap(A, s[j], s[j + 1]), n, Turned(s, n, j))
             /\ OthersOrdered(L.amount, n, Turned(s, n, j), b)
             /\ Turned(s, n, j)[j] = s[j + 1] /\ Turned(s, n, j)[j + 1] = s[j]
  <2>1. j \in 1 .. n /\ j + 1 \in 1 .. n
    OBVIOUS
  <2>2. s[j] \in Blocks /\ s[j + 1] \in Blocks
    BY <1>1, <2>1
  <2>3. /\ Swap(A, s[j], s[j + 1]) \in Ledger
        /\ Swap(A, s[j], s[j + 1]).amount = L.amount
        /\ Swap(A, s[j], s[j + 1]).balance = L.balance
    BY <1>1, <2>2, SwapTyped DEF Listed
  <2>4. /\ Doubly(U, Swap(A, s[j], s[j + 1]), n, Turned(s, n, j))
        /\ \A x \in Blocks \ U : Swap(A, s[j], s[j + 1]).next[x] = A.next[x]
    <3>1. A \in Ledger /\ Doubly(U, A, n, s)
      BY <1>1
    <3>2. Doubly(U, Swap(A, s[j], s[j + 1]), n, Turned(s, n, j))
      BY <3>1, SwapTurns
    <3>3. Untouched(U, A, Swap(A, s[j], s[j + 1]))
      BY <3>1, SwapTurns
    <3> QED
      BY <3>2, <3>3 DEF Untouched
  <2>5. OthersOrdered(L.amount, n, Turned(s, n, j), b)
    BY <1>1, <1>2, OrderTurns DEF Listed
  <2>6. Turned(s, n, j)[j] = s[j + 1] /\ Turned(s, n, j)[j + 1] = s[j]
    BY <2>1, TurnIs DEF Turned
  <2> QED
    BY <2>3, <2>4, <2>5, <2>6 DEF Listed
<1>3. CASE k # 1
  <2>1. k - 1 \in 1 .. n - 1 /\ (k - 1) + 1 = k
    BY <1>3
  <2>2. /\ Listed(U, L, Swap(A, s[k - 1], b), n, Turned(s, n, k - 1), b, k - 1)
        /\ Turned(s, n, k - 1)[k] = s[k - 1]
    BY <1>1, <1>2, <2>1 DEF Listed
  <2>3. k # n => k \in 1 .. n - 1
    OBVIOUS
  <2>4. k # n => /\ Listed(U, L, Swap(A, b, s[k + 1]), n, Turned(s, n, k), b, k + 1)
                 /\ Turned(s, n, k)[k] = s[k + 1]
    BY <1>1, <1>2, <2>3 DEF Listed
  <2> QED
    BY <1>1, <2>2, <2>4
<1>4. CASE k = 1
  <2>1. k # n => k \in 1 .. n - 1
    OBVIOUS
  <2>2. k # n => /\ Listed(U, L, Swap(A, b, s[k + 1]), n, Turned(s, n, k), b, k + 1)
                 /\ Turned(s, n, k)[k] = s[k + 1]
    BY <1>1, <1>2, <2>1 DEF Listed
  <2> QED
    BY <1>1, <1>4, <2>2
<1> QED
  BY <1>3, <1>4

LEMMA Richer ==
  ASSUME NEW A \in Ledger
  PROVE  \A x \in Blocks : A.amount[x] \in Nat
BY Words DEF Ledger

\* One turn of each loop of accept_amount.
Up(A, b) ==
  LET t == A.prev[b] IN IF t # None /\ A.amount[b] > A.amount[t] THEN Swap(A, t, b) ELSE A
Down(A, b) ==
  LET t == A.next[b] IN IF t # None /\ A.amount[b] < A.amount[t] THEN Swap(A, b, t) ELSE A

LEMMA StepsUp ==
  ASSUME NEW U, U \subseteq Blocks, NEW L, NEW A, NEW n \in Nat, NEW s, NEW b \in Blocks,
         NEW k \in 1 .. n, Listed(U, L, A, n, s, b, k)
  PROVE  IF k = 1 \/ L.amount[b] <= L.amount[s[k - 1]]
         THEN Up(A, b) = A
         ELSE Listed(U, L, Up(A, b), n, Turned(s, n, k - 1), b, k - 1)
<1>1. /\ A \in Ledger /\ A.amount = L.amount
      /\ \A x \in Blocks : L.amount[x] \in Nat
  BY Richer DEF Listed
<1>2. /\ k = 1 => A.prev[b] = None
      /\ k # 1 => A.prev[b] = s[k - 1]
  BY DEF Listed, Doubly
<1>3. \A i \in 1 .. n : s[i] \in Blocks /\ s[i] # None
  BY ListedPlace
<1>4. k # 1 => k - 1 \in 1 .. n
  OBVIOUS
<1>5. CASE k = 1
  BY <1>2, <1>5 DEF Up
<1>6. CASE k # 1 /\ L.amount[b] <= L.amount[s[k - 1]]
  BY <1>1, <1>2, <1>3, <1>4, <1>6 DEF Up
<1>7. CASE k # 1 /\ ~(L.amount[b] <= L.amount[s[k - 1]])
  <2>1. L.amount[b] > L.amount[s[k - 1]]
    BY <1>1, <1>3, <1>4, <1>7
  <2>2. Up(A, b) = Swap(A, s[k - 1], b)
    BY <1>1, <1>2, <1>3, <1>4, <1>7, <2>1 DEF Up
  <2>3. Listed(U, L, Swap(A, s[k - 1], b), n, Turned(s, n, k - 1), b, k - 1)
    BY <1>7, ListedSwaps
  <2> QED
    BY <1>7, <2>2, <2>3
<1> QED
  BY <1>5, <1>6, <1>7

LEMMA StepsDown ==
  ASSUME NEW U, U \subseteq Blocks, NEW L, NEW A, NEW n \in Nat, NEW s, NEW b \in Blocks,
         NEW k \in 1 .. n, Listed(U, L, A, n, s, b, k)
  PROVE  IF k = n \/ L.amount[s[k + 1]] <= L.amount[b]
         THEN Down(A, b) = A
         ELSE /\ Listed(U, L, Down(A, b), n, Turned(s, n, k), b, k + 1)
              /\ L.amount[b] <= L.amount[Turned(s, n, k)[k]]
<1>1. /\ A \in Ledger /\ A.amount = L.amount
      /\ \A x \in Blocks : L.amount[x] \in Nat
  BY Richer DEF Listed
<1>2. /\ k = n => A.next[b] = None
      /\ k # n => A.next[b] = s[k + 1]
  BY DEF Listed, Doubly, Strung
<1>3. \A i \in 1 .. n : s[i] \in Blocks /\ s[i] # None
  BY ListedPlace
<1>4. k # n => k + 1 \in 1 .. n
  OBVIOUS
<1>5. CASE k = n
  BY <1>2, <1>5 DEF Down
<1>6. CASE k # n /\ L.amount[s[k + 1]] <= L.amount[b]
  BY <1>1, <1>2, <1>3, <1>4, <1>6 DEF Down
<1>7. CASE k # n /\ ~(L.amount[s[k + 1]] <= L.amount[b])
  <2>1. L.amount[b] < L.amount[s[k + 1]]
    BY <1>1, <1>3, <1>4, <1>7
  <2>2. Down(A, b) = Swap(A, b, s[k + 1])
    BY <1>1, <1>2, <1>3, <1>4, <1>7, <2>1 DEF Down
  <2>3. Listed(U, L, Swap(A, b, s[k + 1]), n, Turned(s, n, k), b, k + 1)
    BY <1>7, ListedSwaps
  <2>4. Turned(s, n, k)[k] = s[k + 1]
    BY <1>7, ListedSwaps
  <2>5. L.amount[b] <= L.amount[s[k + 1]]
    BY <1>1, <1>3, <1>4, <1>7, <2>1
  <2> QED
    BY <1>7, <2>2, <2>3, <2>4, <2>5
<1> QED
  BY <1>5, <1>6, <1>7

LEMMA OursFinite ==
  ASSUME NEW U, U \subseteq Blocks, U \subseteq Ours, NEW A, NEW n \in Nat, NEW s, Doubly(U, A, n, s)
  PROVE  Cardinality(Ours) \in Nat /\ n <= Cardinality(Ours)
<1>1. Cardinality(U) = n
  BY WalkIs DEF Doubly
<1> QED
  BY <1>1, ChainAssumption, FS_Subset, FS_CardinalityType DEF ChainAssumption

LEMMA MovesUp ==
  ASSUME NEW U, U \subseteq Blocks, U \subseteq Ours, NEW L \in Ledger, NEW n \in Nat, NEW s,
         NEW b \in U, NEW k \in 1 .. n, Listed(U, L, L, n, s, b, k)
  PROVE  \E t : \E j \in 1 .. n :
           /\ Listed(U, L, MoveUp(L, b), n, t, b, j)
           /\ j = 1 \/ L.amount[b] <= L.amount[t[j - 1]]
<1> DEFINE N == Cardinality(Ours)
           h == L.amount
           F == [i \in 1 .. N |-> [A \in Ledger |->
                  LET t == A.prev[b]
                  IN IF t # None /\ A.amount[b] > A.amount[t] THEN Swap(A, t, b) ELSE A]]
           Fine(A, m) ==
             \E t : \E j \in 1 .. n :
               /\ Listed(U, L, A, n, t, b, j)
               /\ j = 1 \/ h[b] <= h[t[j - 1]] \/ j <= N - m
           T == {m \in Nat : Fine(Iterate(F, L, m), m)}
<1>0. N \in Nat /\ n <= N
  BY OursFinite DEF Listed
<1>1. \A i \in 1 .. N : \A A \in Ledger : F[i][A] = Up(A, b)
  BY DEF Up
<1> HIDE DEF N, F
<1>2. 0 \in T
  <2>1. k <= N - 0
    BY <1>0
  <2>2. Fine(L, 0)
    BY <2>1
  <2> HIDE DEF Fine
  <2> QED
    BY <2>2, IterateSteps
<1>3. ASSUME NEW m \in 0 .. N - 1, NEW A, Fine(A, m)
      PROVE  Fine(F[m + 1][A], m + 1)
  <2>1. PICK t, j : /\ j \in 1 .. n /\ Listed(U, L, A, n, t, b, j)
                    /\ j = 1 \/ h[b] <= h[t[j - 1]] \/ j <= N - m
    BY <1>3
  <2>2. m + 1 \in 1 .. N /\ m \in Nat
    BY <1>0
  <2>3. F[m + 1][A] = Up(A, b)
    BY <1>1, <2>1, <2>2 DEF Listed
  <2>4. IF j = 1 \/ h[b] <= h[t[j - 1]]
        THEN Up(A, b) = A
        ELSE Listed(U, L, Up(A, b), n, Turned(t, n, j - 1), b, j - 1)
    BY <2>1, StepsUp
  <2>5. CASE j = 1 \/ h[b] <= h[t[j - 1]]
    BY <2>1, <2>3, <2>4, <2>5
  <2>6. CASE ~(j = 1 \/ h[b] <= h[t[j - 1]])
    <3>1. j - 1 <= N - (m + 1) /\ j - 1 \in 1 .. n
      BY <1>0, <2>1, <2>2, <2>6
    <3>2. Listed(U, L, F[m + 1][A], n, Turned(t, n, j - 1), b, j - 1)
      BY <2>3, <2>4, <2>6
    <3> QED
      BY <3>1, <3>2
  <2> QED
    BY <2>5, <2>6
<1>4. ASSUME NEW m \in 0 .. N - 1, m \in T PROVE m + 1 \in T
  <2>1. m \in Nat /\ m + 1 \in Nat
    BY <1>0
  <2> HIDE DEF Fine
  <2>2. Fine(F[m + 1][Iterate(F, L, m)], m + 1)
    BY <1>3, <1>4
  <2>3. Iterate(F, L, m + 1) = F[m + 1][Iterate(F, L, m)]
    BY <2>1, IterateSteps
  <2> QED
    BY <2>1, <2>2, <2>3
<1>5. \A m \in 0 .. N : m \in T
  <2> HIDE DEF T
  <2> QED
    BY <1>0, <1>2, <1>4, Stepping
<1>6. Fine(Iterate(F, L, N), N)
  <2>1. N \in 0 .. N
    BY <1>0
  <2> HIDE DEF Fine
  <2> QED
    BY <2>1, <1>5
<1>7. MoveUp(L, b) = Iterate(F, L, N)
  BY DEF MoveUp, F, N
<1>8. PICK t, j : /\ j \in 1 .. n /\ Listed(U, L, MoveUp(L, b), n, t, b, j)
                  /\ j = 1 \/ h[b] <= h[t[j - 1]] \/ j <= N - N
  BY <1>6, <1>7
<1>9. ~(j <= N - N) /\ j \in 1 .. n
  BY <1>0, <1>8
<1> QED
  BY <1>8, <1>9

LEMMA MovesDown ==
  ASSUME NEW U, U \subseteq Blocks, U \subseteq Ours, NEW L, NEW B, NEW n \in Nat, NEW s,
         NEW b \in U, NEW k \in 1 .. n, Listed(U, L, B, n, s, b, k),
         k = 1 \/ L.amount[b] <= L.amount[s[k - 1]]
  PROVE  \E t : \E j \in 1 .. n :
           /\ Listed(U, L, MoveDown(B, b), n, t, b, j)
           /\ j = 1 \/ L.amount[b] <= L.amount[t[j - 1]]
           /\ j = n \/ L.amount[t[j + 1]] <= L.amount[b]
<1> DEFINE N == Cardinality(Ours)
           h == L.amount
           F == [i \in 1 .. N |-> [A \in Ledger |->
                  LET t == A.next[b]
                  IN IF t # None /\ A.amount[b] < A.amount[t] THEN Swap(A, b, t) ELSE A]]
           Fine(A, m) ==
             \E t : \E j \in 1 .. n :
               /\ Listed(U, L, A, n, t, b, j)
               /\ j = 1 \/ h[b] <= h[t[j - 1]]
               /\ j = n \/ h[t[j + 1]] <= h[b] \/ n - j + 1 <= N - m
           T == {m \in Nat : Fine(Iterate(F, B, m), m)}
<1>0. N \in Nat /\ n <= N
  BY OursFinite DEF Listed
<1>1. \A i \in 1 .. N : \A A \in Ledger : F[i][A] = Down(A, b)
  BY DEF Down
<1> HIDE DEF N, F
<1>2. 0 \in T
  <2>1. n - k + 1 <= N - 0
    BY <1>0
  <2>2. Fine(B, 0)
    BY <2>1
  <2> HIDE DEF Fine
  <2> QED
    BY <2>2, IterateSteps
<1>3. ASSUME NEW m \in 0 .. N - 1, NEW A, Fine(A, m)
      PROVE  Fine(F[m + 1][A], m + 1)
  <2>1. PICK t, j : /\ j \in 1 .. n /\ Listed(U, L, A, n, t, b, j)
                    /\ j = 1 \/ h[b] <= h[t[j - 1]]
                    /\ j = n \/ h[t[j + 1]] <= h[b] \/ n - j + 1 <= N - m
    BY <1>3
  <2>2. m + 1 \in 1 .. N /\ m \in Nat
    BY <1>0
  <2>3. F[m + 1][A] = Down(A, b)
    BY <1>1, <2>1, <2>2 DEF Listed
  <2>4. IF j = n \/ h[t[j + 1]] <= h[b]
        THEN Down(A, b) = A
        ELSE /\ Listed(U, L, Down(A, b), n, Turned(t, n, j), b, j + 1)
             /\ h[b] <= h[Turned(t, n, j)[j]]
    BY <2>1, StepsDown
  <2>5. CASE j = n \/ h[t[j + 1]] <= h[b]
    BY <2>1, <2>3, <2>4, <2>5
  <2>6. CASE ~(j = n \/ h[t[j + 1]] <= h[b])
    <3> DEFINE u == Turned(t, n, j)
               i == j + 1
    <3>1. n - i + 1 <= N - (m + 1) /\ i \in 1 .. n /\ i - 1 = j
      BY <1>0, <2>1, <2>2, <2>6
    <3>2. Listed(U, L, F[m + 1][A], n, u, b, i) /\ h[b] <= h[u[j]]
      BY <2>3, <2>4, <2>6
    <3>3. h[b] <= h[u[i - 1]]
      BY <3>1, <3>2
    <3> HIDE DEF u, i
    <3> QED
      BY <3>1, <3>2, <3>3
  <2> QED
    BY <2>5, <2>6
<1>4. ASSUME NEW m \in 0 .. N - 1, m \in T PROVE m + 1 \in T
  <2>1. m \in Nat /\ m + 1 \in Nat
    BY <1>0
  <2> HIDE DEF Fine
  <2>2. Fine(F[m + 1][Iterate(F, B, m)], m + 1)
    BY <1>3, <1>4
  <2>3. Iterate(F, B, m + 1) = F[m + 1][Iterate(F, B, m)]
    BY <2>1, IterateSteps
  <2> QED
    BY <2>1, <2>2, <2>3
<1>5. \A m \in 0 .. N : m \in T
  <2> HIDE DEF T
  <2> QED
    BY <1>0, <1>2, <1>4, Stepping
<1>6. Fine(Iterate(F, B, N), N)
  <2>1. N \in 0 .. N
    BY <1>0
  <2> HIDE DEF Fine
  <2> QED
    BY <2>1, <1>5
<1>7. MoveDown(B, b) = Iterate(F, B, N)
  BY DEF MoveDown, F, N
<1>8. PICK t, j : /\ j \in 1 .. n /\ Listed(U, L, MoveDown(B, b), n, t, b, j)
                  /\ j = 1 \/ h[b] <= h[t[j - 1]]
                  /\ j = n \/ h[t[j + 1]] <= h[b] \/ n - j + 1 <= N - N
  BY <1>6, <1>7
<1>9. ~(n - j + 1 <= N - N) /\ j \in 1 .. n
  BY <1>0, <1>8
<1> QED
  BY <1>8, <1>9

\* With b between a richer and a poorer neighbour the whole list is sorted.
LEMMA SortedBetween ==
  ASSUME NEW U, U \subseteq Blocks, NEW L, NEW A, NEW n \in Nat, NEW s, NEW b \in Blocks,
         NEW k \in 1 .. n, Listed(U, L, A, n, s, b, k),
         k = 1 \/ L.amount[b] <= L.amount[s[k - 1]],
         k = n \/ L.amount[s[k + 1]] <= L.amount[b]
  PROVE  Ordered(L.amount, n, s)
<1> DEFINE h == L.amount
<1>0. \A x \in Blocks : h[x] \in Nat
  BY Richer DEF Listed
<1>1. \A i \in 1 .. n : s[i] \in Blocks
  BY ListedPlace
<1>2. s[k] = b /\ OthersOrdered(h, n, s, b) /\ \A i, j \in 1 .. n : s[i] = s[j] => i = j
  BY DEF Listed, Doubly, Strung
<1> HIDE DEF h
<1>3. \A i \in 1 .. n : i # k => s[i] # b
  BY <1>2
<1>4. \A i, j \in 1 .. n : i < j /\ i # k /\ j # k => h[s[j]] <= h[s[i]]
  BY <1>2, <1>3 DEF OthersOrdered
<1>5. ASSUME NEW i \in 1 .. n, i < k PROVE h[b] <= h[s[i]]
  <2>1. k - 1 \in 1 .. n /\ k # 1 /\ (i = k - 1 \/ i < k - 1) /\ k - 1 # k /\ i # k
    BY <1>5
  <2>2. h[b] <= h[s[k - 1]]
    BY <2>1 DEF h
  <2>3. h[s[k - 1]] <= h[s[i]]
    BY <1>0, <1>1, <1>4, <2>1
  <2> QED
    BY <1>0, <1>1, <2>1, <2>2, <2>3
<1>6. ASSUME NEW j \in 1 .. n, k < j PROVE h[s[j]] <= h[b]
  <2>1. k + 1 \in 1 .. n /\ k # n /\ (j = k + 1 \/ k + 1 < j) /\ k + 1 # k /\ j # k
    BY <1>6
  <2>2. h[s[k + 1]] <= h[b]
    BY <2>1 DEF h
  <2>3. h[s[j]] <= h[s[k + 1]]
    BY <1>0, <1>1, <1>4, <2>1
  <2> QED
    BY <1>0, <1>1, <2>1, <2>2, <2>3
<1>7. \A i, j \in 1 .. n : i < j => h[s[j]] <= h[s[i]]
  BY <1>2, <1>4, <1>5, <1>6
<1> QED
  BY <1>7 DEF Ordered, h

\* The ledgers whose list holds our blocks among K, sorted, and whose balance is
\* their sum; blocks that are not in K have had no part in it.
OurLists(K) ==
  {A \in Ledger :
     /\ \E n, s : n \in Nat /\ Doubly(K \cap Ours, A, n, s) /\ Ordered(A.amount, n, s)
     /\ A.balance = SumOver(A.amount, K \cap Ours) % Word
     /\ \A x \in Blocks \ K : A.next[x] = None /\ A.amount[x] = 0}

LEMMA SameLists ==
  ASSUME NEW K, NEW A \in OurLists(K), NEW B \in Ledger,
         B.amount = A.amount, B.balance = A.balance, B.first = A.first, B.last = A.last,
         B.prev = A.prev, B.next = A.next
  PROVE  B \in OurLists(K)
<1>1. PICK n, s : n \in Nat /\ Doubly(K \cap Ours, A, n, s) /\ Ordered(A.amount, n, s)
  BY DEF OurLists
<1>2. Doubly(K \cap Ours, B, n, s) /\ Ordered(B.amount, n, s)
  BY <1>1 DEF Doubly
<1>3. /\ B.balance = SumOver(B.amount, K \cap Ours) % Word
      /\ \A x \in Blocks \ K : B.next[x] = None /\ B.amount[x] = 0
  BY DEF OurLists
<1> QED
  BY <1>1, <1>2, <1>3 DEF OurLists

LEMMA SumPaid ==
  ASSUME NEW U, U \subseteq Blocks, NEW h \in [Blocks -> 0 .. Word - 1], NEW b \in U,
         NEW sum \in Int
  PROVE  SumOver([h EXCEPT ![b] = Plus(@, sum)], U) % Word = Plus(SumOver(h, U) % Word, sum)
<1> DEFINE k == [h EXCEPT ![b] = Plus(@, sum)]
           R == U \ {b}
<1>0. Word \in Nat /\ (\A x \in 0 .. Word - 1 : x \in Nat /\ x \in Int)
      /\ h[b] \in 0 .. Word - 1
  BY Words
<1>1. Plus(h[b], sum) \in 0 .. Word - 1
  BY <1>0, Words
<1>2. h \in [Blocks -> Nat] /\ k \in [Blocks -> Nat]
  BY <1>0, <1>1
<1>3. k[b] = Plus(h[b], sum) /\ \A x \in R : k[x] = h[x]
  OBVIOUS
<1> HIDE DEF k
<1>4. SumOver(h, U) = h[b] + SumOver(h, R)
  BY <1>2, SumTakes
<1>5. SumOver(k, U) = k[b] + SumOver(k, R)
  BY <1>2, SumTakes
<1>6. SumOver(k, R) = SumOver(h, R)
  BY <1>3, SumSame
<1>7. SumOver(h, R) \in Nat
  BY <1>2, SumTyping
<1>8. (SumOver(h, R) + Plus(h[b], sum)) % Word = Plus((SumOver(h, R) + h[b]) % Word, sum)
  BY <1>0, <1>7, SumShifts
<1>9. /\ SumOver(h, U) = SumOver(h, R) + h[b]
      /\ SumOver(k, U) = SumOver(h, R) + Plus(h[b], sum)
  BY <1>0, <1>1, <1>3, <1>4, <1>5, <1>6, <1>7
<1> QED
  BY <1>8, <1>9 DEF k

LEMMA AcceptSorts ==
  ASSUME NEW K, K \subseteq Blocks, NEW A \in OurLists(K), NEW b \in K, NEW sum \in Int
  PROVE  Accept(A, b, sum) \in OurLists(K)
<1> DEFINE U == K \cap Ours
           h == [A.amount EXCEPT ![b] = Plus(@, sum)]
           paid == [A EXCEPT !.amount[b] = Plus(@, sum)]
           L == [paid EXCEPT !.balance = Plus(@, sum)]
<1>0. /\ A \in Ledger /\ b \in Blocks /\ U \subseteq Blocks /\ U \subseteq Ours
      /\ A.amount \in [Blocks -> 0 .. Word - 1] /\ A.balance \in 0 .. Word - 1
      /\ A.balance = SumOver(A.amount, U) % Word
      /\ \A x \in Blocks \ K : A.next[x] = None /\ A.amount[x] = 0
  BY DEF OurLists, Ledger
<1>1. PICK n, s : n \in Nat /\ Doubly(U, A, n, s) /\ Ordered(A.amount, n, s)
  BY DEF OurLists
<1>2. \A x \in 0 .. Word - 1 : Plus(x, sum) \in 0 .. Word - 1
  BY Words
<1>3. /\ h \in [Blocks -> 0 .. Word - 1] /\ h[b] = Plus(A.amount[b], sum)
      /\ \A x \in Blocks \ {b} : h[x] = A.amount[x]
  BY <1>0, <1>2
<1>4. paid = [A EXCEPT !.amount = h]
  OBVIOUS
<1> HIDE DEF h
<1>5. /\ paid \in Ledger /\ paid.amount = h /\ paid.balance = A.balance
      /\ paid.first = A.first /\ paid.last = A.last /\ paid.prev = A.prev /\ paid.next = A.next
  BY <1>0, <1>3, <1>4 DEF Ledger
<1> HIDE DEF paid
<1>6. /\ L \in Ledger /\ L.amount = h /\ L.balance = Plus(A.balance, sum)
      /\ L.first = A.first /\ L.last = A.last /\ L.prev = A.prev /\ L.next = A.next
  BY <1>0, <1>2, <1>5 DEF Ledger
<1> HIDE DEF L, U
<1>7. CASE b \in Ours /\ sum # 0
  <2>0. b \in U
    BY <1>7 DEF U
  <2>1. PICK k \in 1 .. n : s[k] = b
    BY <1>1, <2>0 DEF Doubly, Strung
  <2>2. OthersOrdered(h, n, s, b)
    <3>1. \A i \in 1 .. n : s[i] \in Blocks
      BY <1>0, <1>1 DEF Doubly, Strung
    <3> QED
      BY <1>1, <1>3, <3>1 DEF Ordered, OthersOrdered
  <2>3. Doubly(U, L, n, s)
    BY <1>1, <1>6 DEF Doubly
  <2>4. Listed(U, L, L, n, s, b, k)
    BY <1>6, <2>1, <2>2, <2>3 DEF Listed
  <2> DEFINE M == MoveUp(L, b)
             D == MoveDown(M, b)
  <2>5. PICK t : \E j \in 1 .. n : /\ Listed(U, L, M, n, t, b, j)
                                   /\ j = 1 \/ L.amount[b] <= L.amount[t[j - 1]]
    BY <1>0, <1>1, <1>6, <2>0, <2>4, MovesUp
  <2>6. PICK j \in 1 .. n : /\ Listed(U, L, M, n, t, b, j)
                            /\ j = 1 \/ L.amount[b] <= L.amount[t[j - 1]]
    BY <2>5
  <2> HIDE DEF M
  <2>7. PICK v : \E i \in 1 .. n : /\ Listed(U, L, D, n, v, b, i)
                                   /\ i = 1 \/ L.amount[b] <= L.amount[v[i - 1]]
                                   /\ i = n \/ L.amount[v[i + 1]] <= L.amount[b]
    BY <1>0, <1>1, <2>0, <2>6, MovesDown
  <2>8. PICK i \in 1 .. n : /\ Listed(U, L, D, n, v, b, i)
                            /\ i = 1 \/ L.amount[b] <= L.amount[v[i - 1]]
                            /\ i = n \/ L.amount[v[i + 1]] <= L.amount[b]
    BY <2>7
  <2> HIDE DEF D
  <2>9. Ordered(L.amount, n, v)
    BY <1>0, <1>1, <2>8, SortedBetween
  <2>10. /\ D \in Ledger /\ D.amount = h /\ D.balance = Plus(A.balance, sum)
         /\ Doubly(U, D, n, v) /\ Ordered(D.amount, n, v)
         /\ \A x \in Blocks \ U : D.next[x] = A.next[x]
    BY <1>6, <2>8, <2>9 DEF Listed
  <2>11. D.balance = SumOver(D.amount, U) % Word
    <3>1. SumOver(h, U) % Word = Plus(SumOver(A.amount, U) % Word, sum)
      BY <1>0, <2>0, SumPaid DEF h
    <3> QED
      BY <1>0, <2>10, <3>1
  <2>12. \A x \in Blocks \ K : D.next[x] = None /\ D.amount[x] = 0
    <3>1. \A x \in Blocks \ K : x \in Blocks \ U /\ x # b
      BY DEF U
    <3> QED
      BY <1>0, <1>3, <2>10, <3>1
  <2>13. D \in OurLists(K)
    BY <1>1, <2>10, <2>11, <2>12 DEF OurLists, U
  <2>14. Accept(A, b, sum) = D
    BY <1>7 DEF Accept, D, M, L, paid
  <2> QED
    BY <2>13, <2>14
<1>8. CASE ~(b \in Ours /\ sum # 0)
  <2>1. Accept(A, b, sum) = paid
    BY <1>8 DEF Accept, paid
  <2>2. \A x \in U : h[x] = A.amount[x]
    <3>1. CASE b \notin Ours
      BY <1>0, <1>3, <3>1
    <3>2. CASE sum = 0
      <4>1. Plus(A.amount[b], 0) = A.amount[b]
        <5>1. A.amount[b] \in 0 .. Word - 1 /\ Word \in Nat
          BY <1>0, Words
        <5> QED
          BY <5>1 DEF Plus
      <4> QED
        BY <1>0, <1>3, <3>2, <4>1
    <3> QED
      BY <1>8, <3>1, <3>2
  <2>3. SumOver(h, U) = SumOver(A.amount, U)
    BY <1>0, <2>2, SumSame
  <2>4. Doubly(U, paid, n, s)
    BY <1>1, <1>5 DEF Doubly
  <2>5. Ordered(h, n, s)
    <3>1. \A i \in 1 .. n : s[i] \in U
      BY <1>1 DEF Doubly, Strung
    <3> QED
      BY <1>1, <2>2, <3>1 DEF Ordered
  <2>6. \A x \in Blocks \ K : paid.next[x] = None /\ paid.amount[x] = 0
    <3>1. \A x \in Blocks \ K : x # b
      OBVIOUS
    <3> QED
      BY <1>0, <1>3, <1>5, <3>1
  <2>7. paid \in OurLists(K)
    BY <1>0, <1>1, <1>5, <2>3, <2>4, <2>5, <2>6 DEF OurLists, U
  <2> QED
    BY <2>1, <2>7
<1> QED
  BY <1>7, <1>8

LEMMA OurListsKept ==
  ASSUME Grounded, NEW G, Kept(G), Free(G)
  PROVE  Kept(G \cap OurLists(known)) /\ Free(G \cap OurLists(known))
<1> DEFINE H == G \cap OurLists(known)
<1>0. known \subseteq Blocks /\ linked \subseteq known /\ G \subseteq Ledger
  BY DEF Grounded, Kept
<1>1. \A A \in H, x \in known, sum \in Int : Accept(A, x, sum) \in H
  <2> TAKE A \in H, x \in known, sum \in Int
  <2>1. Accept(A, x, sum) \in G
    BY DEF Kept
  <2>2. Accept(A, x, sum) \in OurLists(known)
    BY <1>0, AcceptSorts
  <2> QED
    BY <2>1, <2>2
<1>2. ASSUME NEW A \in H, NEW B \in G,
             B.amount = A.amount, B.balance = A.balance, B.first = A.first, B.last = A.last,
             B.prev = A.prev, B.next = A.next
      PROVE  B \in H
  <2>1. B \in Ledger
    BY <1>0
  <2>2. B \in OurLists(known)
    BY <1>2, <2>1, SameLists
  <2> QED
    BY <2>2
<1>3. ASSUME NEW A \in H, NEW x \in known
      PROVE  /\ [A EXCEPT !.mainRef = @ \cup {x}] \in H
             /\ [A EXCEPT !.mainRef = @ \ {x}] \in H
             /\ [A EXCEPT !.applied = @ \cup {x}] \in H
             /\ [A EXCEPT !.applied = @ \ {x}] \in H
             /\ [A EXCEPT !.unearned = @ \/ Fee[x] > 0] \in H
             /\ \A y \in linked : [A EXCEPT !.ref[y] = x] \in H
  <2>1. A \in Ledger /\ A \in G
    BY <1>0
  <2>2. [A EXCEPT !.mainRef = @ \cup {x}] \in H
    <3>1. [A EXCEPT !.mainRef = @ \cup {x}] \in G
      BY <2>1 DEF Kept
    <3> QED
      BY <1>2, <2>1, <3>1 DEF Ledger
  <2>3. [A EXCEPT !.mainRef = @ \ {x}] \in H
    <3>1. [A EXCEPT !.mainRef = @ \ {x}] \in G
      BY <2>1 DEF Kept
    <3> QED
      BY <1>2, <2>1, <3>1 DEF Ledger
  <2>4. [A EXCEPT !.applied = @ \cup {x}] \in H
    <3>1. [A EXCEPT !.applied = @ \cup {x}] \in G
      BY <2>1 DEF Kept
    <3> QED
      BY <1>2, <2>1, <3>1 DEF Ledger
  <2>5. [A EXCEPT !.applied = @ \ {x}] \in H
    <3>1. [A EXCEPT !.applied = @ \ {x}] \in G
      BY <2>1 DEF Kept
    <3> QED
      BY <1>2, <2>1, <3>1 DEF Ledger
  <2>6. [A EXCEPT !.unearned = @ \/ Fee[x] > 0] \in H
    <3>1. [A EXCEPT !.unearned = @ \/ Fee[x] > 0] \in G
      BY <2>1 DEF Kept
    <3> QED
      BY <1>2, <2>1, <3>1 DEF Ledger
  <2>7. ASSUME NEW y \in linked PROVE [A EXCEPT !.ref[y] = x] \in H
    <3>1. [A EXCEPT !.ref[y] = x] \in G
      BY <2>1 DEF Kept
    <3> QED
      BY <1>2, <2>1, <3>1 DEF Ledger
  <2> HIDE DEF H
  <2> QED
    BY <2>2, <2>3, <2>4, <2>5, <2>6, <2>7
<1>4. H \subseteq Ledger
  BY <1>0
<1>5. \A A \in H, c \in Int : [A EXCEPT !.nmain = c] \in H
  <2> TAKE A \in H, c \in Int
  <2>1. A \in Ledger /\ [A EXCEPT !.nmain = c] \in G
    BY <1>0 DEF Free
  <2> QED
    BY <1>2, <2>1 DEF Ledger
<1>6. Kept(H)
  <2> HIDE DEF H
  <2> QED
    BY <1>1, <1>3, <1>4 DEF Kept
<1>7. Free(H)
  <2> HIDE DEF H
  <2> QED
    BY <1>5 DEF Free
<1> QED
  BY <1>6, <1>7

\* A new block joins the end of the list: nothing has been paid to it yet.
LEMMA OwnSorts ==
  ASSUME NEW K, K \subseteq Blocks, NEW L \in OurLists(K), NEW b \in Blocks \ K
  PROVE  Own(L, b) \in OurLists(K \cup {b})
<1> DEFINE U == K \cap Ours
           J == (K \cup {b}) \cap Ours
           h == L.amount
           p == [L.prev EXCEPT ![b] = L.last]
           q == IF L.last = None THEN L.next ELSE [L.next EXCEPT ![L.last] = b]
           f == IF L.last = None THEN b ELSE L.first
           O == Own(L, b)
<1>0. /\ L \in Ledger /\ U \subseteq Blocks /\ b \in Blocks /\ b \notin U
      /\ L.next \in [Blocks -> BlockOrNone] /\ L.prev \in [Blocks -> BlockOrNone]
      /\ h \in [Blocks -> 0 .. Word - 1] /\ L.balance = SumOver(h, U) % Word
      /\ \A x \in Blocks \ K : L.next[x] = None /\ h[x] = 0
  BY DEF OurLists, Ledger
<1>1. PICK n, s : n \in Nat /\ Doubly(U, L, n, s) /\ Ordered(h, n, s)
  BY DEF OurLists
<1>2. O \in Ledger /\ O.amount = h /\ O.balance = L.balance
  BY <1>0, OwnTyped
<1>3. h \in [Blocks -> Nat]
  <2>1. \A x \in 0 .. Word - 1 : x \in Nat
    BY Words
  <2> QED
    BY <1>0, <2>1
<1>4. CASE b \notin Ours
  <2>1. J = U /\ O = L
    BY <1>4 DEF Own
  <2> QED
    BY <1>0, <1>1, <2>1 DEF OurLists
<1>5. CASE b \in Ours
  <2> DEFINE t == Longer(s, n, b)
  <2>1. J = U \cup {b}
    BY <1>5
  <2>2. O = [L EXCEPT !.prev = p, !.last = b, !.next = q, !.first = f]
    <3>1. L.prev = [L.prev EXCEPT ![b] = L.prev[b]]
      BY <1>0
    <3> QED
      BY <1>5, <3>1 DEF Own
  <2>3. O.prev = p /\ O.last = b /\ O.next = q /\ O.first = f
    <3> HIDE DEF p, q, f
    <3> QED
      BY <1>0, <2>2 DEF Ledger
  <2> HIDE DEF U, J, h, O
  <2>4. Strung(U \cup {b}, q, f, b, n + 1, t)
    <3>1. /\ L.next[b] = None /\ Strung(U, L.next, L.first, L.last, n, s)
          /\ b \in Blocks \ U
      BY <1>0, <1>1 DEF Doubly
    <3>2. Strung(U \cup {b}, IF L.last = None THEN L.next ELSE [L.next EXCEPT ![L.last] = b],
                 IF L.last = None THEN b ELSE L.first, b, n + 1, Longer(s, n, b))
      BY <1>0, <1>1, <3>1, StringLengthens
    <3> QED
      BY <3>2
  <2>5. s \in [1 .. n -> U] /\ (n # 0 => L.last = s[n]) /\ (n = 0 => L.last = None)
        /\ \A i \in 1 .. n : L.prev[s[i]] = IF i = 1 THEN None ELSE s[i - 1]
    BY <1>1 DEF Doubly, Strung
  <2>6. /\ \A i \in 1 .. n : t[i] = s[i]
        /\ t[n + 1] = b
    BY <1>1 DEF Longer
  <2>7. \A i \in 1 .. n + 1 : p[t[i]] = IF i = 1 THEN None ELSE t[i - 1]
    <3> TAKE i \in 1 .. n + 1
    <3>1. CASE i = n + 1
      <4>1. p[t[i]] = L.last
        BY <1>0, <2>6, <3>1
      <4>2. (n # 0 => n \in 1 .. n /\ i # 1 /\ i - 1 = n) /\ (n = 0 => i = 1)
        BY <1>1, <3>1
      <4> HIDE DEF p, t
      <4> QED
        BY <2>5, <2>6, <4>1, <4>2
    <3>2. CASE i # n + 1
      <4>1. i \in 1 .. n /\ (i # 1 => i - 1 \in 1 .. n)
        BY <1>1, <3>2
      <4>2. t[i] = s[i] /\ s[i] \in U /\ s[i] # b /\ (i # 1 => t[i - 1] = s[i - 1])
        BY <1>0, <2>5, <2>6, <4>1
      <4>3. p[s[i]] = L.prev[s[i]]
        BY <1>0, <4>2
      <4> HIDE DEF p, t
      <4> QED
        BY <2>5, <4>1, <4>2, <4>3
    <3> QED
      BY <3>1, <3>2
  <2>8. Doubly(J, O, n + 1, t)
    <3> HIDE DEF p, q, f, t
    <3> QED
      BY <2>1, <2>3, <2>4, <2>7 DEF Doubly
  <2>9. Ordered(h, n + 1, t)
    <3> SUFFICES ASSUME NEW i \in 1 .. n + 1, NEW j \in 1 .. n + 1, i < j
                 PROVE  h[t[j]] <= h[t[i]]
      BY DEF Ordered
    <3>1. i \in 1 .. n /\ t[i] = s[i] /\ s[i] \in Blocks
      BY <1>0, <1>1, <2>5, <2>6
    <3>2. CASE j = n + 1
      <4>1. h[t[j]] = 0
        BY <1>0, <2>6, <3>2
      <4>2. h[s[i]] \in Nat
        BY <1>3, <3>1
      <4> QED
        BY <3>1, <4>1, <4>2
    <3>3. CASE j # n + 1
      <4>1. j \in 1 .. n
        BY <1>1, <3>3
      <4> HIDE DEF t
      <4> QED
        BY <1>1, <2>6, <3>1, <4>1 DEF Ordered
    <3> QED
      BY <3>2, <3>3
  <2>10. O.balance = SumOver(O.amount, J) % Word
    <3>1. SumOver(h, U \cup {b}) = h[b] + SumOver(h, (U \cup {b}) \ {b})
      BY <1>0, <1>3, SumTakes
    <3>2. (U \cup {b}) \ {b} = U /\ h[b] = 0 /\ SumOver(h, U) \in Nat
      BY <1>0, <1>3, SumTyping
    <3>3. SumOver(h, U \cup {b}) = SumOver(h, U)
      BY <3>1, <3>2
    <3> QED
      BY <1>0, <1>2, <2>1, <3>3
  <2>11. \A x \in Blocks \ (K \cup {b}) : O.next[x] = None /\ O.amount[x] = 0
    <3> TAKE x \in Blocks \ (K \cup {b})
    <3>1. L.next[x] = None /\ h[x] = 0
      BY <1>0
    <3>2. L.last \in K \cup {None} /\ x # L.last
      <4>1. n # 0 => L.last \in U
        BY <1>1, <2>5
      <4>2. x # None
        BY Sorts
      <4> QED
        BY <2>5, <4>1, <4>2 DEF U
    <3>3. q[x] = L.next[x]
      BY <3>2
    <3> QED
      BY <1>2, <2>3, <3>1, <3>3
  <2>12. n + 1 \in Nat
    BY <1>1
  <2> HIDE DEF t
  <2> QED
    BY <1>2, <2>8, <2>9, <2>10, <2>11, <2>12 DEF OurLists, O, J
<1> QED
  BY <1>4, <1>5

LEMMA AddKeepsOurs ==
  ASSUME GraphInv, ListInv, ledger \in OurLists(known), NEW b \in Blocks, AddBlock(b)
  PROVE  ledger' \in OurLists(known')
<1> DEFINE G == Frame \cap OurLists(known)
           O == Own(ledger, b)
<1>0. /\ known \subseteq Blocks /\ LinksDown(b) /\ b \in Blocks \ known
      /\ known' = known \cup {b} /\ Grounded
  BY AcceptedLinks DEF ListInv, Grounded, AddBlock
<1>1. Kept(G) /\ Free(G) /\ ledger \in G
  BY <1>0, FrameKept, OurListsKept
<1> HIDE DEF G
<1>2. PICK L \in G : L.nmain = Cardinality(main') /\ Join(L, b)
  BY <1>1, AddSettles DEF ListInv
<1>3. L \in Frame /\ L \in OurLists(known)
  BY DEF G
<1>4. Own(L, b) \in Ledger /\ Repointed(ledger', Own(L, b))
  BY <1>0, <1>2, <1>3, JoinPoints
<1>5. Own(L, b) \in OurLists(known \cup {b})
  BY <1>0, <1>3, OwnSorts
<1>6. PICK r \in [Blocks -> BlockOrNone] : ledger' = [Own(L, b) EXCEPT !.ref = r]
  BY <1>4 DEF Repointed
<1>7. ledger' \in Ledger
  BY <1>4, <1>6, RefTyped
<1>8. /\ ledger'.amount = Own(L, b).amount /\ ledger'.balance = Own(L, b).balance
      /\ ledger'.first = Own(L, b).first /\ ledger'.last = Own(L, b).last
      /\ ledger'.prev = Own(L, b).prev /\ ledger'.next = Own(L, b).next
  BY <1>4, <1>6 DEF Ledger
<1> QED
  BY <1>0, <1>5, <1>7, <1>8, SameLists

LEMMA EmptyOurs == LedgerInit \in OurLists({})
<1>1. Word \in Nat /\ Word > 0 /\ 0 % Word = 0 /\ 0 \in 0 .. Word - 1
  BY Words
<1>2. LedgerInit \in Ledger
  BY <1>1 DEF LedgerInit, Ledger, BlockOrNone
<1>3. Doubly({}, LedgerInit, 0, <<>>) /\ Ordered(LedgerInit.amount, 0, <<>>)
  BY DEF Doubly, Strung, Ordered, LedgerInit
<1>4. SumOver(LedgerInit.amount, {}) = 0
  BY SumSteps
<1>5. /\ LedgerInit.balance = 0
      /\ \A x \in Blocks : LedgerInit.next[x] = None /\ LedgerInit.amount[x] = 0
  BY DEF LedgerInit
<1>6. {} \cap Ours = {}
  OBVIOUS
<1> QED
  BY <1>1, <1>2, <1>3, <1>4, <1>5, <1>6 DEF OurLists

\* A list strung along next is strung backwards along prev.
LEMMA Backwards ==
  ASSUME NEW U, NEW A, NEW n \in Nat, NEW s, Doubly(U, A, n, s)
  PROVE  Strung(U, A.prev, A.last, A.first, n, [i \in 1 .. n |-> s[n + 1 - i]])
<1> DEFINE r == [i \in 1 .. n |-> s[n + 1 - i]]
<1>1. \A i \in 1 .. n : n + 1 - i \in 1 .. n /\ n + 1 - (n + 1 - i) = i
  OBVIOUS
<1>2. /\ s \in [1 .. n -> U] /\ \A x \in U : \E i \in 1 .. n : s[i] = x
      /\ \A i, j \in 1 .. n : s[i] = s[j] => i = j
      /\ IF n = 0 THEN A.first = None /\ A.last = None ELSE A.first = s[1] /\ A.last = s[n]
      /\ \A i \in 1 .. n : A.prev[s[i]] = IF i = 1 THEN None ELSE s[i - 1]
  BY DEF Doubly, Strung
<1>3. \A i \in 1 .. n : r[i] = s[n + 1 - i]
  OBVIOUS
<1>4. r \in [1 .. n -> U]
  BY <1>1, <1>2
<1> HIDE DEF r
<1>5. \A x \in U : \E i \in 1 .. n : r[i] = x
  <2> TAKE x \in U
  <2>1. PICK i \in 1 .. n : s[i] = x
    BY <1>2
  <2>2. n + 1 - i \in 1 .. n /\ r[n + 1 - i] = s[i]
    BY <1>1, <1>3
  <2> QED
    BY <2>1, <2>2
<1>6. \A i, j \in 1 .. n : r[i] = r[j] => i = j
  <2> TAKE i, j \in 1 .. n
  <2>1. r[i] = r[j] => n + 1 - i = n + 1 - j
    BY <1>1, <1>2, <1>3
  <2> QED
    BY <2>1
<1>7. IF n = 0 THEN A.last = None /\ A.first = None ELSE A.last = r[1] /\ A.first = r[n]
  <2>1. n # 0 => /\ 1 \in 1 .. n /\ n \in 1 .. n /\ n + 1 - 1 = n /\ n + 1 - n = 1
    OBVIOUS
  <2> QED
    BY <1>2, <1>3, <2>1
<1>8. \A i \in 1 .. n : A.prev[r[i]] = IF i = n THEN None ELSE r[i + 1]
  <2> TAKE i \in 1 .. n
  <2> DEFINE k == n + 1 - i
  <2>1. A.prev[r[i]] = IF n + 1 - i = 1 THEN None ELSE s[n + 1 - i - 1]
    <3>1. k \in 1 .. n /\ r[i] = s[k]
      BY <1>1, <1>3
    <3> HIDE DEF k
    <3>2. A.prev[s[k]] = IF k = 1 THEN None ELSE s[k - 1]
      BY <1>2, <3>1
    <3> QED
      BY <3>1, <3>2 DEF k
  <2>2. n + 1 - i = 1 <=> i = n
    OBVIOUS
  <2>3. i # n => i + 1 \in 1 .. n /\ n + 1 - i - 1 = n + 1 - (i + 1)
    OBVIOUS
  <2>4. i # n => r[i + 1] = s[n + 1 - i - 1]
    BY <1>3, <2>3
  <2> QED
    BY <2>1, <2>2, <2>4
<1>9. Strung(U, A.prev, A.last, A.first, n, r)
  BY <1>4, <1>5, <1>6, <1>7, <1>8 DEF Strung
<1> QED
  BY <1>9 DEF r

\* accept_amount keeps the list of our blocks sorted by what they hold, joined
\* in both directions and complete, and g_balance equal to their sum, although
\* it moves one block at a time while apply_block and unapply_block pay many.
THEOREM OursStaySorted == Spec => []OursSorted
<1>1. Init => ledger \in OurLists(known)
  BY EmptyOurs DEF Init
<1>2. /\ GraphInv /\ ListInv /\ ledger \in OurLists(known) /\ [Next]_vars
      => (ledger \in OurLists(known))'
  <2> SUFFICES ASSUME GraphInv, ListInv, ledger \in OurLists(known), [Next]_vars
               PROVE  ledger' \in OurLists(known)'
    OBVIOUS
  <2>0. OurLists(known)' = OurLists(known')
    BY DEF OurLists
  <2>1. ASSUME NEW b \in Blocks, AddBlock(b) PROVE ledger' \in OurLists(known')
    BY <2>1, AddKeepsOurs
  <2>2. CASE CheckNewMain
    <3>1. ledger' = NewMain.led /\ known' = known
      BY <2>2 DEF CheckNewMain, graph
    <3> DEFINE G == Frame \cap OurLists(known)
    <3>2. Grounded
      BY DEF ListInv
    <3>3. Kept(G) /\ Free(G) /\ ledger \in G
      BY <3>2, FrameKept, OurListsKept
    <3>4. NewMain.led \in G
      <4> HIDE DEF G
      <4> QED
        BY <3>2, <3>3, NewMainKept DEF ListInv
    <3> QED
      BY <3>1, <3>4
  <2>3. CASE Clear
    BY <2>3, EmptyOurs DEF Clear
  <2>4. CASE Tick \/ UNCHANGED vars
    BY <2>4 DEF Tick, vars, graph
  <2> QED
    BY <2>0, <2>1, <2>2, <2>3, <2>4 DEF Next
<1>3. ListInv /\ ledger \in OurLists(known) => OursSorted
  <2> SUFFICES ASSUME ListInv, ledger \in OurLists(known) PROVE OursSorted
    OBVIOUS
  <2> DEFINE U == known \cap Ours
             A == ledger
  <2>1. PICK n, s : n \in Nat /\ Doubly(U, A, n, s) /\ Ordered(A.amount, n, s)
    BY DEF OurLists
  <2> DEFINE r == [i \in 1 .. n |-> s[n + 1 - i]]
  <2>2. Strung(U, A.next, A.first, A.last, n, s)
    BY <2>1 DEF Doubly
  <2>3. Strung(U, A.prev, A.last, A.first, n, r)
    BY <2>1, Backwards
  <2>4. Cardinality(U) = n /\ Walk(A.next, A.first, n) = s /\ ToSet(s) = U
    BY <2>1, <2>2, WalkIs
  <2>5. Walk(A.prev, A.last, n) = r
    <3> HIDE DEF r
    <3> QED
      BY <2>1, <2>3, WalkIs
  <2>6. \A i \in 1 .. n : r[i] = s[n + 1 - i]
    OBVIOUS
  <2> HIDE DEF r
  <2>7. IF n = 0 THEN A.first = None /\ A.last = None
                 ELSE A.next[s[n]] = None /\ A.prev[r[n]] = None
    <3>1. n # 0 => n \in 1 .. n
      BY <2>1
    <3> QED
      BY <2>2, <2>3, <3>1 DEF Strung
  <2>8. \A i \in 1 .. n - 1 : A.amount[s[i]] >= A.amount[s[i + 1]]
    <3> TAKE i \in 1 .. n - 1
    <3>1. i \in 1 .. n /\ i + 1 \in 1 .. n /\ i < i + 1
      BY <2>1
    <3>2. A.amount[s[i + 1]] <= A.amount[s[i]]
      BY <2>1, <3>1 DEF Ordered
    <3>3. s[i] \in Blocks /\ s[i + 1] \in Blocks /\ ledger \in Ledger
      BY <2>2, <3>1 DEF Strung, ListInv, Grounded, OurLists
    <3>4. A.amount[s[i]] \in Nat /\ A.amount[s[i + 1]] \in Nat
      BY <3>3, Richer
    <3> QED
      BY <3>2, <3>4
  <2>9. A.balance = MapThenSumSet(LAMBDA b : A.amount[b], U) % Word
    BY DEF OurLists, SumOver
  <2> QED
    BY <2>4, <2>5, <2>6, <2>7, <2>8, <2>9 DEF OursSorted
<1> QED
  BY <1>1, <1>2, <1>3, GraphInvHolds, ListInvHolds, PTL DEF Spec

-----------------------------------------------------------------------------
(* What a block carries *)

LEMMA Adds ==
  /\ \A x, y \in Int : Plus(x % Word, y) = (x + y) % Word /\ Plus(x, y % Word) = (x + y) % Word
  /\ \A x \in 0 .. Word - 1 : x % Word = x
  /\ \A x \in Int : x % Word \in 0 .. Word - 1
<1>0. Word \in Nat /\ Word > 0
  BY Words
<1>4. \A x \in Int : x % Word \in 0 .. Word - 1 /\ x % Word \in Int
  BY <1>0
<1>5. \A x \in 0 .. Word - 1 : x % Word = x
  BY <1>0
<1>1. ASSUME NEW x \in Int, NEW y \in Int
      PROVE  ((x % Word) + y) % Word = (x + y) % Word
  <2> DEFINE W == Word
  <2>1. W \in Nat /\ W > 0
    BY Words
  <2> HIDE DEF W
  <2>2. PICK q \in Int, r \in 0 .. W - 1 : x = W * q + r /\ x % W = r
    BY <2>1, Division
  <2>3. x + y = W * q + (r + y) /\ r + y \in Int
    BY <2>1, <2>2
  <2>4. (W * q + (r + y)) % W = (r + y) % W
    BY <2>1, <2>3, Wraps
  <2>5. ((x % W) + y) % W = (x + y) % W
    BY <2>2, <2>3, <2>4
  <2> QED
    BY <2>5 DEF W
<1>2. \A x, y \in Int : Plus(x % Word, y) = (x + y) % Word
  BY <1>1 DEF Plus
<1>3. ASSUME NEW x \in Int, NEW y \in Int PROVE Plus(x, y % Word) = (x + y) % Word
  <2>1. ((y % Word) + x) % Word = (y + x) % Word
    BY <1>1
  <2> DEFINE r == y % Word
  <2>2. r \in Int
    BY <1>4
  <2>3. (r + x) % Word = (y + x) % Word
    BY <2>1
  <2> HIDE DEF r
  <2>4. r + x = x + r /\ y + x = x + y
    BY <2>2
  <2>5. Plus(x, r) = (x + y) % Word
    BY <2>3, <2>4 DEF Plus
  <2> QED
    BY <2>5 DEF r
<1>6. \A x, y \in Int : Plus(x % Word, y) = (x + y) % Word /\ Plus(x, y % Word) = (x + y) % Word
  BY <1>2, <1>3
<1> QED
  BY <1>4, <1>5, <1>6

\* What the block at the end of the i-th link of b gains.
Gain(b, i) == IF Fields[b][i].in THEN -Fields[b][i].amount ELSE Fields[b][i].amount

\* What x gains by the first m links of b.
GainTo(b, x, m) ==
  Iterate([i \in 1 .. Len(Fields[b]) |-> [d \in Int |->
             IF i \in Used(b) /\ Fields[b][i].to = x THEN d + Gain(b, i) ELSE d]], 0, m)

LEMMA GainToSteps ==
  ASSUME NEW b \in Blocks, NEW x
  PROVE  /\ GainTo(b, x, 0) = 0
         /\ \A m \in 0 .. Len(Fields[b]) : GainTo(b, x, m) \in Int
         /\ \A m \in 0 .. Len(Fields[b]) - 1 :
              GainTo(b, x, m + 1) =
                IF m + 1 \in Used(b) /\ Fields[b][m + 1].to = x
                THEN GainTo(b, x, m) + Gain(b, m + 1) ELSE GainTo(b, x, m)
<1> DEFINE N == Len(Fields[b])
           F == [i \in 1 .. N |-> [d \in Int |->
                  IF i \in Used(b) /\ Fields[b][i].to = x THEN d + Gain(b, i) ELSE d]]
<1>1. N \in Nat /\ \A i \in 1 .. N : Gain(b, i) \in Int
  <2>1. Word \in Nat
    BY Words
  <2> QED
    BY <2>1, LinkTypes DEF Gain
<1>2. \A i \in 1 .. N : \A d \in Int : F[i][d] \in Int
  BY <1>1
<1>3. \A m : GainTo(b, x, m) = Iterate(F, 0, m)
  BY DEF GainTo
<1> HIDE DEF N
<1>4. \A i \in 1 .. N : \A d \in Int :
        F[i][d] = IF i \in Used(b) /\ Fields[b][i].to = x THEN d + Gain(b, i) ELSE d
  OBVIOUS
<1> HIDE DEF F
<1>5. \A m \in 0 .. N : Iterate(F, 0, m) \in Int
  <2>1. 0 \in Int
    OBVIOUS
  <2> QED
    BY <1>1, <1>2, <2>1, IterateIn
<1>6. Iterate(F, 0, 0) = 0 /\ \A m \in 0 .. N - 1 : Iterate(F, 0, m + 1) = F[m + 1][Iterate(F, 0, m)]
  <2>1. \A m \in 0 .. N - 1 : m \in Nat
    OBVIOUS
  <2> QED
    BY <2>1, IterateSteps
<1>7. \A m \in 0 .. N - 1 : m \in 0 .. N /\ m + 1 \in 1 .. N
  BY <1>1
<1>8. \A m \in 0 .. N : GainTo(b, x, m) \in Int
  BY <1>3, <1>5
<1>9. ASSUME NEW m \in 0 .. N - 1
      PROVE  GainTo(b, x, m + 1) =
               IF m + 1 \in Used(b) /\ Fields[b][m + 1].to = x
               THEN GainTo(b, x, m) + Gain(b, m + 1) ELSE GainTo(b, x, m)
  <2>1. m + 1 \in 1 .. N /\ Iterate(F, 0, m) \in Int
    BY <1>5, <1>7
  <2>2. GainTo(b, x, m + 1) = F[m + 1][Iterate(F, 0, m)]
    BY <1>3, <1>6
  <2>3. GainTo(b, x, m) = Iterate(F, 0, m)
    BY <1>3
  <2> QED
    BY <1>4, <2>1, <2>2, <2>3
<1> QED
  BY <1>3, <1>6, <1>8, <1>9 DEF N

\* f is the ledgers that the loop of Carry goes through.
Carries(L, b, sign, f) ==
  LET N == Len(Fields[b])
  IN /\ f[0] = L /\ f[N] = Carry(L, b, sign)
     /\ \A m \in 0 .. N : f[m] \in Ledger
     /\ \A m \in 0 .. N - 1 :
          f[m + 1] = IF m + 1 \in Used(b)
                     THEN Accept(f[m], Fields[b][m + 1].to, (sign * Gain(b, m + 1)) % Word)
                     ELSE f[m]

LEMMA CarrySteps ==
  ASSUME NEW L \in Ledger, NEW b \in Blocks, NEW sign \in {-1, 1}
  PROVE  \E f : Carries(L, b, sign, f)
<1> DEFINE N == Len(Fields[b])
           F == [i \in 1 .. N |-> [A \in Ledger |->
                  LET l == Fields[b][i]
                  IN IF i \in Used(b)
                     THEN Accept(A, l.to, Minus(0, sign * (IF l.in THEN l.amount ELSE -l.amount)))
                     ELSE A]]
           f == [m \in 0 .. N |-> Iterate(F, L, m)]
<1>1. /\ N \in Nat /\ \A i \in 1 .. N : /\ Fields[b][i].amount \in Int /\ Fields[b][i].to \in Blocks
                                        /\ sign * Gain(b, i) \in Int
  <2>1. N \in Nat /\ \A i \in 1 .. N : Fields[b][i].amount \in Int /\ Fields[b][i].to \in Blocks
    BY LinkTypes
  <2>2. \A i \in 1 .. N : Gain(b, i) \in Int
    BY <2>1 DEF Gain
  <2>3. \A i \in 1 .. N : sign * Gain(b, i) \in Int
    <3> TAKE i \in 1 .. N
    <3>1. CASE sign = 1
      BY <2>2, <3>1
    <3>2. CASE sign = -1
      BY <2>2, <3>2
    <3> QED
      BY <3>1, <3>2
  <2> QED
    BY <2>1, <2>3
<1>2. ASSUME NEW i \in 1 .. N, NEW A \in Ledger
      PROVE  F[i][A] = IF i \in Used(b) THEN Accept(A, Fields[b][i].to, (sign * Gain(b, i)) % Word)
                       ELSE A
  <2> DEFINE l == Fields[b][i]
             g == IF l.in THEN l.amount ELSE -l.amount
  <2>1. Minus(0, sign * g) = (sign * Gain(b, i)) % Word
    <3>1. g \in Int /\ Gain(b, i) = -g
      BY <1>1 DEF Gain
    <3> HIDE DEF g
    <3>2. CASE sign = 1
      <4>1. 0 - 1 * g = 1 * (-g)
        BY <3>1
      <4> QED
        BY <3>1, <3>2, <4>1 DEF Minus
    <3>3. CASE sign = -1
      <4>1. 0 - (-1) * g = (-1) * (-g)
        BY <3>1
      <4> QED
        BY <3>1, <3>3, <4>1 DEF Minus
    <3> QED
      BY <3>2, <3>3
  <2>2. F[i][A] = IF i \in Used(b) THEN Accept(A, l.to, Minus(0, sign * g)) ELSE A
    OBVIOUS
  <2> HIDE DEF F
  <2> QED
    BY <2>1, <2>2
<1>3. \A i \in 1 .. N : \A A \in Ledger : F[i][A] \in Ledger
  <2> TAKE i \in 1 .. N
  <2> TAKE A \in Ledger
  <2>1. (sign * Gain(b, i)) % Word \in Int
    <3>1. sign * Gain(b, i) \in Int
      BY <1>1
    <3>2. (sign * Gain(b, i)) % Word \in 0 .. Word - 1
      BY <3>1, Adds, Zenon
    <3> QED
      BY <3>2, Words
  <2>2. Accept(A, Fields[b][i].to, (sign * Gain(b, i)) % Word) \in Ledger
    BY <1>1, <2>1, AcceptTyped
  <2> HIDE DEF F
  <2> QED
    BY <1>2, <2>2
<1>4. Carry(L, b, sign) = Iterate(F, L, N)
  BY DEF Carry
<1> HIDE DEF F, N
<1>5. \A m \in 0 .. N : Iterate(F, L, m) \in Ledger
  BY <1>1, <1>3, IterateIn
<1>6. Iterate(F, L, 0) = L /\ \A m \in 0 .. N - 1 : Iterate(F, L, m + 1) = F[m + 1][Iterate(F, L, m)]
  <2>1. \A m \in 0 .. N - 1 : m \in Nat
    BY <1>1
  <2> QED
    BY <2>1, IterateSteps
<1>7. \A m \in 0 .. N - 1 : m \in 0 .. N /\ m + 1 \in 0 .. N /\ m + 1 \in 1 .. N
  BY <1>1
<1>8. f[0] = L /\ f[N] = Carry(L, b, sign) /\ \A m \in 0 .. N : f[m] \in Ledger
  BY <1>1, <1>4, <1>5, <1>6
<1>9. \A m \in 0 .. N - 1 :
        f[m + 1] = IF m + 1 \in Used(b)
                   THEN Accept(f[m], Fields[b][m + 1].to, (sign * Gain(b, m + 1)) % Word)
                   ELSE f[m]
  BY <1>2, <1>5, <1>6, <1>7
<1> HIDE DEF f
<1>10. Carries(L, b, sign, f)
  BY <1>8, <1>9 DEF Carries, N
<1> QED
  BY <1>10

\* x modulo Word, and so on: what is added to an amount before it is reduced.
LEMMA AcceptPays ==
  ASSUME NEW A \in Ledger, NEW y \in Blocks, NEW s \in Int
  PROVE  /\ A.amount \in [Blocks -> 0 .. Word - 1] /\ A.amount \in [Blocks -> Nat]
         /\ \A x \in Blocks : A.amount[x] \in Int /\ A.amount[x] % Word = A.amount[x]
         /\ \A x \in Blocks : Accept(A, y, s % Word).amount[x] =
                                (A.amount[x] + IF x = y THEN s ELSE 0) % Word
         /\ SumOver(Accept(A, y, s % Word).amount, Blocks) % Word =
              (SumOver(A.amount, Blocks) + s) % Word
<1>1. A.amount \in [Blocks -> 0 .. Word - 1] /\ A.amount \in [Blocks -> Nat]
  <2>1. \A x \in 0 .. Word - 1 : x \in Nat
    BY Words
  <2> QED
    BY <2>1 DEF Ledger
<1>2. \A x \in Blocks : A.amount[x] \in Int /\ A.amount[x] % Word = A.amount[x]
  BY <1>1, Adds
<1> DEFINE r == s % Word
           h == [A.amount EXCEPT ![y] = Plus(@, r)]
<1>3. r \in Int
  <2>1. r \in 0 .. Word - 1
    BY Adds, Zenon
  <2> HIDE DEF r
  <2> QED
    BY <2>1, Words
<1>4. Accept(A, y, r).amount = h
  <2> HIDE DEF r
  <2> QED
    BY <1>3, AcceptTyped
<1>5. \A a \in Int : Plus(a, r) = (a + s) % Word
  BY Adds
<1>6. ASSUME NEW x \in Blocks PROVE h[x] = (A.amount[x] + IF x = y THEN s ELSE 0) % Word
  <2> HIDE DEF r
  <2>1. CASE x = y
    BY <1>1, <1>2, <1>5, <2>1
  <2>2. CASE x # y
    <3>1. h[x] = A.amount[x] /\ A.amount[x] + 0 = A.amount[x]
      BY <1>1, <1>2, <2>2
    <3> QED
      BY <1>2, <2>2, <3>1
  <2> QED
    BY <2>1, <2>2
<1>7. SumOver(h, Blocks) % Word = (SumOver(A.amount, Blocks) + s) % Word
  <2>1. SumOver(A.amount, Blocks) \in Int
    <3>1. SumOver(A.amount, Blocks) \in Nat
      BY <1>1, SumTyping
    <3> QED
      BY <3>1
  <2> DEFINE S == SumOver(A.amount, Blocks)
  <2>2. SumOver(h, Blocks) % Word = Plus(S % Word, r)
    <3> HIDE DEF r
    <3> QED
      BY <1>1, <1>3, SumPaid
  <2> HIDE DEF S, h
  <2>3. Plus(S % Word, r) = (S + r) % Word
    <3> HIDE DEF r
    <3> QED
      BY <1>3, <2>1, Adds DEF S
  <2>4. (S + r) % Word = (S + s) % Word
    <3>1. Plus(S, r) = (S + s) % Word
      BY <1>5, <2>1 DEF S
    <3> QED
      BY <3>1 DEF Plus
  <2> QED
    BY <2>2, <2>3, <2>4 DEF S
<1> HIDE DEF h
<1> QED
  BY <1>1, <1>2, <1>4, <1>6, <1>7 DEF r

\* Two amounts are paid one after the other as their sum is paid at once.
LEMMA PaysTwice ==
  ASSUME NEW x \in Int, NEW s \in Int, NEW t \in Int
  PROVE  (((x + s) % Word) + t) % Word = (x + s + t) % Word
<1>1. x + s \in Int
  OBVIOUS
<1>2. Plus((x + s) % Word, t) = (x + s + t) % Word
  BY <1>1, Adds
<1> QED
  BY <1>2 DEF Plus

LEMMA CarryPays ==
  ASSUME NEW L \in Ledger, NEW b \in Blocks, NEW sign \in {-1, 1}
  PROVE  /\ Carry(L, b, sign) \in Ledger
         /\ \A x \in Blocks : Carry(L, b, sign).amount[x] =
                                (L.amount[x] + sign * GainTo(b, x, Len(Fields[b]))) % Word
<1> DEFINE N == Len(Fields[b])
<1>0. PICK f : Carries(L, b, sign, f)
  BY CarrySteps
<1>1. /\ f[0] = L /\ f[N] = Carry(L, b, sign)
      /\ \A m \in 0 .. N : f[m] \in Ledger
      /\ \A m \in 0 .. N - 1 :
           f[m + 1] = IF m + 1 \in Used(b)
                      THEN Accept(f[m], Fields[b][m + 1].to, (sign * Gain(b, m + 1)) % Word)
                      ELSE f[m]
  BY <1>0 DEF Carries
<1>2. N \in Nat /\ \A i \in 1 .. N : Fields[b][i].to \in Blocks /\ Gain(b, i) \in Int
  <2>1. N \in Nat /\ \A i \in 1 .. N : Fields[b][i].to \in Blocks /\ Fields[b][i].amount \in Int
    BY LinkTypes
  <2> QED
    BY <2>1 DEF Gain
<1> DEFINE T == {m \in Nat : \A x \in Blocks :
                   f[m].amount[x] = (L.amount[x] + sign * GainTo(b, x, m)) % Word}
<1> HIDE DEF N
<1>3. \A x \in Blocks : L.amount[x] \in Int /\ L.amount[x] % Word = L.amount[x]
  <2> TAKE x \in Blocks
  <2>1. 0 \in Int
    OBVIOUS
  <2> QED
    BY <2>1, AcceptPays
<1>4. 0 \in T
  <2>1. \A x \in Blocks : L.amount[x] + sign * GainTo(b, x, 0) = L.amount[x]
    <3> TAKE x \in Blocks
    <3>1. GainTo(b, x, 0) = 0
      BY GainToSteps
    <3>2. sign * 0 = 0
      OBVIOUS
    <3> QED
      BY <1>3, <3>1, <3>2
  <2> QED
    BY <1>1, <1>3, <2>1
<1>5. ASSUME NEW m \in 0 .. N - 1, m \in T PROVE m + 1 \in T
  <2> DEFINE y == Fields[b][m + 1].to
             g == Gain(b, m + 1)
  <2>1. m \in Nat /\ m + 1 \in Nat /\ m + 1 \in 1 .. N /\ m \in 0 .. N
    BY <1>2
  <2>2. y \in Blocks /\ g \in Int /\ f[m] \in Ledger
    BY <1>1, <1>2, <2>1
  <2>3. f[m + 1] = IF m + 1 \in Used(b) THEN Accept(f[m], y, (sign * g) % Word) ELSE f[m]
    BY <1>1
  <2> SUFFICES ASSUME NEW x \in Blocks
               PROVE  f[m + 1].amount[x] = (L.amount[x] + sign * GainTo(b, x, m + 1)) % Word
    BY <2>1
  <2> DEFINE d == GainTo(b, x, m)
             e == GainTo(b, x, m + 1)
             a == L.amount[x]
  <2>4. d \in Int /\ e = IF m + 1 \in Used(b) /\ y = x THEN d + g ELSE d
    <3>1. /\ \A i \in 0 .. N : GainTo(b, x, i) \in Int
          /\ \A i \in 0 .. N - 1 :
               GainTo(b, x, i + 1) = IF i + 1 \in Used(b) /\ Fields[b][i + 1].to = x
                                     THEN GainTo(b, x, i) + Gain(b, i + 1) ELSE GainTo(b, x, i)
      BY GainToSteps DEF N
    <3> QED
      BY <2>1, <3>1
  <2>5. f[m].amount[x] = (a + sign * d) % Word /\ a \in Int
    BY <1>3, <1>5
  <2> HIDE DEF d, e, g, y, a
  <2>6. CASE m + 1 \in Used(b) /\ y = x
    <3>1. sign * g \in Int /\ sign * d \in Int /\ sign * (d + g) = sign * d + sign * g
      <4>1. CASE sign = 1
        BY <2>2, <2>4, <4>1
      <4>2. CASE sign = -1
        BY <2>2, <2>4, <4>2
      <4> QED
        BY <4>1, <4>2
    <3>2. f[m + 1].amount[x] = (f[m].amount[x] + sign * g) % Word
      <4>1. \A z \in Blocks : Accept(f[m], y, (sign * g) % Word).amount[z] =
                                (f[m].amount[z] + IF z = y THEN sign * g ELSE 0) % Word
        BY <2>2, <3>1, AcceptPays
      <4> QED
        BY <2>3, <2>6, <4>1
    <3>3. (((a + sign * d) % Word) + sign * g) % Word = (a + sign * d + sign * g) % Word
      BY <2>5, <3>1, PaysTwice
    <3>4. a + sign * d + sign * g = a + sign * e
      BY <2>4, <2>5, <2>6, <3>1
    <3> QED
      BY <2>5, <3>2, <3>3, <3>4 DEF a, e
  <2>7. CASE m + 1 \in Used(b) /\ y # x
    <3>1. sign * g \in Int
      BY <2>2
    <3>2. f[m + 1].amount[x] = (f[m].amount[x] + 0) % Word
      <4>1. \A z \in Blocks : Accept(f[m], y, (sign * g) % Word).amount[z] =
                                (f[m].amount[z] + IF z = y THEN sign * g ELSE 0) % Word
        BY <2>2, <3>1, AcceptPays
      <4> QED
        BY <2>3, <2>7, <4>1
    <3>3. f[m].amount[x] \in Int /\ f[m].amount[x] % Word = f[m].amount[x]
      BY <2>2, <3>1, AcceptPays
    <3>4. f[m].amount[x] + 0 = f[m].amount[x] /\ e = d
      BY <2>4, <2>7, <3>3
    <3> QED
      BY <2>5, <3>2, <3>3, <3>4 DEF a, e
  <2>8. CASE m + 1 \notin Used(b)
    <3>1. f[m + 1] = f[m] /\ e = d
      BY <2>3, <2>4, <2>8
    <3> QED
      BY <2>5, <3>1 DEF a, e
  <2> QED
    BY <2>6, <2>7, <2>8
<1>6. \A m \in 0 .. N : m \in T
  <2> HIDE DEF T
  <2> QED
    BY <1>2, <1>4, <1>5, Stepping
<1>7. N \in 0 .. N
  BY <1>2
<1> QED
  BY <1>1, <1>6, <1>7 DEF N

\* What b carries is what it takes from its inputs and gives to its outputs.
LEMMA SumOfSteps ==
  ASSUME NEW b \in Blocks, NEW in \in BOOLEAN
  PROVE  \E p : /\ p[0] = 0 /\ p[Len(Fields[b])] = SumOf(b, in)
                /\ \A m \in 0 .. Len(Fields[b]) : p[m] \in Nat
                /\ \A m \in 0 .. Len(Fields[b]) - 1 :
                     p[m + 1] = IF m + 1 \in Used(b) /\ Fields[b][m + 1].in = in
                                THEN p[m] + Fields[b][m + 1].amount ELSE p[m]
<1> DEFINE N == Len(Fields[b])
           F == [i \in 1 .. N |-> [s \in Nat |->
                  IF i \in Used(b) /\ Fields[b][i].in = in THEN s + Fields[b][i].amount ELSE s]]
           p == [m \in 0 .. N |-> Iterate(F, 0, m)]
<1>1. N \in Nat /\ \A i \in 1 .. N : Fields[b][i].amount \in Nat
  <2>1. \A x \in 0 .. Word - 1 : x \in Nat
    BY Words
  <2> QED
    BY <2>1, LinkTypes
<1>3. SumOf(b, in) = Iterate(F, 0, N)
  BY DEF SumOf
<1>4. \A i \in 1 .. N : \A s \in Nat :
        F[i][s] = IF i \in Used(b) /\ Fields[b][i].in = in THEN s + Fields[b][i].amount ELSE s
  OBVIOUS
<1> HIDE DEF F, N
<1>2. \A i \in 1 .. N : \A s \in Nat : F[i][s] \in Nat
  BY <1>1, <1>4
<1>5. \A m \in 0 .. N : Iterate(F, 0, m) \in Nat
  <2>1. 0 \in Nat
    OBVIOUS
  <2> QED
    BY <1>1, <1>2, <2>1, IterateIn
<1>6. Iterate(F, 0, 0) = 0 /\ \A m \in 0 .. N - 1 : Iterate(F, 0, m + 1) = F[m + 1][Iterate(F, 0, m)]
  <2>1. \A m \in 0 .. N - 1 : m \in Nat
    BY <1>1
  <2> QED
    BY <2>1, IterateSteps
<1>7. \A m \in 0 .. N - 1 : m \in 0 .. N /\ m + 1 \in 0 .. N /\ m + 1 \in 1 .. N
  BY <1>1
<1>8. p[0] = 0 /\ p[N] = SumOf(b, in) /\ \A m \in 0 .. N : p[m] \in Nat
  BY <1>1, <1>3, <1>5, <1>6
<1>9. ASSUME NEW m \in 0 .. N - 1
      PROVE  p[m + 1] = IF m + 1 \in Used(b) /\ Fields[b][m + 1].in = in
                        THEN p[m] + Fields[b][m + 1].amount ELSE p[m]
  <2>1. m + 1 \in 1 .. N /\ Iterate(F, 0, m) \in Nat
    BY <1>5, <1>7
  <2>2. p[m + 1] = F[m + 1][Iterate(F, 0, m)] /\ p[m] = Iterate(F, 0, m)
    BY <1>6, <1>7
  <2> HIDE DEF p
  <2> QED
    BY <1>4, <2>1, <2>2
<1> HIDE DEF p
<1> QED
  BY <1>8, <1>9 DEF N

LEMMA CarryTotals ==
  ASSUME NEW L \in Ledger, NEW b \in Blocks, NEW sign \in {-1, 1}
  PROVE  SumOver(Carry(L, b, sign).amount, Blocks) % Word =
           (SumOver(L.amount, Blocks) + sign * (SumOf(b, FALSE) - SumOf(b, TRUE))) % Word
<1> DEFINE N == Len(Fields[b])
<1>0. PICK f : Carries(L, b, sign, f)
  BY CarrySteps
<1>1. /\ f[0] = L /\ f[N] = Carry(L, b, sign)
      /\ \A m \in 0 .. N : f[m] \in Ledger
      /\ \A m \in 0 .. N - 1 :
           f[m + 1] = IF m + 1 \in Used(b)
                      THEN Accept(f[m], Fields[b][m + 1].to, (sign * Gain(b, m + 1)) % Word)
                      ELSE f[m]
  BY <1>0 DEF Carries
<1>2. PICK p : /\ p[0] = 0 /\ p[N] = SumOf(b, FALSE)
               /\ \A m \in 0 .. N : p[m] \in Nat
               /\ \A m \in 0 .. N - 1 :
                    p[m + 1] = IF m + 1 \in Used(b) /\ Fields[b][m + 1].in = FALSE
                               THEN p[m] + Fields[b][m + 1].amount ELSE p[m]
  BY SumOfSteps
<1>3. PICK q : /\ q[0] = 0 /\ q[N] = SumOf(b, TRUE)
               /\ \A m \in 0 .. N : q[m] \in Nat
               /\ \A m \in 0 .. N - 1 :
                    q[m + 1] = IF m + 1 \in Used(b) /\ Fields[b][m + 1].in = TRUE
                               THEN q[m] + Fields[b][m + 1].amount ELSE q[m]
  BY SumOfSteps
<1>4. N \in Nat /\ \A i \in 1 .. N : Fields[b][i].to \in Blocks /\ Fields[b][i].amount \in Int
                                     /\ Fields[b][i].in \in BOOLEAN
  BY LinkTypes
<1> DEFINE Held(A) == SumOver(A.amount, Blocks)
<1>5. \A A \in Ledger : Held(A) \in Int
  <2> TAKE A \in Ledger
  <2>1. A.amount \in [Blocks -> Nat]
    <3>1. \A x \in 0 .. Word - 1 : x \in Nat
      BY Words
    <3> QED
      BY <3>1 DEF Ledger
  <2>2. SumOver(A.amount, Blocks) \in Nat
    BY <2>1, SumTyping
  <2> QED
    BY <2>2
<1> DEFINE T == {m \in Nat : Held(f[m]) % Word = (Held(L) + sign * (p[m] - q[m])) % Word}
<1> HIDE DEF N, Held
<1>6. 0 \in T
  <2>1. sign * (0 - 0) = 0 /\ Held(L) + 0 = Held(L)
    BY <1>5
  <2> QED
    BY <1>1, <1>2, <1>3, <2>1
<1>7. ASSUME NEW m \in 0 .. N - 1, m \in T PROVE m + 1 \in T
  <2> DEFINE y == Fields[b][m + 1].to
             a == Fields[b][m + 1].amount
             g == Gain(b, m + 1)
             d == p[m] - q[m]
             e == p[m + 1] - q[m + 1]
  <2>1. m \in Nat /\ m + 1 \in Nat /\ m + 1 \in 1 .. N /\ m \in 0 .. N
    BY <1>4
  <2>2. y \in Blocks /\ a \in Int /\ f[m] \in Ledger /\ p[m] \in Int /\ q[m] \in Int
    BY <1>1, <1>2, <1>3, <1>4, <2>1
  <2>3. f[m + 1] = IF m + 1 \in Used(b) THEN Accept(f[m], y, (sign * g) % Word) ELSE f[m]
    BY <1>1
  <2>4. g \in Int /\ d \in Int /\ e = IF m + 1 \in Used(b) THEN d + g ELSE d
    <3>1. CASE m + 1 \notin Used(b)
      BY <1>2, <1>3, <2>2, <3>1 DEF Gain
    <3>2. CASE m + 1 \in Used(b) /\ Fields[b][m + 1].in = TRUE
      <4>1. p[m + 1] = p[m] /\ q[m + 1] = q[m] + a
        BY <1>2, <1>3, <3>2
      <4>2. g = -a
        BY <3>2 DEF Gain
      <4> HIDE DEF a, g
      <4> QED
        BY <2>2, <3>2, <4>1, <4>2
    <3>3. CASE m + 1 \in Used(b) /\ Fields[b][m + 1].in = FALSE
      <4>1. p[m + 1] = p[m] + a /\ q[m + 1] = q[m]
        BY <1>2, <1>3, <3>3
      <4>2. g = a
        BY <3>3 DEF Gain
      <4> HIDE DEF a, g
      <4> QED
        BY <2>2, <3>3, <4>1, <4>2
    <3>4. Fields[b][m + 1].in \in BOOLEAN
      BY <1>4, <2>1
    <3> QED
      BY <3>1, <3>2, <3>3, <3>4
  <2>5. Held(f[m]) % Word = (Held(L) + sign * d) % Word /\ Held(L) \in Int /\ Held(f[m]) \in Int
    BY <1>5, <1>7, <2>2
  <2> HIDE DEF d, e, g, y, a
  <2>6. CASE m + 1 \in Used(b)
    <3>1. sign * g \in Int /\ sign * d \in Int /\ sign * (d + g) = sign * d + sign * g
      <4>1. CASE sign = 1
        BY <2>4, <4>1
      <4>2. CASE sign = -1
        BY <2>4, <4>2
      <4> QED
        BY <4>1, <4>2
    <3>2. Held(f[m + 1]) % Word = (Held(f[m]) + sign * g) % Word
      <4>1. SumOver(Accept(f[m], y, (sign * g) % Word).amount, Blocks) % Word
              = (SumOver(f[m].amount, Blocks) + sign * g) % Word
        BY <2>2, <3>1, AcceptPays
      <4> QED
        BY <2>3, <2>6, <4>1 DEF Held
    <3>3. (Held(f[m]) + sign * g) % Word = ((Held(f[m]) % Word) + sign * g) % Word
      <4>1. Plus(Held(f[m]) % Word, sign * g) = (Held(f[m]) + sign * g) % Word
        BY <2>5, <3>1, Adds
      <4> QED
        BY <4>1 DEF Plus
    <3>4. (((Held(L) + sign * d) % Word) + sign * g) % Word = (Held(L) + sign * d + sign * g) % Word
      BY <2>5, <3>1, PaysTwice
    <3>5. Held(L) + sign * d + sign * g = Held(L) + sign * e
      BY <2>4, <2>5, <2>6, <3>1
    <3>6. Held(f[m + 1]) % Word = (Held(L) + sign * e) % Word
      BY <2>5, <3>2, <3>3, <3>4, <3>5
    <3> QED
      BY <2>1, <3>6 DEF e
  <2>7. CASE m + 1 \notin Used(b)
    <3>1. f[m + 1] = f[m] /\ e = d
      BY <2>3, <2>4, <2>7
    <3> QED
      BY <2>1, <2>5, <3>1 DEF e
  <2> QED
    BY <2>6, <2>7
<1>8. \A m \in 0 .. N : m \in T
  <2> HIDE DEF T
  <2> QED
    BY <1>4, <1>6, <1>7, Stepping
<1>9. N \in 0 .. N
  BY <1>4
<1> QED
  BY <1>1, <1>2, <1>3, <1>8, <1>9 DEF N, Held

LEMMA SumsTyped ==
  ASSUME NEW b \in Blocks
  PROVE  SumOf(b, TRUE) \in Int /\ SumOf(b, FALSE) \in Int /\ Fee[b] \in Int
<1>1. \A in \in BOOLEAN : SumOf(b, in) \in Int
  <2> TAKE in \in BOOLEAN
  <2>1. SumOf(b, in) \in Nat
    BY SumTyped
  <2> QED
    BY <2>1
<1>2. TRUE \in BOOLEAN /\ FALSE \in BOOLEAN
  OBVIOUS
<1>3. Fee[b] \in Int
  BY FeeTyped
<1> QED
  BY <1>1, <1>2, <1>3, Zenon

\* What b itself is credited with, or charged for, beside its links.
LEMMA CarriedPays ==
  ASSUME NEW L \in Ledger, NEW b \in Blocks
  PROVE  LET net == SumOf(b, TRUE) - (SumOf(b, FALSE) + Fee[b])
         IN /\ net \in Int
            /\ Carried(L, b) = [Accept(Carry(L, b, 1), b, net % Word) EXCEPT !.applied = @ \cup {b}]
            /\ Undone(L, b) = [Accept(Carry(L, b, -1), b, (-net) % Word) EXCEPT !.applied = @ \ {b}]
            /\ Carried(L, b) \in Ledger /\ Undone(L, b) \in Ledger
            /\ Carried(L, b).amount = Accept(Carry(L, b, 1), b, net % Word).amount
            /\ Undone(L, b).amount = Accept(Carry(L, b, -1), b, (-net) % Word).amount
            /\ Carried(L, b).applied = Carry(L, b, 1).applied \cup {b}
            /\ Undone(L, b).applied = Carry(L, b, -1).applied \ {b}
<1> DEFINE in == SumOf(b, TRUE)
           out == SumOf(b, FALSE) + Fee[b]
           net == in - out
<1>1. in \in Int /\ out \in Int
  <2>1. SumOf(b, TRUE) \in Int /\ SumOf(b, FALSE) \in Int /\ Fee[b] \in Int
    BY SumsTyped
  <2>2. \A x, y \in Int : x + y \in Int
    OBVIOUS
  <2>3. out \in Int
    BY <2>1, <2>2, Zenon
  <2> QED
    BY <2>1, <2>3
<1>2. Minus(in, out) = net % Word /\ Minus(out, in) = (-net) % Word /\ net \in Int /\ -net \in Int
  <2> HIDE DEF in, out
  <2>1. out - in = -net
    BY <1>1
  <2> QED
    BY <1>1, <2>1 DEF Minus
<1>3. /\ Carried(L, b) = [Accept(Carry(L, b, 1), b, net % Word) EXCEPT !.applied = @ \cup {b}]
      /\ Undone(L, b) = [Accept(Carry(L, b, -1), b, (-net) % Word) EXCEPT !.applied = @ \ {b}]
  <2>1. /\ Carried(L, b) = [Accept(Carry(L, b, 1), b, Minus(in, out)) EXCEPT !.applied = @ \cup {b}]
        /\ Undone(L, b) = [Accept(Carry(L, b, -1), b, Minus(out, in)) EXCEPT !.applied = @ \ {b}]
    BY DEF Carried, Undone
  <2> HIDE DEF net, in, out
  <2> QED
    BY <1>2, <2>1
<1>4. net % Word \in Int /\ (-net) % Word \in Int
  <2>1. net % Word \in 0 .. Word - 1 /\ (-net) % Word \in 0 .. Word - 1
    <3> HIDE DEF net
    <3> QED
      BY <1>2, Adds, Zenon
  <2> HIDE DEF net
  <2> QED
    BY <2>1, Words
<1> HIDE DEF net
<1>5. /\ Carry(L, b, 1) \in Ledger /\ Carry(L, b, -1) \in Ledger
  BY CarryPays
<1> DEFINE C == Carry(L, b, 1)
           D == Carry(L, b, -1)
<1> HIDE DEF C, D
<1>6. C \in Ledger /\ D \in Ledger
  BY <1>5 DEF C, D
<1>7. /\ Accept(C, b, net % Word) \in Ledger /\ Accept(C, b, net % Word).applied = C.applied
      /\ Accept(D, b, (-net) % Word) \in Ledger
      /\ Accept(D, b, (-net) % Word).applied = D.applied
  <2>1. ASSUME NEW A \in Ledger, NEW k \in Int
        PROVE  Accept(A, b, k) \in Ledger /\ Accept(A, b, k).applied = A.applied
    BY AcceptTyped
  <2> QED
    BY <1>4, <1>6, <2>1
<1>8. ASSUME NEW A \in Ledger
      PROVE  /\ [A EXCEPT !.applied = @ \cup {b}] \in Ledger
             /\ [A EXCEPT !.applied = @ \ {b}] \in Ledger
             /\ [A EXCEPT !.applied = @ \cup {b}].amount = A.amount
             /\ [A EXCEPT !.applied = @ \ {b}].amount = A.amount
             /\ [A EXCEPT !.applied = @ \cup {b}].applied = A.applied \cup {b}
             /\ [A EXCEPT !.applied = @ \ {b}].applied = A.applied \ {b}
  BY DEF Ledger
<1>9. /\ Carried(L, b) = [Accept(C, b, net % Word) EXCEPT !.applied = @ \cup {b}]
      /\ Undone(L, b) = [Accept(D, b, (-net) % Word) EXCEPT !.applied = @ \ {b}]
  BY <1>3 DEF C, D
<1>10. /\ Carried(L, b) \in Ledger /\ Undone(L, b) \in Ledger
       /\ Carried(L, b).amount = Accept(C, b, net % Word).amount
       /\ Undone(L, b).amount = Accept(D, b, (-net) % Word).amount
       /\ Carried(L, b).applied = C.applied \cup {b}
       /\ Undone(L, b).applied = D.applied \ {b}
  BY <1>7, <1>8, <1>9
<1> QED
  BY <1>2, <1>3, <1>10 DEF C, D, net

\* Applying a block moves amounts between the blocks it links and itself, and
\* destroys exactly its fee, which set_main or the block above then receives;
\* taking it back creates that fee again, modulo the width of an amount.
THEOREM TransfersConserve ==
  ASSUME NEW L \in Ledger, NEW b \in Blocks
  PROVE  /\ SumOver(Carried(L, b).amount, Blocks) % Word
              = (SumOver(L.amount, Blocks) - Fee[b]) % Word
         /\ SumOver(Undone(L, b).amount, Blocks) % Word
              = (SumOver(L.amount, Blocks) + Fee[b]) % Word
<1> DEFINE in == SumOf(b, TRUE)
           out == SumOf(b, FALSE)
           fee == Fee[b]
           net == in - (out + fee)
           S == SumOver(L.amount, Blocks)
<1>1. in \in Int /\ out \in Int /\ fee \in Int
  BY SumsTyped
<1>2. S \in Int
  <2>1. 0 \in Int
    OBVIOUS
  <2>2. L.amount \in [Blocks -> Nat]
    BY <2>1, AcceptPays
  <2>3. S \in Nat
    BY <2>2, SumTyping
  <2> QED
    BY <2>3
<1>3. /\ Carried(L, b).amount = Accept(Carry(L, b, 1), b, net % Word).amount
      /\ Undone(L, b).amount = Accept(Carry(L, b, -1), b, (-net) % Word).amount
  BY CarriedPays
<1>4. ASSUME NEW sign \in {-1, 1}, NEW k \in Int
      PROVE  SumOver(Accept(Carry(L, b, sign), b, k % Word).amount, Blocks) % Word
               = (S + sign * (out - in) + k) % Word
  <2> DEFINE C == Carry(L, b, sign)
             R == SumOver(C.amount, Blocks)
             t == sign * (out - in)
  <2>1. C \in Ledger /\ R % Word = (S + t) % Word
    BY CarryPays, CarryTotals
  <2>2. t \in Int
    <3> HIDE DEF in, out
    <3>1. CASE sign = 1
      BY <1>1, <3>1
    <3>2. CASE sign = -1
      BY <1>1, <3>2
    <3> QED
      BY <3>1, <3>2
  <2> HIDE DEF C, t, S
  <2>3. SumOver(Accept(C, b, k % Word).amount, Blocks) % Word = (R + k) % Word
    BY <2>1, AcceptPays
  <2>4. R \in Int
    <3>1. C.amount \in [Blocks -> Nat]
      BY <2>1, <1>4, AcceptPays
    <3>2. R \in Nat
      BY <3>1, SumTyping
    <3> QED
      BY <3>2
  <2> HIDE DEF R
  <2>5. Plus(R % Word, k) = (R + k) % Word
    BY <2>4, Adds
  <2>6. (((S + t) % Word) + k) % Word = (S + t + k) % Word
    BY <1>2, <2>2, PaysTwice
  <2> QED
    BY <2>1, <2>3, <2>5, <2>6 DEF Plus, C, t
<1>5. net \in Int /\ -net \in Int
  <2> HIDE DEF in, out, fee
  <2> QED
    BY <1>1
<1>6. SumOver(Carried(L, b).amount, Blocks) % Word = (S + 1 * (out - in) + net) % Word
  <2> HIDE DEF net, S, in, out
  <2> QED
    BY <1>3, <1>4, <1>5
<1>7. SumOver(Undone(L, b).amount, Blocks) % Word = (S + (-1) * (out - in) + (-net)) % Word
  <2> HIDE DEF net, S, in, out
  <2> QED
    BY <1>3, <1>4, <1>5
<1>8. S + 1 * (out - in) + net = S - fee /\ S + (-1) * (out - in) + (-net) = S + fee
  <2> HIDE DEF S, in, out, fee
  <2> QED
    BY <1>1, <1>2
<1> QED
  BY <1>6, <1>7, <1>8

\* unapply_block gives back exactly what apply_block moved for the same block:
\* each amount is again what it was, also where a sum wrapped around.
THEOREM TransfersUndone ==
  ASSUME NEW L \in Ledger, NEW b \in Blocks
  PROVE  Undone(Carried(L, b), b).amount = L.amount
<1> DEFINE net == SumOf(b, TRUE) - (SumOf(b, FALSE) + Fee[b])
           N == Len(Fields[b])
           M == Carried(L, b)
           C == Carry(L, b, 1)
           D == Carry(M, b, -1)
<1>1. net \in Int /\ -net \in Int
  <2>1. SumOf(b, TRUE) \in Int /\ SumOf(b, FALSE) \in Int /\ Fee[b] \in Int
    BY SumsTyped
  <2>2. \A x, y, z \in Int : x - (y + z) \in Int /\ -(x - (y + z)) \in Int
    OBVIOUS
  <2> HIDE DEF net
  <2> QED
    BY <2>1, <2>2 DEF net
<1>2. M \in Ledger /\ M.amount = Accept(C, b, net % Word).amount
  BY CarriedPays
<1>3. /\ Undone(M, b).amount = Accept(D, b, (-net) % Word).amount
      /\ Undone(M, b) \in Ledger
  <2> HIDE DEF M
  <2> QED
    BY <1>2, CarriedPays
<1>4. C \in Ledger /\ \A x \in Blocks : C.amount[x] = (L.amount[x] + 1 * GainTo(b, x, N)) % Word
  BY CarryPays
<1>5. D \in Ledger /\ \A x \in Blocks : D.amount[x] = (M.amount[x] + (-1) * GainTo(b, x, N)) % Word
  <2> HIDE DEF M
  <2> QED
    BY <1>2, CarryPays
<1> HIDE DEF net, M, C, D
<1>6. \A x \in Blocks : M.amount[x] = (C.amount[x] + IF x = b THEN net ELSE 0) % Word
  BY <1>1, <1>2, <1>4, AcceptPays
<1>7. \A x \in Blocks : Undone(M, b).amount[x] = (D.amount[x] + IF x = b THEN -net ELSE 0) % Word
  BY <1>1, <1>3, <1>5, AcceptPays
<1>8. ASSUME NEW x \in Blocks PROVE Undone(M, b).amount[x] = L.amount[x]
  <2> DEFINE l == L.amount[x]
             d == GainTo(b, x, N)
             k == IF x = b THEN net ELSE 0
             j == IF x = b THEN -net ELSE 0
  <2>1. l \in Int /\ l % Word = l
    <3>1. 0 \in Int
      OBVIOUS
    <3> QED
      BY <3>1, AcceptPays
  <2>2. d \in Int
    <3>1. N \in 0 .. N
      BY LinkTypes
    <3> QED
      BY <3>1, GainToSteps
  <2>3. k \in Int /\ j \in Int /\ j = -k
    BY <1>1
  <2>4. /\ C.amount[x] = (l + 1 * d) % Word /\ M.amount[x] = (C.amount[x] + k) % Word
        /\ D.amount[x] = (M.amount[x] + (-1) * d) % Word
        /\ Undone(M, b).amount[x] = (D.amount[x] + j) % Word
    BY <1>4, <1>5, <1>6, <1>7
  <2> HIDE DEF l, d, k, j
  <2>5. M.amount[x] = (l + d + k) % Word
    <3>1. (((l + d) % Word) + k) % Word = (l + d + k) % Word
      BY <2>1, <2>2, <2>3, PaysTwice
    <3>2. 1 * d = d
      BY <2>2
    <3> QED
      BY <2>4, <3>1, <3>2
  <2>6. D.amount[x] = (l + d + k + (-d)) % Word
    <3>1. (-1) * d = -d /\ -d \in Int /\ l + d \in Int
      BY <2>1, <2>2
    <3>2. ((((l + d) + k) % Word) + (-d)) % Word = ((l + d) + k + (-d)) % Word
      BY <2>3, <3>1, PaysTwice
    <3> QED
      BY <2>4, <2>5, <3>1, <3>2
  <2>7. l + d + k + (-d) = l + k
    BY <2>1, <2>2, <2>3
  <2>8. (((l + k) % Word) + j) % Word = (l + k + j) % Word
    BY <2>1, <2>3, PaysTwice
  <2>9. l + k + j = l
    BY <2>1, <2>3
  <2>10. Undone(M, b).amount[x] = l
    BY <2>1, <2>4, <2>6, <2>7, <2>8, <2>9
  <2> QED
    BY <2>10 DEF l
<1>9. Undone(M, b).amount \in [Blocks -> 0 .. Word - 1] /\ L.amount \in [Blocks -> 0 .. Word - 1]
  BY <1>3 DEF Ledger
<1> QED
  BY <1>8, <1>9 DEF M
=============================================================================
