---------------------------- MODULE RouterProofs ----------------------------
(***************************************************************************)
(* Proofs about Router: whatever the graph, every router except the one    *)
(* named for it gives levels under which routes cannot deadlock, the       *)
(* tables of Dijkstra hold routes over these levels, what nodes look up in *)
(* the tables follows those routes, up and down levels let every node be   *)
(* reached from every other, and the other levels are forests and trees    *)
(* that span what they should, with the best ways in the first; and the    *)
(* sets, numbers and distances they are computed with are what they stand  *)
(* for at every step.                                                      *)
(*                                                                         *)
(* First, what they rest on: what recursive functions compute, when        *)
(* channels without successors can be taken away until none is left        *)
(* (Acyclic), that levels without circles make all routes of               *)
(* non-decreasing level free of circles, and what Reach reaches.           *)
(***************************************************************************)
EXTENDS Router, FiniteSetTheorems, WellFoundedInduction, SequenceTheorems, TLAPS

-----------------------------------------------------------------------------
(***************************************************************************)
(* Natural numbers: every set of them has a least member, and one that     *)
(* holds 0 and the successor of each member holds all.                     *)
(***************************************************************************)
LEMMA Least ==
  ASSUME NEW S \in SUBSET Nat, S # {}
  PROVE  \E m \in S : \A k \in S : m <= k
<1>1. \E m \in S : \A k \in S : ~(<<k, m>> \in OpToRel(<, Nat))
  BY NatLessThanWellFounded, WFMin
<1>2. PICK m \in S : \A k \in S : ~(<<k, m>> \in OpToRel(<, Nat))
  BY <1>1
<1>3. \A k \in S : ~(k < m)
  BY <1>2 DEF OpToRel
<1>4. \A k \in S : m <= k
  BY <1>3
<1>5. QED
  BY <1>4

LEMMA AllNaturals ==
  ASSUME NEW S, 0 \in S, \A n \in Nat : n \in S => n + 1 \in S
  PROVE  Nat \subseteq S
<1>1. SUFFICES ASSUME Nat \ S # {}
               PROVE  FALSE
  OBVIOUS
<1>2. PICK m \in Nat \ S : \A k \in Nat \ S : m <= k
  BY <1>1, Least
<1>3. m # 0 /\ m - 1 \in Nat
  BY <1>2
<1>4. m - 1 \in S
  BY <1>2, <1>3
<1>5. (m - 1) + 1 = m
  BY <1>2
<1>6. QED
  BY <1>2, <1>3, <1>4, <1>5

(***************************************************************************)
(* The greatest value a function takes on a finite set.                    *)
(***************************************************************************)
LEMMA Greatest ==
  ASSUME NEW E, IsFiniteSet(E), E # {}, NEW f \in [E -> Int]
  PROVE  \E x \in E : \A y \in E : f[y] <= f[x]
<1>1. PICK n \in Nat : ExistsSurjection(1 .. n, E)
  BY FS_NatSurjection
<1>2. PICK b : b \in Surjection(1 .. n, E)
  BY <1>1 DEF ExistsSurjection
<1>3. b \in [1 .. n -> E] /\ \A y \in E : \E i \in 1 .. n : b[i] = y
  BY <1>2 DEF Surjection
<1>. DEFINE Best(k, i) == \A j \in 1 .. k : f[b[j]] <= f[b[i]]
            Prefix == {k \in Nat : k + 1 <= n => \E i \in 1 .. k + 1 : Best(k + 1, i)}
<1>4. n >= 1 /\ \A i \in 1 .. n : f[b[i]] \in Int
  BY <1>1, <1>3
<1>5. 0 \in Prefix
  <2>1. Best(1, 1)
    BY <1>4
  <2>2. QED
    BY <2>1
<1>6. ASSUME NEW k \in Nat, k \in Prefix
      PROVE  k + 1 \in Prefix
  <2>1. SUFFICES ASSUME k + 2 <= n
                 PROVE  \E i \in 1 .. k + 2 : Best(k + 2, i)
    BY <1>1
  <2>2. PICK i \in 1 .. k + 1 : Best(k + 1, i)
    BY <1>1, <1>6, <2>1
  <2>3. \A j \in 1 .. k + 2 : f[b[j]] \in Int /\ (j \in 1 .. k + 1 \/ j = k + 2)
    BY <1>1, <1>4, <2>1
  <2>4. i \in 1 .. k + 2 /\ k + 2 \in 1 .. k + 2
    OBVIOUS
  <2>5. CASE f[b[k + 2]] <= f[b[i]]
    <3>1. Best(k + 2, i)
      BY <2>2, <2>3, <2>5
    <3>2. QED
      BY <2>4, <3>1
  <2>6. CASE ~(f[b[k + 2]] <= f[b[i]])
    <3>1. Best(k + 2, k + 2)
      BY <2>2, <2>3, <2>4, <2>6
    <3>2. QED
      BY <2>4, <3>1
  <2>7. QED
    BY <2>5, <2>6
<1>7. Nat \subseteq Prefix
  <2>. HIDE DEF Prefix
  <2>1. QED
    BY <1>5, <1>6, AllNaturals
<1>8. n - 1 \in Nat /\ (n - 1) + 1 = n
  BY <1>1, <1>4
<1>9. PICK i \in 1 .. n : Best(n, i)
  <2>1. n - 1 \in Prefix
    <3>. HIDE DEF Prefix
    <3>1. QED
      BY <1>7, <1>8
  <2>2. QED
    BY <1>1, <1>8, <2>1
<1>10. b[i] \in E /\ \A y \in E : f[y] <= f[b[i]]
  BY <1>3, <1>9
<1>11. QED
  BY <1>10

-----------------------------------------------------------------------------
(***************************************************************************)
(* Recursive functions: f[y] is a[y] at a base point y, and else comes     *)
(* from y and f[p[y]], where p[y] has a smaller rank.  There is such a     *)
(* function, and only one.                                                 *)
(***************************************************************************)
Descends(P, B, r, p) == r \in [P -> Nat] /\ \A y \in P \ B : p[y] \in P /\ r[p[y]] < r[y]

Recurs(f, P, B, p, a, g) == \A y \in P : f[y] = IF y \in B THEN a[y] ELSE g[<<f[p[y]], y>>]

RecursBelow(k, f, P, B, r, p, a, g) ==
  \A y \in P : r[y] < k => f[y] = IF y \in B THEN a[y] ELSE g[<<f[p[y]], y>>]

LEMMA RecursionUnique ==
  ASSUME NEW P, NEW B, NEW r, NEW p, NEW a, NEW g, NEW k \in Nat, NEW f, NEW h,
         Descends(P, B, r, p), RecursBelow(k, f, P, B, r, p, a, g),
         RecursBelow(k, h, P, B, r, p, a, g)
  PROVE  \A y \in P : r[y] < k => f[y] = h[y]
<1>. DEFINE Bad == {r[y] : y \in {z \in P : r[z] < k /\ f[z] # h[z]}}
<1>. USE DEF Descends, RecursBelow
<1>1. SUFFICES ASSUME Bad # {}
               PROVE  FALSE
  OBVIOUS
<1>2. PICK m \in Bad : \A n \in Bad : m <= n
  <2>1. Bad \in SUBSET Nat
    OBVIOUS
  <2>. HIDE DEF Bad
  <2>2. QED
    BY <1>1, <2>1, Least
<1>3. PICK y \in P : r[y] = m /\ r[y] < k /\ f[y] # h[y]
  BY <1>2
<1>4. y \notin B
  BY <1>3
<1>5. p[y] \in P /\ r[p[y]] < r[y] /\ r[p[y]] \in Nat /\ r[y] \in Nat
  BY <1>4
<1>6. r[p[y]] < k
  BY <1>3, <1>5
<1>7. f[p[y]] # h[p[y]]
  BY <1>3, <1>4
<1>8. r[p[y]] \in Bad
  BY <1>5, <1>6, <1>7
<1>9. QED
  BY <1>2, <1>3, <1>5, <1>8

LEMMA Recursion ==
  ASSUME NEW P, NEW T, NEW B, NEW r, NEW p, NEW a \in [P -> T], NEW g,
         Descends(P, B, r, p),
         \A t \in T, y \in P : g[<<t, y>>] \in T
  PROVE  \E f \in [P -> T] : Recurs(f, P, B, p, a, g)
<1>. DEFINE Upto(k, h) == RecursBelow(k, h, P, B, r, p, a, g)
            Some == {k \in Nat : \E h \in [P -> T] : Upto(k, h)}
<1>0. r \in [P -> Nat] /\ \A y \in P \ B : p[y] \in P /\ r[p[y]] < r[y]
  BY DEF Descends
<1>1. 0 \in Some
  BY <1>0 DEF RecursBelow
<1>2. ASSUME NEW k \in Nat, k \in Some
      PROVE  k + 1 \in Some
  <2>1. PICK h \in [P -> T] : Upto(k, h)
    BY <1>2
  <2>. DEFINE h1 == [y \in P |-> IF y \in B THEN a[y] ELSE g[<<h[p[y]], y>>]]
  <2>2. h1 \in [P -> T]
    BY <1>0
  <2>3. ASSUME NEW y \in P, r[y] < k + 1, y \notin B
        PROVE  h1[p[y]] = h[p[y]]
    <3>1. p[y] \in P /\ r[p[y]] < k
      BY <1>0, <2>3
    <3>2. QED
      BY <2>1, <3>1 DEF RecursBelow
  <2>4. Upto(k + 1, h1)
    BY <2>3 DEF RecursBelow
  <2>. HIDE DEF h1
  <2>5. QED
    BY <2>2, <2>4
<1>3. \A k \in Nat : \E h \in [P -> T] : Upto(k, h)
  <2>1. Nat \subseteq Some
    <3>. HIDE DEF Some
    <3>1. QED
      BY <1>1, <1>2, AllNaturals
  <2>2. QED
    BY <2>1
<1>. DEFINE H(k) == CHOOSE h \in [P -> T] : Upto(k, h)
            f == [y \in P |-> H(r[y] + 1)[y]]
<1>4. \A k \in Nat : H(k) \in [P -> T] /\ Upto(k, H(k))
  BY <1>3
<1>. HIDE DEF H
<1>5. f \in [P -> T]
  BY <1>0, <1>4
<1>6. ASSUME NEW y \in P
      PROVE  f[y] = IF y \in B THEN a[y] ELSE g[<<f[p[y]], y>>]
  <2>1. r[y] \in Nat /\ r[y] + 1 \in Nat /\ r[y] < r[y] + 1
    BY <1>0
  <2>2. f[y] = IF y \in B THEN a[y] ELSE g[<<H(r[y] + 1)[p[y]], y>>]
    BY <1>4, <2>1 DEF RecursBelow
  <2>3. ASSUME y \notin B
        PROVE  H(r[y] + 1)[p[y]] = f[p[y]]
    <3>. DEFINE z == p[y]
                k == r[z] + 1
                h1 == H(r[y] + 1)
                h2 == H(r[z] + 1)
    <3>1. z \in P /\ r[z] \in Nat /\ r[z] < r[y] /\ k \in Nat /\ r[z] < k /\ k <= r[y] + 1
      BY <1>0, <2>1, <2>3
    <3>2. Upto(k, h1) /\ Upto(k, h2)
      <4>1. Upto(r[y] + 1, h1) /\ Upto(k, h2)
        BY <1>4, <2>1, <3>1
      <4>2. \A x \in P : r[x] < k => r[x] < r[y] + 1
        BY <1>0, <2>1, <3>1
      <4>. HIDE DEF h1, h2, k
      <4>3. QED
        BY <4>1, <4>2 DEF RecursBelow
    <3>. HIDE DEF h1, h2, k, z
    <3>3. \A x \in P : r[x] < k => h1[x] = h2[x]
      BY <3>1, <3>2, RecursionUnique
    <3>4. h1[z] = h2[z]
      BY <3>1, <3>3
    <3>5. QED
      BY <3>1, <3>4 DEF h1, h2, z
  <2>4. QED
    BY <2>2, <2>3
<1>7. QED
  BY <1>5, <1>6 DEF Recurs

-----------------------------------------------------------------------------
(***************************************************************************)
(* Acyclic: taking away the channels without a successor leaves none, as   *)
(* many times as there are channels, if there is one in every set.         *)
(***************************************************************************)
LEMMA Peeling ==
  ASSUME NEW E, IsFiniteSet(E), NEW R,
         \A S \in SUBSET E : S # {} => \E c \in S : \A d \in S : <<c, d>> \notin R,
         NEW core, core[0] = E,
         \A k \in Nat : core[k + 1] = {c \in core[k] : \E d \in core[k] : <<c, d>> \in R}
  PROVE  core[Cardinality(E)] = {}
<1>. DEFINE N == Cardinality(E)
            Fewer(k) == /\ core[k] \subseteq E
                        /\ core[k] = {} \/ Cardinality(core[k]) + k <= N
            Peeled == {k \in Nat : Fewer(k)}
<1>1. N \in Nat
  BY FS_CardinalityType
<1>2. 0 \in Peeled
  BY <1>1
<1>3. ASSUME NEW k \in Nat, k \in Peeled
      PROVE  k + 1 \in Peeled
  <2>1. core[k] \subseteq E /\ core[k + 1] = {c \in core[k] : \E d \in core[k] : <<c, d>> \in R}
    BY <1>3
  <2>2. core[k + 1] \subseteq core[k] /\ core[k + 1] \subseteq E
    BY <2>1
  <2>3. CASE core[k] = {}
    BY <2>1, <2>2, <2>3
  <2>4. CASE core[k] # {}
    <3>1. core[k + 1] # core[k]
      BY <2>1, <2>4
    <3>2. IsFiniteSet(core[k]) /\ IsFiniteSet(core[k + 1])
      BY <2>1, <2>2, FS_Subset
    <3>3. Cardinality(core[k + 1]) <= Cardinality(core[k]) /\ Cardinality(core[k + 1]) # Cardinality(core[k])
      BY <2>2, <3>1, <3>2, FS_Subset
    <3>4. Cardinality(core[k]) \in Nat /\ Cardinality(core[k + 1]) \in Nat
      BY <3>2, FS_CardinalityType
    <3>5. Cardinality(core[k]) + k <= N
      BY <1>3, <2>4
    <3>. HIDE DEF N
    <3>6. Cardinality(core[k + 1]) + (k + 1) <= N
      BY <1>1, <3>3, <3>4, <3>5
    <3>7. QED
      BY <2>2, <3>6
  <2>5. QED
    BY <2>3, <2>4
<1>4. N \in Peeled
  <2>1. Nat \subseteq Peeled
    <3>. HIDE DEF Peeled
    <3>1. QED
      BY <1>2, <1>3, AllNaturals
  <2>2. QED
    BY <1>1, <2>1
<1>5. core[N] \subseteq E /\ (core[N] = {} \/ Cardinality(core[N]) + N <= N)
  BY <1>4
<1>6. IsFiniteSet(core[N]) /\ Cardinality(core[N]) \in Nat
  BY <1>5, FS_Subset, FS_CardinalityType
<1>7. core[N] = {} \/ Cardinality(core[N]) = 0
  <2>. HIDE DEF N
  <2>1. QED
    BY <1>1, <1>5, <1>6
<1>8. QED
  BY <1>6, <1>7, FS_EmptySet

Peels(core, E, R) ==
  core = [k \in Nat |-> IF k = 0 THEN E
                        ELSE {c \in core[k - 1] : \E d \in core[k - 1] : <<c, d>> \in R}]

LEMMA Core ==
  ASSUME NEW E, NEW R
  PROVE  \E core \in [Nat -> SUBSET E] : Peels(core, E, R)
<1>. DEFINE r == [k \in Nat |-> k]
            p == [k \in Nat |-> k - 1]
            a == [k \in Nat |-> E]
            g == [z \in (SUBSET E) \X Nat |-> {c \in z[1] : \E d \in z[1] : <<c, d>> \in R}]
<1>1. Descends(Nat, {0}, r, p)
  BY DEF Descends
<1>2. a \in [Nat -> SUBSET E]
  OBVIOUS
<1>3. \A t \in SUBSET E, y \in Nat : g[<<t, y>>] = {c \in t : \E d \in t : <<c, d>> \in R}
  OBVIOUS
<1>4. \A t \in SUBSET E, y \in Nat : g[<<t, y>>] \in SUBSET E
  BY <1>3
<1>5. PICK core \in [Nat -> SUBSET E] : Recurs(core, Nat, {0}, p, a, g)
  <2>. HIDE DEF r, p, a, g
  <2>1. QED
    BY <1>1, <1>2, <1>4, Recursion
<1>6. \A k \in Nat : core[k] = IF k = 0 THEN E
                               ELSE {c \in core[k - 1] : \E d \in core[k - 1] : <<c, d>> \in R}
  <2>1. \A k \in Nat : core[k] = IF k \in {0} THEN a[k] ELSE g[<<core[p[k]], k>>]
    <3>. HIDE DEF p, a, g
    <3>1. QED
      BY <1>5 DEF Recurs
  <2>2. \A k \in Nat : k # 0 => p[k] = k - 1 /\ k - 1 \in Nat /\ core[k - 1] \in SUBSET E
    OBVIOUS
  <2>3. \A k \in Nat : a[k] = E
    OBVIOUS
  <2>. HIDE DEF p, a, g
  <2>4. \A k \in Nat : k # 0 => core[k] = {c \in core[k - 1] : \E d \in core[k - 1] : <<c, d>> \in R}
    <3>1. SUFFICES ASSUME NEW k \in Nat, k # 0
                   PROVE  core[k] = {c \in core[k - 1] : \E d \in core[k - 1] : <<c, d>> \in R}
      OBVIOUS
    <3>2. core[k] = g[<<core[k - 1], k>>]
      BY <2>1, <2>2, <3>1
    <3>3. core[k - 1] \in SUBSET E
      BY <2>2, <3>1
    <3>4. QED
      BY <1>3, <3>2, <3>3
  <2>5. core[0] = E
    BY <2>1, <2>3
  <2>6. QED
    BY <2>4, <2>5
<1>7. QED
  BY <1>6 DEF Peels

LEMMA AcyclicPairs ==
  ASSUME NEW E, IsFiniteSet(E), NEW R,
         \A S \in SUBSET E : S # {} => \E c \in S : \A d \in S : <<c, d>> \notin R
  PROVE  LET Follows(c, d) == <<c, d>> \in R IN Acyclic(E, Follows)
<1>. DEFINE top == CHOOSE core : Peels(core, E, R)
<1>1. Peels(top, E, R)
  BY Core
<1>. HIDE DEF top
<1>2. top[0] = E /\ \A k \in Nat : top[k + 1] = {c \in top[k] : \E d \in top[k] : <<c, d>> \in R}
  <2>1. \A k \in Nat : k + 1 \in Nat /\ k + 1 # 0 /\ (k + 1) - 1 = k
    OBVIOUS
  <2>2. QED
    BY <1>1, <2>1 DEF Peels
<1>3. top[Cardinality(E)] = {}
  BY <1>2, Peeling
<1>4. QED
  BY <1>3 DEF Acyclic, top, Peels

(***************************************************************************)
(* The same for turns.  NoCircle is what the invariants of the routers say *)
(* of a level.                                                             *)
(***************************************************************************)
NoCircle(E) == \A S \in SUBSET E : S # {} => \E c \in S : \A d \in S : ~Turn(c, d)

LEMMA NoCircleSubset ==
  ASSUME NEW E, NoCircle(E), NEW D \in SUBSET E
  PROVE  NoCircle(D)
BY DEF NoCircle

LEMMA AcyclicTurns ==
  ASSUME NEW E, IsFiniteSet(E), NoCircle(E)
  PROVE  Acyclic(E, Turn)
<1>. DEFINE R == {z \in E \X E : Turn(z[1], z[2])}
            Peel(core) == [k \in Nat |-> IF k = 0 THEN E
                                         ELSE {c \in core[k - 1] : \E d \in core[k - 1] : Turn(c, d)}]
            top == CHOOSE core : core = Peel(core)
<1>1. \A c, d \in E : <<c, d>> \in R <=> Turn(c, d)
  OBVIOUS
<1>2. PICK f \in [Nat -> SUBSET E] : Peels(f, E, R)
  <2>. HIDE DEF R
  <2>1. QED
    BY Core
<1>3. f = Peel(f)
  <2>1. \A k \in Nat : k # 0 => f[k - 1] \in SUBSET E
    OBVIOUS
  <2>2. \A k \in Nat : f[k] = IF k = 0 THEN E ELSE {c \in f[k - 1] : \E d \in f[k - 1] : Turn(c, d)}
    <3>. HIDE DEF R
    <3>1. QED
      BY <1>1, <1>2, <2>1 DEF Peels
  <2>3. QED
    BY <2>2
<1>4. top = Peel(top)
  BY <1>3
<1>. HIDE DEF top
<1>5. top[0] = E /\ \A k \in Nat : top[k + 1] = {c \in top[k] : \E d \in top[k] : Turn(c, d)}
  <2>1. \A k \in Nat : k + 1 \in Nat /\ k + 1 # 0 /\ (k + 1) - 1 = k
    OBVIOUS
  <2>2. QED
    BY <1>4, <2>1
<1>. DEFINE In == {k \in Nat : top[k] \subseteq E}
<1>6. \A k \in Nat : top[k] \subseteq E
  <2>1. 0 \in In /\ \A k \in Nat : k \in In => k + 1 \in In
    BY <1>5
  <2>. HIDE DEF In
  <2>2. Nat \subseteq In
    BY <2>1, AllNaturals
  <2>3. QED
    BY <2>2 DEF In
<1>7. \A k \in Nat : top[k + 1] = {c \in top[k] : \E d \in top[k] : <<c, d>> \in R}
  <2>1. ASSUME NEW k \in Nat
        PROVE  \A c, d \in top[k] : <<c, d>> \in R <=> Turn(c, d)
    <3>. HIDE DEF R
    <3>1. QED
      BY <1>1, <1>6
  <2>. HIDE DEF R
  <2>2. QED
    BY <1>5, <2>1
<1>8. \A S \in SUBSET E : S # {} => \E c \in S : \A d \in S : <<c, d>> \notin R
  BY <1>1 DEF NoCircle
<1>9. top[Cardinality(E)] = {}
  <2>. HIDE DEF R
  <2>1. QED
    BY <1>5, <1>7, <1>8, Peeling
<1>10. QED
  BY <1>9 DEF Acyclic, top

(***************************************************************************)
(* Channels that turn to channels of a higher number only go in no circle. *)
(***************************************************************************)
LEMMA RisingNoCircle ==
  ASSUME NEW E, IsFiniteSet(E), NEW f \in [E -> Int],
         \A c, d \in E : Turn(c, d) => f[c] < f[d]
  PROVE  NoCircle(E)
<1>1. SUFFICES ASSUME NEW S \in SUBSET E, S # {}
               PROVE  \E c \in S : \A d \in S : ~Turn(c, d)
  BY DEF NoCircle
<1>. DEFINE g == [c \in S |-> f[c]]
<1>2. IsFiniteSet(S) /\ g \in [S -> Int] /\ \A c \in S : g[c] = f[c]
  BY FS_Subset
<1>. HIDE DEF g
<1>3. PICK c \in S : \A d \in S : g[d] <= g[c]
  BY <1>1, <1>2, Greatest
<1>4. \A d \in S : f[d] <= f[c] /\ f[d] \in Int /\ f[c] \in Int
  BY <1>2, <1>3
<1>5. \A d \in S : ~Turn(c, d)
  BY <1>4
<1>6. QED
  BY <1>5

LEMMA RisingPairsNoCircle ==
  ASSUME NEW E, IsFiniteSet(E), NEW f \in [E -> Int], NEW g \in [E -> Int],
         \A c, d \in E : Turn(c, d) => f[c] < f[d] \/ (f[c] = f[d] /\ g[c] < g[d])
  PROVE  NoCircle(E)
<1>1. SUFFICES ASSUME NEW S \in SUBSET E, S # {}, \A c \in S : \E d \in S : Turn(c, d)
               PROVE  FALSE
  BY DEF NoCircle
<1>. DEFINE f1 == [c \in S |-> f[c]]
<1>2. IsFiniteSet(S) /\ f1 \in [S -> Int] /\ \A c \in S : f1[c] = f[c]
  BY FS_Subset
<1>. HIDE DEF f1
<1>3. PICK top \in S : \A d \in S : f1[d] <= f1[top]
  BY <1>1, <1>2, Greatest
<1>. DEFINE D == {c \in E : f[c] = f[top]}
            S0 == S \cap D
            g1 == [c \in D |-> g[c]]
<1>4. \A c \in S0 : \E d \in S0 : Turn(c, d)
  <2>1. SUFFICES ASSUME NEW c \in S0
                 PROVE  \E d \in S0 : Turn(c, d)
    OBVIOUS
  <2>2. PICK d \in S : Turn(c, d)
    BY <1>1
  <2>3. f[d] <= f[top] /\ f[c] = f[top] /\ f[c] <= f[d] /\ f[d] \in Int /\ f[top] \in Int
    BY <1>2, <1>3, <2>2
  <2>4. f[d] = f[top]
    BY <2>3
  <2>5. QED
    BY <2>2, <2>4
<1>5. \A c, d \in D : Turn(c, d) => g1[c] < g1[d]
  OBVIOUS
<1>6. IsFiniteSet(D) /\ g1 \in [D -> Int]
  BY FS_Subset
<1>7. NoCircle(D)
  <2>. HIDE DEF D, g1
  <2>1. QED
    BY <1>5, <1>6, RisingNoCircle
<1>8. top \in S0 /\ S0 \subseteq D
  OBVIOUS
<1>9. QED
  <2>. HIDE DEF D, S0
  <2>1. QED
    BY <1>4, <1>7, <1>8 DEF NoCircle

(***************************************************************************)
(* Nodes have a depth, channels join nodes of neighbouring depths, and     *)
(* those that lead up from a node all lead to the node from which those    *)
(* that lead down to it come.                                              *)
(***************************************************************************)
Rooted(E, depth) ==
  /\ \A c \in E : depth[c[1]] = depth[c[2]] + 1 \/ depth[c[2]] = depth[c[1]] + 1
  /\ \A c, d \in E : c[2] = d[1] /\ depth[c[1]] < depth[c[2]] /\ depth[d[2]] < depth[d[1]] => c[1] = d[2]

LEMMA RootedNoCircle ==
  ASSUME NEW E, IsFiniteSet(E), E \subseteq Channel, NEW depth \in [Node -> Nat], Rooted(E, depth)
  PROVE  NoCircle(E)
<1>. DEFINE f == [c \in E |-> IF depth[c[1]] < depth[c[2]] THEN depth[c[2]] ELSE 0 - depth[c[1]]]
<1>1. \A c \in E : c[1] \in Node /\ c[2] \in Node /\ depth[c[1]] \in Nat /\ depth[c[2]] \in Nat
  BY DEF Channel
<1>2. f \in [E -> Int]
  BY <1>1
<1>3. ASSUME NEW c \in E, NEW d \in E, Turn(c, d)
      PROVE  f[c] < f[d]
  <2>1. c[2] = d[1] /\ c[1] # d[2]
    BY <1>3 DEF Turn
  <2>2. \A e \in {c, d} : depth[e[1]] = depth[e[2]] + 1 \/ depth[e[2]] = depth[e[1]] + 1
    BY DEF Rooted
  <2>3. ~(depth[c[1]] < depth[c[2]] /\ depth[d[2]] < depth[d[1]])
    BY <2>1 DEF Rooted
  <2>4. QED
    BY <1>1, <2>1, <2>2, <2>3
<1>. HIDE DEF f
<1>4. QED
  BY <1>2, <1>3, RisingNoCircle

(***************************************************************************)
(* Nodes are in classes (class[n] is one of them), channels join nodes of  *)
(* a class, and each class is rooted at each of its nodes: depth[r][n] is  *)
(* the depth of n below r.                                                 *)
(***************************************************************************)
Forest(E, class, depth) ==
  /\ depth \in [Node -> [Node -> Nat]]
  /\ \A n \in Node : depth[n][n] = 0
  /\ \A c \in E : class[c[1]] = class[c[2]]
  /\ \A r \in Node : Rooted({c \in E : class[c[1]] = class[r]}, depth[r])

LEMMA ForestNoCircle ==
  ASSUME NEW E, IsFiniteSet(E), E \subseteq Channel, NEW class, NEW depth, Forest(E, class, depth)
  PROVE  NoCircle(E)
<1>1. SUFFICES ASSUME NEW S \in SUBSET E, S # {}, \A c \in S : \E d \in S : Turn(c, d)
               PROVE  FALSE
  BY DEF NoCircle
<1>2. PICK c0 \in S : TRUE
  BY <1>1
<1>. DEFINE r == c0[1]
            D == {c \in E : class[c[1]] = class[r]}
            S0 == S \cap D
<1>3. r \in Node
  BY DEF Channel
<1>4. depth[r] \in [Node -> Nat] /\ Rooted(D, depth[r])
  BY <1>3 DEF Forest
<1>5. IsFiniteSet(D) /\ D \subseteq Channel
  BY FS_Subset
<1>6. NoCircle(D)
  <2>. HIDE DEF D
  <2>1. QED
    BY <1>4, <1>5, RootedNoCircle
<1>7. c0 \in S0
  BY <1>2
<1>8. \A c \in S0 : \E d \in S0 : Turn(c, d)
  <2>1. SUFFICES ASSUME NEW c \in S0
                 PROVE  \E d \in S0 : Turn(c, d)
    OBVIOUS
  <2>2. PICK d \in S : Turn(c, d)
    BY <1>1
  <2>3. class[d[1]] = class[c[2]] /\ class[c[2]] = class[c[1]] /\ class[c[1]] = class[r]
    BY <2>2 DEF Turn, Forest
  <2>4. QED
    BY <2>2, <2>3
<1>9. QED
  <2>. HIDE DEF D
  <2>1. QED
    BY <1>6, <1>7, <1>8 DEF NoCircle

(***************************************************************************)
(* A link between two classes makes them one, and the forest stays one.    *)
(***************************************************************************)
LEMMA ForestGrows ==
  ASSUME NEW E, E \subseteq Channel, NEW class, NEW class2, NEW depth, Forest(E, class, depth),
         NEW u \in Node, NEW v \in Node, class[u] # class[v],
         \A m, n \in Node : class2[m] = class2[n] <=>
           class[m] = class[n] \/ {class[m], class[n]} = {class[u], class[v]}
  PROVE  \E depth2 : Forest(E \cup {<<u, v>>, <<v, u>>}, class2, depth2)
<1>. DEFINE new == {<<u, v>>, <<v, u>>}
            depth2 == [r \in Node |-> [n \in Node |->
              IF class[r] = class[u] /\ class[n] = class[v] THEN depth[r][u] + 1 + depth[v][n]
              ELSE IF class[r] = class[v] /\ class[n] = class[u] THEN depth[r][v] + 1 + depth[u][n]
              ELSE depth[r][n]]]
<1>1. \A c \in E : c = <<c[1], c[2]>> /\ c[1] \in Node /\ c[2] \in Node /\ class[c[1]] = class[c[2]]
  BY DEF Channel, Forest
<1>2. /\ \A a, b \in Node : depth[a][b] \in Nat
      /\ \A n \in Node : depth[n][n] = 0
  BY DEF Forest
<1>3. depth2 \in [Node -> [Node -> Nat]]
  BY <1>2
<1>4. \A a, b \in Node : /\ class[a] = class[u] /\ class[b] = class[v] => depth2[a][b] = depth[a][u] + 1 + depth[v][b]
                         /\ class[a] = class[v] /\ class[b] = class[u] => depth2[a][b] = depth[a][v] + 1 + depth[u][b]
                         /\ class[a] = class[b] => depth2[a][b] = depth[a][b]
  OBVIOUS
<1>. HIDE DEF depth2
<1>5. \A n \in Node : depth2[n][n] = 0
  BY <1>2, <1>4
<1>6. \A c \in E \cup new : class2[c[1]] = class2[c[2]]
  BY <1>1
<1>7. ASSUME NEW r \in Node, NEW c \in E, class[c[1]] = class[r]
      PROVE  depth[r][c[1]] = depth[r][c[2]] + 1 \/ depth[r][c[2]] = depth[r][c[1]] + 1
  BY <1>7 DEF Forest, Rooted
<1>8. ASSUME NEW r \in Node, NEW c \in E, NEW d \in E, class[c[1]] = class[r], c[2] = d[1],
             depth[r][c[1]] < depth[r][c[2]], depth[r][d[2]] < depth[r][d[1]]
      PROVE  c[1] = d[2]
  <2>1. c \in {e \in E : class[e[1]] = class[r]} /\ d \in {e \in E : class[e[1]] = class[r]}
    BY <1>1, <1>8
  <2>2. QED
    BY <1>8, <2>1 DEF Forest, Rooted
<1>9. ASSUME NEW r \in Node
      PROVE  Rooted({c \in E \cup new : class2[c[1]] = class2[r]}, depth2[r])
  <2>. DEFINE D == {c \in E \cup new : class2[c[1]] = class2[r]}
  <2>1. ASSUME NEW c \in D, c \in E
        PROVE  \/ /\ class[c[1]] = class[r] /\ class[c[2]] = class[r]
                  /\ depth2[r][c[1]] = depth[r][c[1]] /\ depth2[r][c[2]] = depth[r][c[2]]
               \/ /\ class[r] = class[u] /\ class[c[1]] = class[v] /\ class[c[2]] = class[v]
                  /\ depth2[r][c[1]] = depth[r][u] + 1 + depth[v][c[1]]
                  /\ depth2[r][c[2]] = depth[r][u] + 1 + depth[v][c[2]]
               \/ /\ class[r] = class[v] /\ class[c[1]] = class[u] /\ class[c[2]] = class[u]
                  /\ depth2[r][c[1]] = depth[r][v] + 1 + depth[u][c[1]]
                  /\ depth2[r][c[2]] = depth[r][v] + 1 + depth[u][c[2]]
    <3>1. c[1] \in Node /\ c[2] \in Node /\ class[c[1]] = class[c[2]]
      BY <1>1, <2>1
    <3>2. class[c[1]] = class[r] \/ {class[c[1]], class[r]} = {class[u], class[v]}
      BY <1>9, <3>1
    <3>3. QED
      BY <1>4, <1>9, <3>1, <3>2
  <2>2. ASSUME NEW c \in D, c \notin E
        PROVE  \/ /\ class[r] = class[u]
                  /\ depth2[r][u] = depth[r][u] /\ depth2[r][v] = depth[r][u] + 1
               \/ /\ class[r] = class[v]
                  /\ depth2[r][v] = depth[r][v] /\ depth2[r][u] = depth[r][v] + 1
    <3>1. c[1] \in {u, v} /\ class2[c[1]] = class2[r]
      BY <2>2
    <3>2. class[r] = class[u] \/ class[r] = class[v]
      BY <1>9, <3>1
    <3>3. depth[u][u] = 0 /\ depth[v][v] = 0 /\ depth[r][u] \in Nat /\ depth[r][v] \in Nat
      BY <1>2, <1>9
    <3>4. CASE class[r] = class[u]
      <4>1. depth2[r][u] = depth[r][u] /\ depth2[r][v] = depth[r][u] + 1 + depth[v][v]
        BY <1>4, <1>9, <3>4
      <4>2. QED
        BY <3>3, <3>4, <4>1
    <3>5. CASE class[r] = class[v]
      <4>1. depth2[r][v] = depth[r][v] /\ depth2[r][u] = depth[r][v] + 1 + depth[u][u]
        BY <1>4, <1>9, <3>5
      <4>2. QED
        BY <3>3, <3>5, <4>1
    <3>6. QED
      BY <3>2, <3>4, <3>5
  <2>3. \A c \in D : /\ c[1] \in Node /\ c[2] \in Node
                     /\ c \notin E => c = <<u, v>> \/ c = <<v, u>>
    BY <1>1
  <2>4. \A n \in Node : depth[r][n] \in Nat /\ depth[u][n] \in Nat /\ depth[v][n] \in Nat /\ depth2[r][n] \in Nat
    BY <1>2, <1>3, <1>9
  <2>. HIDE DEF D
  <2>5. ASSUME NEW c \in D
        PROVE  depth2[r][c[1]] = depth2[r][c[2]] + 1 \/ depth2[r][c[2]] = depth2[r][c[1]] + 1
    <3>1. CASE c \in E
      <4>1. \A s \in Node : class[c[1]] = class[s] =>
              depth[s][c[1]] = depth[s][c[2]] + 1 \/ depth[s][c[2]] = depth[s][c[1]] + 1
        BY <1>7, <3>1
      <4>2. QED
        BY <1>9, <2>1, <2>3, <2>4, <3>1, <4>1, SMTT(30)
    <3>2. CASE c \notin E
      <4>1. c = <<u, v>> \/ c = <<v, u>>
        BY <2>3, <3>2
      <4>2. QED
        BY <2>2, <2>4, <3>2, <4>1
    <3>3. QED
      BY <3>1, <3>2
  <2>6. ASSUME NEW c \in D, NEW d \in D, c[2] = d[1],
               depth2[r][c[1]] < depth2[r][c[2]], depth2[r][d[2]] < depth2[r][d[1]]
        PROVE  c[1] = d[2]
    <3>1. CASE c \in E /\ d \in E
      <4>1. \A s \in Node : /\ class[c[1]] = class[s]
                            /\ depth[s][c[1]] < depth[s][c[2]] /\ depth[s][d[2]] < depth[s][d[1]]
                            => c[1] = d[2]
        BY <1>8, <2>6, <3>1
      <4>2. class[c[2]] = class[c[1]] /\ class[d[1]] = class[d[2]]
        BY <1>1, <3>1
      <4>3. CASE class[r] = class[c[1]]
        BY <1>9, <2>1, <2>6, <3>1, <4>1, <4>2, <4>3
      <4>4. CASE class[r] # class[c[1]]
        BY <1>9, <2>1, <2>3, <2>4, <2>6, <3>1, <4>1, <4>2, <4>4
      <4>5. QED
        BY <4>3, <4>4
    <3>2. CASE c \notin E /\ d \in E
      <4>1. c = <<u, v>> \/ c = <<v, u>>
        BY <2>3, <3>2
      <4>2. \/ class[r] = class[u] /\ d[1] = v /\ depth2[r][v] = depth[r][u] + 1
            \/ class[r] = class[v] /\ d[1] = u /\ depth2[r][u] = depth[r][v] + 1
        BY <2>2, <2>4, <2>6, <3>2, <4>1
      <4>3. \/ depth2[r][d[2]] = depth[r][u] + 1 + depth[v][d[2]] /\ depth2[r][d[1]] = depth[r][u] + 1
            \/ depth2[r][d[2]] = depth[r][v] + 1 + depth[u][d[2]] /\ depth2[r][d[1]] = depth[r][v] + 1
        BY <1>9, <2>1, <3>2, <4>2
      <4>4. QED
        BY <2>3, <2>4, <2>6, <4>3
    <3>3. CASE c \in E /\ d \notin E
      <4>1. d = <<u, v>> \/ d = <<v, u>>
        BY <2>3, <3>3
      <4>2. \/ class[r] = class[u] /\ c[2] = v /\ depth2[r][v] = depth[r][u] + 1
            \/ class[r] = class[v] /\ c[2] = u /\ depth2[r][u] = depth[r][v] + 1
        BY <2>2, <2>4, <2>6, <3>3, <4>1
      <4>3. \/ depth2[r][c[1]] = depth[r][u] + 1 + depth[v][c[1]] /\ depth2[r][c[2]] = depth[r][u] + 1
            \/ depth2[r][c[1]] = depth[r][v] + 1 + depth[u][c[1]] /\ depth2[r][c[2]] = depth[r][v] + 1
        BY <1>9, <2>1, <3>3, <4>2
      <4>4. QED
        BY <2>3, <2>4, <2>6, <4>3
    <3>4. CASE c \notin E /\ d \notin E
      BY <2>3, <2>6, <3>4
    <3>5. QED
      BY <3>1, <3>2, <3>3, <3>4
  <2>7. QED
    BY <2>5, <2>6 DEF Rooted, D
<1>10. QED
  BY <1>3, <1>5, <1>6, <1>9 DEF Forest

(***************************************************************************)
(* Turns between channels of non-decreasing level make no circle if those  *)
(* within a level make none.                                               *)
(***************************************************************************)
Ascends(E, l, T) == \A c, d \in E : <<c, d>> \in T => Turn(c, d) /\ 0 <= l[c] /\ l[c] <= l[d]
EachNoCircle(E, l) == \A k \in Nat : NoCircle({c \in E : l[c] = k})

LEMMA LevelledAcyclic ==
  ASSUME NEW E, IsFiniteSet(E), NEW l \in [E -> Int], NEW T, Ascends(E, l, T), EachNoCircle(E, l)
  PROVE  \A S \in SUBSET E : S # {} => \E c \in S : \A d \in S : <<c, d>> \notin T
<1>1. SUFFICES ASSUME NEW S \in SUBSET E, S # {}, \A c \in S : \E d \in S : <<c, d>> \in T
               PROVE  FALSE
  OBVIOUS
<1>. DEFINE g == [c \in S |-> l[c]]
<1>2. IsFiniteSet(S) /\ g \in [S -> Int] /\ \A c \in S : g[c] = l[c] /\ l[c] \in Int
  BY FS_Subset
<1>. HIDE DEF g
<1>3. PICK top \in S : \A d \in S : g[d] <= g[top]
  BY <1>1, <1>2, Greatest
<1>4. \A d \in S : l[d] <= l[top]
  BY <1>2, <1>3
<1>5. l[top] \in Nat
  <2>1. PICK d \in S : <<top, d>> \in T
    BY <1>1
  <2>2. 0 <= l[top] /\ l[top] \in Int
    BY <1>2, <2>1 DEF Ascends
  <2>3. QED
    BY <2>2
<1>. DEFINE D == {c \in E : l[c] = l[top]}
            S0 == S \cap D
<1>6. NoCircle(D)
  BY <1>5 DEF EachNoCircle
<1>7. \A c \in S0 : \E d \in S0 : Turn(c, d)
  <2>1. SUFFICES ASSUME NEW c \in S0
                 PROVE  \E d \in S0 : Turn(c, d)
    OBVIOUS
  <2>2. PICK d \in S : <<c, d>> \in T
    BY <1>1
  <2>3. Turn(c, d) /\ l[c] <= l[d] /\ l[c] = l[top]
    BY <2>2 DEF Ascends
  <2>4. l[d] = l[top]
    BY <1>2, <1>4, <2>3
  <2>5. QED
    BY <2>3, <2>4
<1>8. top \in S0 /\ S0 \subseteq D
  OBVIOUS
<1>9. QED
  <2>. HIDE DEF D, S0
  <2>1. QED
    BY <1>6, <1>7, <1>8 DEF NoCircle

-----------------------------------------------------------------------------
(***************************************************************************)
(* Reach: as many steps as there are nodes reach whatever can be reached,  *)
(* so it is the smallest set of nodes that holds the first ones and, for   *)
(* each channel that starts in it, the node where the channel ends.        *)
(***************************************************************************)
Onward(E, S) == S \cup {c[2] : c \in {d \in E : d[1] \in S}}

Closed(E, S) == \A c \in E : c[1] \in S => c[2] \in S

Spreads(step, E, U) ==
  step = [k \in Nat |-> IF k = 0 THEN U
                        ELSE step[k - 1] \cup {c[2] : c \in {d \in E : d[1] \in step[k - 1]}}]

LEMMA Spread ==
  ASSUME NEW E \in SUBSET Channel, NEW U \in SUBSET Node
  PROVE  \E step : Spreads(step, E, U)
<1>. DEFINE r == [k \in Nat |-> k]
            p == [k \in Nat |-> k - 1]
            a == [k \in Nat |-> U]
            g == [z \in (SUBSET Node) \X Nat |-> Onward(E, z[1])]
<1>1. Descends(Nat, {0}, r, p)
  BY DEF Descends
<1>2. a \in [Nat -> SUBSET Node]
  OBVIOUS
<1>3. \A t \in SUBSET Node, y \in Nat : g[<<t, y>>] = Onward(E, t)
  OBVIOUS
<1>4. \A t \in SUBSET Node, y \in Nat : g[<<t, y>>] \in SUBSET Node
  BY <1>3 DEF Onward, Channel
<1>5. PICK step \in [Nat -> SUBSET Node] : Recurs(step, Nat, {0}, p, a, g)
  <2>. HIDE DEF r, p, a, g
  <2>1. QED
    BY <1>1, <1>2, <1>4, Recursion
<1>6. \A k \in Nat : step[k] = IF k \in {0} THEN a[k] ELSE g[<<step[p[k]], k>>]
  <2>. HIDE DEF p, a, g
  <2>1. QED
    BY <1>5 DEF Recurs
<1>7. \A k \in Nat : k # 0 => p[k] = k - 1 /\ k - 1 \in Nat
  OBVIOUS
<1>8. \A k \in Nat : a[k] = U
  OBVIOUS
<1>. HIDE DEF p, a, g
<1>9. \A k \in Nat : k # 0 => step[k] = Onward(E, step[k - 1])
  <2>. SUFFICES ASSUME NEW k \in Nat, k # 0
                PROVE  step[k] = Onward(E, step[k - 1])
    OBVIOUS
  <2>1. step[k] = g[<<step[k - 1], k>>]
    BY <1>6, <1>7
  <2>2. step[k - 1] \in SUBSET Node
    BY <1>7
  <2>3. QED
    BY <1>3, <2>1, <2>2
<1>10. step[0] = U
  BY <1>6, <1>8
<1>11. QED
  BY <1>9, <1>10 DEF Spreads, Onward

LEMMA ReachSteps ==
  ASSUME NEW E \in SUBSET Channel, NEW U \in SUBSET Node
  PROVE  \E step : /\ step[0] = U
                   /\ \A k \in Nat : step[k + 1] = Onward(E, step[k])
                   /\ Reach(E, U) = step[Cardinality(Node)]
<1>. DEFINE top == CHOOSE step : Spreads(step, E, U)
<1>1. Spreads(top, E, U)
  BY Spread
<1>2. Reach(E, U) = top[Cardinality(Node)]
  BY DEF Reach, Spreads
<1>. HIDE DEF top
<1>3. \A k \in Nat : k + 1 \in Nat /\ k + 1 # 0 /\ (k + 1) - 1 = k
  OBVIOUS
<1>4. top[0] = U /\ \A k \in Nat : top[k + 1] = Onward(E, top[k])
  BY <1>1, <1>3 DEF Spreads, Onward
<1>5. QED
  BY <1>2, <1>4

(***************************************************************************)
(* Each step adds a node, or there is none left to add.                    *)
(***************************************************************************)
LEMMA ReachCloses ==
  ASSUME NEW E \in SUBSET Channel, NEW step, step[0] \in SUBSET Node,
         \A k \in Nat : step[k + 1] = Onward(E, step[k])
  PROVE  step[Cardinality(Node)] \in SUBSET Node /\ Closed(E, step[Cardinality(Node)])
<1>. DEFINE N == Cardinality(Node)
            Grown(k) == /\ step[k] \in SUBSET Node
                        /\ Closed(E, step[k]) \/ Cardinality(step[k]) >= k
            All == {k \in Nat : Grown(k)}
<1>1. N \in Nat /\ IsFiniteSet(Node)
  BY NodeAssumption, FS_CardinalityType
<1>2. \A S \in SUBSET Node : IsFiniteSet(S) /\ Cardinality(S) \in Nat /\ Cardinality(S) <= N
  BY <1>1, FS_Subset, FS_CardinalityType
<1>3. 0 \in All
  BY <1>2
<1>4. ASSUME NEW k \in Nat, k \in All
      PROVE  k + 1 \in All
  <2>1. PICK S \in SUBSET Node : S = step[k] /\ (Closed(E, S) \/ Cardinality(S) >= k)
    BY <1>4
  <2>2. PICK T : T = Onward(E, S) /\ T = step[k + 1]
    BY <2>1
  <2>3. T \in SUBSET Node /\ S \subseteq T
    BY <2>2 DEF Onward, Channel
  <2>4. CASE T = S
    <3>1. Closed(E, S)
      BY <2>2, <2>4 DEF Onward, Closed
    <3>2. step[k + 1] = S
      BY <2>2, <2>4
    <3>3. QED
      BY <3>1, <3>2
  <2>5. CASE T # S
    <3>1. ~ Closed(E, S)
      BY <2>2, <2>3, <2>5 DEF Onward, Closed
    <3>2. Cardinality(S) <= Cardinality(T) /\ Cardinality(S) # Cardinality(T)
      BY <2>3, <2>5, <1>2, FS_Subset
    <3>3. Cardinality(S) \in Nat /\ Cardinality(T) \in Nat /\ Cardinality(S) >= k
      BY <1>2, <2>1, <2>3, <3>1
    <3>4. Cardinality(T) >= k + 1
      BY <3>2, <3>3
    <3>5. step[k + 1] = T /\ T \in SUBSET Node
      BY <2>2, <2>3
    <3>6. QED
      BY <3>4, <3>5
  <2>6. QED
    BY <2>4, <2>5
<1>5. N \in All
  <2>1. Nat \subseteq All
    <3>. HIDE DEF All
    <3>1. QED
      BY <1>3, <1>4, AllNaturals
  <2>2. QED
    BY <1>1, <2>1
<1>6. PICK S \in SUBSET Node : S = step[N] /\ (Closed(E, S) \/ Cardinality(S) >= N)
  BY <1>5
<1>7. CASE Cardinality(S) >= N
  <2>1. Cardinality(S) = N
    BY <1>1, <1>2, <1>7
  <2>2. S = Node
    BY <1>1, <2>1, FS_Subset
  <2>3. Closed(E, S)
    BY <2>2 DEF Closed, Channel
  <2>4. QED
    BY <1>6, <2>3
<1>8. QED
  BY <1>6, <1>7

LEMMA ReachFacts ==
  ASSUME NEW E \in SUBSET Channel, NEW U \in SUBSET Node
  PROVE  /\ U \subseteq Reach(E, U) /\ Reach(E, U) \subseteq Node
         /\ Closed(E, Reach(E, U))
         /\ \A T : U \subseteq T /\ Closed(E, T) => Reach(E, U) \subseteq T
<1>1. PICK step : /\ step[0] = U
                  /\ \A k \in Nat : step[k + 1] = Onward(E, step[k])
                  /\ Reach(E, U) = step[Cardinality(Node)]
  BY ReachSteps
<1>2. Cardinality(Node) \in Nat
  BY NodeAssumption, FS_CardinalityType
<1>3. ASSUME NEW T, U \subseteq T, Closed(E, T)
      PROVE  step[Cardinality(Node)] \subseteq T
  <2>. DEFINE Inside == {k \in Nat : step[k] \subseteq T}
  <2>1. 0 \in Inside /\ \A k \in Nat : k \in Inside => k + 1 \in Inside
    BY <1>1, <1>3 DEF Closed, Onward
  <2>2. Nat \subseteq Inside
    <3>. HIDE DEF Inside
    <3>1. QED
      BY <2>1, AllNaturals
  <2>3. QED
    BY <1>2, <2>2
<1>4. U \subseteq step[Cardinality(Node)]
  <2>. DEFINE Inside == {k \in Nat : U \subseteq step[k]}
  <2>1. 0 \in Inside /\ \A k \in Nat : k \in Inside => k + 1 \in Inside
    BY <1>1 DEF Onward
  <2>2. Nat \subseteq Inside
    <3>. HIDE DEF Inside
    <3>1. QED
      BY <2>1, AllNaturals
  <2>3. QED
    BY <1>2, <2>2
<1>5. Reach(E, U) \subseteq Node /\ Closed(E, Reach(E, U))
  BY <1>1, ReachCloses
<1>6. QED
  BY <1>1, <1>3, <1>4, <1>5

LEMMA ReachTrans ==
  ASSUME NEW E \in SUBSET Channel, NEW u \in Node,
         NEW v \in Reach(E, {u}), NEW w \in Reach(E, {v})
  PROVE  w \in Reach(E, {u})
<1>1. Closed(E, Reach(E, {u})) /\ v \in Node
  BY ReachFacts
<1>2. {v} \subseteq Reach(E, {u})
  OBVIOUS
<1>3. Reach(E, {v}) \subseteq Reach(E, {u})
  BY <1>1, <1>2, ReachFacts
<1>4. QED
  BY <1>3

LEMMA ReachOne ==
  ASSUME NEW E \in SUBSET Channel, NEW c \in E
  PROVE  c[1] \in Reach(E, {c[1]}) /\ c[2] \in Reach(E, {c[1]})
<1>1. c[1] \in Node
  BY DEF Channel
<1>2. {c[1]} \subseteq Reach(E, {c[1]}) /\ Closed(E, Reach(E, {c[1]}))
  BY <1>1, ReachFacts
<1>3. QED
  BY <1>2 DEF Closed

(***************************************************************************)
(* More channels reach no less, and the same channels backwards lead back. *)
(***************************************************************************)
LEMMA ReachMore ==
  ASSUME NEW E \in SUBSET Channel, NEW F \in SUBSET E, NEW u \in Node
  PROVE  Reach(F, {u}) \subseteq Reach(E, {u})
<1>1. {u} \subseteq Reach(E, {u}) /\ Closed(E, Reach(E, {u}))
  BY ReachFacts
<1>2. Closed(F, Reach(E, {u})) /\ F \in SUBSET Channel
  BY <1>1 DEF Closed
<1>3. QED
  BY <1>1, <1>2, ReachFacts

LEMMA ReachBack ==
  ASSUME NEW E \in SUBSET Channel, NEW F \in SUBSET Channel, \A c \in E : Back(c) \in F,
         NEW u \in Node, NEW v \in Reach(E, {u})
  PROVE  u \in Reach(F, {v})
<1>. DEFINE T == {x \in Node : u \in Reach(F, {x})}
<1>1. {u} \subseteq T
  BY ReachFacts
<1>2. ASSUME NEW c \in E, c[1] \in T
      PROVE  c[2] \in T
  <2>1. PICK d \in F : d = Back(c) /\ d[1] = c[2] /\ d[2] = c[1]
    BY DEF Back
  <2>2. c[1] \in Reach(F, {c[2]}) /\ c[2] \in Node
    BY <2>1, ReachOne DEF Channel
  <2>3. u \in Reach(F, {c[1]})
    BY <1>2
  <2>4. u \in Reach(F, {c[2]})
    BY <2>2, <2>3, ReachTrans
  <2>5. QED
    BY <2>2, <2>4
<1>. HIDE DEF T
<1>3. Closed(E, T)
  BY <1>2 DEF Closed
<1>4. v \in T
  BY <1>1, <1>3, ReachFacts
<1>5. QED
  BY <1>4 DEF T

-----------------------------------------------------------------------------
(***************************************************************************)
(* Channels that go both ways.                                             *)
(***************************************************************************)
TwoWay(E) == \A c \in E : Back(c) \in E

(***************************************************************************)
(* Over such channels to reach and to be reached are the same.             *)
(***************************************************************************)
LEMMA ReachSym ==
  ASSUME NEW E \in SUBSET Channel, TwoWay(E), NEW u \in Node, NEW v \in Node
  PROVE  v \in Reach(E, {u}) <=> u \in Reach(E, {v})
BY ReachBack DEF TwoWay

(***************************************************************************)
(* The channels of a new link.                                             *)
(***************************************************************************)
LEMMA LinkChannels ==
  ASSUME NEW E \in SUBSET Channel, NEW a \in Node, NEW b \in Node, a # b
  PROVE  E \cup {<<a, b>>, <<b, a>>} \in SUBSET Channel
<1>1. <<a, b>> \in Node \X Node /\ <<b, a>> \in Node \X Node
  OBVIOUS
<1>2. <<a, b>> \in Channel /\ <<b, a>> \in Channel
  BY <1>1 DEF Channel
<1>3. QED
  BY <1>2

(***************************************************************************)
(* Another link joins what its two ends reach.                             *)
(***************************************************************************)
LEMMA ReachJoin ==
  ASSUME NEW E \in SUBSET Channel, NEW a \in Node, NEW b \in Node, a # b,
         NEW u \in Node, NEW v \in Node
  PROVE  v \in Reach(E \cup {<<a, b>>, <<b, a>>}, {u}) <=>
           \/ v \in Reach(E, {u})
           \/ a \in Reach(E, {u}) /\ v \in Reach(E, {b})
           \/ b \in Reach(E, {u}) /\ v \in Reach(E, {a})
<1>1. PICK F \in SUBSET Channel : F = E \cup {<<a, b>>, <<b, a>>}
  BY LinkChannels
<1>2. PICK U \in SUBSET Node, A \in SUBSET Node, B \in SUBSET Node :
        U = Reach(E, {u}) /\ A = Reach(E, {a}) /\ B = Reach(E, {b})
  BY ReachFacts
<1>3. u \in U /\ a \in A /\ b \in B /\ Closed(E, U) /\ Closed(E, A) /\ Closed(E, B)
  <2>1. \A x \in Node : {x} \subseteq Reach(E, {x}) /\ Closed(E, Reach(E, {x}))
    BY ReachFacts
  <2>2. QED
    BY <1>2, <2>1
<1>4. PICK T : T = U \cup (IF a \in U THEN B ELSE {}) \cup (IF b \in U THEN A ELSE {})
  OBVIOUS
<1>5. Closed(F, T)
  <2>1. \A c \in E : c[1] \in T => c[2] \in T
    BY <1>3, <1>4 DEF Closed
  <2>2. a \in T => b \in T
    BY <1>3, <1>4
  <2>3. b \in T => a \in T
    BY <1>3, <1>4
  <2>4. QED
    BY <1>1, <2>1, <2>2, <2>3 DEF Closed
<1>6. {u} \subseteq T
  BY <1>3, <1>4
<1>7. Reach(F, {u}) \subseteq T
  BY <1>5, <1>6, ReachFacts
<1>8. U \subseteq Reach(F, {u}) /\ A \subseteq Reach(F, {a}) /\ B \subseteq Reach(F, {b})
  <2>1. E \in SUBSET F
    BY <1>1
  <2>2. QED
    BY <1>2, <2>1, ReachMore
<1>9. Closed(F, Reach(F, {u}))
  BY ReachFacts
<1>10. a \in U => b \in Reach(F, {u})
  <2>1. <<a, b>> \in F
    BY <1>1
  <2>2. QED
    BY <1>8, <1>9, <2>1 DEF Closed
<1>11. b \in U => a \in Reach(F, {u})
  <2>1. <<b, a>> \in F
    BY <1>1
  <2>2. QED
    BY <1>8, <1>9, <2>1 DEF Closed
<1>12. a \in U => B \subseteq Reach(F, {u})
  BY <1>8, <1>10, ReachTrans
<1>13. b \in U => A \subseteq Reach(F, {u})
  BY <1>8, <1>11, ReachTrans
<1>14. v \in Reach(F, {u}) <=> v \in U \/ (a \in U /\ v \in B) \/ (b \in U /\ v \in A)
  BY <1>4, <1>7, <1>8, <1>12, <1>13
<1>15. QED
  BY <1>1, <1>2, <1>14

(***************************************************************************)
(* Without any one of the links its ends are not connected; a link between *)
(* nodes that were not connected keeps it so.                              *)
(***************************************************************************)
Bridges(E) == \A c \in E : c[2] \notin Reach(E \ {c, Back(c)}, {c[1]})

LEMMA BridgesGrow ==
  ASSUME NEW E \in SUBSET Channel, TwoWay(E), Bridges(E),
         NEW a \in Node, NEW b \in Node, a # b, b \notin Reach(E, {a})
  PROVE  /\ E \cup {<<a, b>>, <<b, a>>} \in SUBSET Channel
         /\ TwoWay(E \cup {<<a, b>>, <<b, a>>})
         /\ Bridges(E \cup {<<a, b>>, <<b, a>>})
<1>1. PICK F \in SUBSET Channel : F = E \cup {<<a, b>>, <<b, a>>}
  BY LinkChannels
<1>2. TwoWay(F)
  <2>1. \A c \in E : Back(c) \in F
    BY <1>1 DEF TwoWay
  <2>2. Back(<<a, b>>) = <<b, a>> /\ Back(<<b, a>>) = <<a, b>>
    BY DEF Back
  <2>3. \A c \in {<<a, b>>, <<b, a>>} : Back(c) \in F
    BY <1>1, <2>2
  <2>4. QED
    BY <1>1, <2>1, <2>3 DEF TwoWay
<1>3. a \notin Reach(E, {b})
  BY ReachSym
<1>4. <<a, b>> \notin E /\ <<b, a>> \notin E
  <2>1. <<a, b>> \in E => b \in Reach(E, {a})
    BY ReachOne
  <2>2. <<b, a>> \in E => a \in Reach(E, {b})
    BY ReachOne
  <2>3. QED
    BY <1>3, <2>1, <2>2
<1>5. \A c \in E : c[1] \in Node /\ c[2] \in Node /\ c = <<c[1], c[2]>> /\ Back(c) = <<c[2], c[1]>>
                   /\ Back(c) \in E
  <2>1. \A c \in Channel : c[1] \in Node /\ c[2] \in Node /\ c = <<c[1], c[2]>>
    BY DEF Channel
  <2>2. QED
    BY <2>1 DEF Back, TwoWay
<1>6. ASSUME NEW c \in {<<a, b>>, <<b, a>>}
      PROVE  c[2] \notin Reach(F \ {c, Back(c)}, {c[1]})
  <2>1. {c, Back(c)} = {<<a, b>>, <<b, a>>}
    BY DEF Back
  <2>2. F \ {<<a, b>>, <<b, a>>} = E
    BY <1>1, <1>4
  <2>3. c[2] \notin Reach(E, {c[1]})
    BY <1>3, SMTT(30)
  <2>4. QED
    BY <2>1, <2>2, <2>3
<1>7. ASSUME NEW c \in E
      PROVE  c[2] \notin Reach(F \ {c, Back(c)}, {c[1]})
  <2>1. PICK D \in SUBSET E : D = E \ {c, Back(c)}
    OBVIOUS
  <2>2. PICK p \in Node, q \in Node : c = <<p, q>> /\ Back(c) = <<q, p>> /\ <<q, p>> \in E
    BY <1>5
  <2>3. F \ {c, Back(c)} = D \cup {<<a, b>>, <<b, a>>}
    BY <1>1, <1>4, <2>1, <2>2
  <2>4. D \in SUBSET Channel /\ TwoWay(D)
    BY <1>5, <2>1, <2>2 DEF TwoWay
  <2>5. q \notin Reach(D, {p})
    BY <2>1, <2>2 DEF Bridges
  <2>6. q \in Reach(E, {p}) /\ p \in Reach(E, {q})
    BY <2>2, ReachOne
  <2>7. ASSUME NEW x \in Node, NEW y \in Reach(D, {x})
        PROVE  y \in Reach(E, {x})
    BY <2>7, ReachMore
  <2>8. ~(a \in Reach(D, {p}) /\ q \in Reach(D, {b}))
    <3>. SUFFICES ASSUME a \in Reach(D, {p}), q \in Reach(D, {b})
                  PROVE  FALSE
      OBVIOUS
    <3>1. a \in Reach(E, {p}) /\ q \in Reach(E, {b})
      BY <2>7
    <3>2. b \in Reach(E, {q}) /\ p \in Reach(E, {a})
      BY <3>1, ReachSym
    <3>3. b \in Reach(E, {p})
      BY <2>6, <3>2, ReachTrans
    <3>4. b \in Reach(E, {a})
      BY <3>2, <3>3, ReachTrans
    <3>5. QED
      BY <3>4
  <2>9. ~(b \in Reach(D, {p}) /\ q \in Reach(D, {a}))
    <3>. SUFFICES ASSUME b \in Reach(D, {p}), q \in Reach(D, {a})
                  PROVE  FALSE
      OBVIOUS
    <3>1. b \in Reach(E, {p}) /\ q \in Reach(E, {a})
      BY <2>7
    <3>2. p \in Reach(E, {q})
      BY <2>6
    <3>3. p \in Reach(E, {a})
      BY <3>1, <3>2, ReachTrans
    <3>4. b \in Reach(E, {a})
      BY <3>1, <3>3, ReachTrans
    <3>5. QED
      BY <3>4
  <2>10. q \notin Reach(D \cup {<<a, b>>, <<b, a>>}, {p})
    BY <2>4, <2>5, <2>8, <2>9, ReachJoin
  <2>11. QED
    BY <2>2, <2>3, <2>10
<1>8. Bridges(F)
  BY <1>1, <1>6, <1>7 DEF Bridges
<1>9. QED
  BY <1>1, <1>2, <1>8

-----------------------------------------------------------------------------
(***************************************************************************)
(* What is reached is the start or reached over some last channel.         *)
(***************************************************************************)
LEMMA ReachLast ==
  ASSUME NEW E \in SUBSET Channel, NEW u \in Node, NEW y \in Reach(E, {u}), y # u
  PROVE  \E c \in E : c[2] = y /\ c[1] \in Reach(E, {u})
<1>1. SUFFICES ASSUME \A c \in E : c[1] \in Reach(E, {u}) => c[2] # y
               PROVE  FALSE
  OBVIOUS
<1>2. {u} \subseteq Reach(E, {u}) /\ Closed(E, Reach(E, {u}))
  BY ReachFacts
<1>3. PICK T : T = Reach(E, {u}) \ {y}
  OBVIOUS
<1>4. {u} \subseteq T /\ Closed(E, T)
  BY <1>1, <1>2, <1>3 DEF Closed
<1>5. Reach(E, {u}) \subseteq T
  BY <1>4, ReachFacts
<1>6. QED
  BY <1>3, <1>5

(***************************************************************************)
(* Below a node are those reached going down from it; one gets out of them *)
(* only over the channel to its parent.                                    *)
(***************************************************************************)
LEMMA RootedBridges ==
  ASSUME NEW E \in SUBSET Channel, TwoWay(E), NEW depth \in [Node -> Nat], Rooted(E, depth)
  PROVE  Bridges(E)
<1>1. \A c \in E : c[1] \in Node /\ c[2] \in Node /\ c = <<c[1], c[2]>> /\ Back(c) = <<c[2], c[1]>>
                   /\ Back(c) \in E
  <2>1. \A c \in Channel : c[1] \in Node /\ c[2] \in Node /\ c = <<c[1], c[2]>>
    BY DEF Channel
  <2>2. QED
    BY <2>1 DEF Back, TwoWay
<1>2. ASSUME NEW p \in Node, NEW x \in Node, <<p, x>> \in E, depth[x] = depth[p] + 1
      PROVE  /\ p \notin Reach(E \ {<<p, x>>, <<x, p>>}, {x})
             /\ x \notin Reach(E \ {<<p, x>>, <<x, p>>}, {p})
  <2>1. PICK D \in SUBSET E : D = E \ {<<p, x>>, <<x, p>>}
    OBVIOUS
  <2>2. PICK Down \in SUBSET E : Down = {c \in E : depth[c[1]] < depth[c[2]]}
    OBVIOUS
  <2>3. Down \in SUBSET Channel /\ D \in SUBSET Channel
    OBVIOUS
  <2>4. PICK S \in SUBSET Node : S = Reach(Down, {x})
    BY <2>3, ReachFacts
  <2>5. x \in S /\ Closed(Down, S)
    BY <2>3, <2>4, ReachFacts
  <2>6. ASSUME NEW c \in D, c[1] \in S
        PROVE  c[2] \in S
    <3>1. c \in E /\ c[1] \in Node /\ c[2] \in Node /\ depth[c[1]] \in Nat /\ depth[c[2]] \in Nat
      BY <1>1
    <3>2. CASE depth[c[1]] < depth[c[2]]
      BY <2>2, <2>5, <2>6, <3>1, <3>2 DEF Closed
    <3>3. CASE ~(depth[c[1]] < depth[c[2]])
      <4>1. depth[c[2]] < depth[c[1]]
        BY <3>1, <3>3 DEF Rooted
      <4>2. CASE c[1] = x
        <5>1. depth[p] < depth[x] /\ <<p, x>>[2] = c[1] /\ <<p, x>>[1] = p /\ <<p, x>>[2] = x
          BY <1>2, <4>2
        <5>2. p = c[2]
          BY <1>2, <3>1, <4>1, <4>2, <5>1 DEF Rooted
        <5>3. c = <<x, p>>
          BY <1>1, <3>1, <4>2, <5>2
        <5>4. QED
          BY <2>1, <5>3
      <4>3. CASE c[1] # x
        <5>1. PICK b \in Down : b[2] = c[1] /\ b[1] \in S
          BY <2>3, <2>4, <2>6, <4>3, ReachLast
        <5>2. b \in E /\ depth[b[1]] < depth[b[2]]
          BY <2>2
        <5>3. b[1] = c[2]
          BY <3>1, <4>1, <5>1, <5>2 DEF Rooted
        <5>4. QED
          BY <5>1, <5>3
      <4>4. QED
        BY <4>2, <4>3
    <3>4. QED
      BY <3>2, <3>3
  <2>7. Closed(D, S)
    BY <2>6 DEF Closed
  <2>8. Reach(D, {x}) \subseteq S
    BY <2>3, <2>5, <2>7, ReachFacts
  <2>9. p \notin S
    <3>1. PICK T : T = {y \in Node : depth[y] >= depth[x]}
      OBVIOUS
    <3>2. {x} \subseteq T
      BY <3>1
    <3>3. Closed(Down, T)
      <4>. SUFFICES ASSUME NEW c \in Down, c[1] \in T
                    PROVE  c[2] \in T
        BY DEF Closed
      <4>1. c[1] \in Node /\ c[2] \in Node /\ depth[c[1]] < depth[c[2]] /\ depth[c[1]] >= depth[x]
        BY <1>1, <2>2, <3>1
      <4>2. depth[c[1]] \in Nat /\ depth[c[2]] \in Nat /\ depth[x] \in Nat
        BY <4>1
      <4>3. QED
        BY <3>1, <4>1, <4>2
    <3>4. S \subseteq T
      BY <2>3, <2>4, <3>2, <3>3, ReachFacts
    <3>5. p \notin T
      BY <1>2, <3>1
    <3>6. QED
      BY <3>4, <3>5
  <2>10. p \notin Reach(D, {x})
    BY <2>8, <2>9
  <2>11. TwoWay(D)
    BY <1>1, <2>1 DEF TwoWay
  <2>12. x \notin Reach(D, {p})
    BY <2>3, <2>10, <2>11, ReachSym
  <2>13. QED
    BY <2>1, <2>10, <2>12
<1>3. ASSUME NEW c \in E
      PROVE  c[2] \notin Reach(E \ {c, Back(c)}, {c[1]})
  <2>1. PICK a \in Node, b \in Node : c = <<a, b>> /\ Back(c) = <<b, a>> /\ <<b, a>> \in E
    BY <1>1, ZenonT(60)
  <2>2. c[1] = a /\ c[2] = b
    BY <2>1
  <2>3. depth[a] = depth[b] + 1 \/ depth[b] = depth[a] + 1
    BY <2>2 DEF Rooted
  <2>4. CASE depth[b] = depth[a] + 1
    BY <1>2, <2>1, <2>2, <2>4
  <2>5. CASE depth[a] = depth[b] + 1
    <3>1. b \notin Reach(E \ {<<b, a>>, <<a, b>>}, {a})
      BY <1>2, <2>1, <2>5
    <3>2. {<<b, a>>, <<a, b>>} = {c, Back(c)}
      BY <2>1
    <3>3. QED
      BY <2>2, <3>1, <3>2
  <2>6. QED
    BY <2>3, <2>4, <2>5
<1>4. QED
  BY <1>3 DEF Bridges

(***************************************************************************)
(* Distances from u, to the nodes D that can be reached: a node at a       *)
(* distance has, over the channels E, one before it, and no channel of F   *)
(* leads farther than one on.                                              *)
(***************************************************************************)
Distances(u, D, d, E, F) ==
  /\ u \in D /\ D \in SUBSET Node /\ d \in [Node -> Nat] /\ d[u] = 0
  /\ \A m \in D \ {u} : \E p \in D : <<p, m>> \in E /\ d[m] = d[p] + 1
  /\ \A c \in F : c[1] \in D => c[2] \in D /\ d[c[2]] <= d[c[1]] + 1

(***************************************************************************)
(* After k steps all is reached that is at a distance of up to k.          *)
(***************************************************************************)
LEMMA SpreadsByDistance ==
  ASSUME NEW u, NEW D, NEW d, NEW E, NEW F, Distances(u, D, d, E, F),
         NEW G, E \subseteq G, G \subseteq F, NEW step, Spreads(step, G, {u}), NEW k \in Nat
  PROVE  step[k] = {m \in D : d[m] <= k}
<1>. DEFINE Within(i) == {m \in D : d[m] <= i}
            All == {i \in Nat : step[i] = Within(i)}
<1>1. \A m \in D : d[m] \in Nat
  BY DEF Distances
<1>2. step[0] = {u}
  BY DEF Spreads
<1>3. Within(0) = {u}
  <2>1. u \in Within(0)
    BY DEF Distances
  <2>2. ASSUME NEW m \in D, m # u
        PROVE  ~(d[m] <= 0)
    <3>1. PICK p \in D : d[m] = d[p] + 1
      BY <2>2 DEF Distances
    <3>2. QED
      BY <1>1, <3>1
  <2>3. QED
    BY <2>1, <2>2
<1>4. ASSUME NEW i \in Nat, i \in All
      PROVE  i + 1 \in All
  <2>1. step[i] = Within(i)
    BY <1>4
  <2>2. step[i + 1] = step[i] \cup {c[2] : c \in {e \in G : e[1] \in step[i]}}
    <3>1. i + 1 \in Nat /\ i + 1 # 0 /\ (i + 1) - 1 = i
      OBVIOUS
    <3>2. QED
      BY <3>1 DEF Spreads
  <2>3. ASSUME NEW m \in step[i + 1]
        PROVE  m \in Within(i + 1)
    <3>1. CASE m \in Within(i)
      BY <1>1, <3>1
    <3>2. CASE m \notin Within(i)
      <4>1. PICK c \in G : c[1] \in Within(i) /\ m = c[2]
        BY <2>1, <2>2, <2>3, <3>2
      <4>2. c \in F /\ c[1] \in D /\ d[c[1]] <= i
        BY <4>1
      <4>3. m \in D /\ d[m] <= d[c[1]] + 1
        BY <4>1, <4>2 DEF Distances
      <4>4. QED
        BY <1>1, <4>2, <4>3
    <3>3. QED
      BY <3>1, <3>2
  <2>4. ASSUME NEW m \in Within(i + 1)
        PROVE  m \in step[i + 1]
    <3>1. CASE d[m] <= i
      BY <2>1, <2>2, <3>1
    <3>2. CASE ~(d[m] <= i)
      <4>1. m \in D /\ m # u
        BY <3>2 DEF Distances
      <4>2. PICK p \in D : <<p, m>> \in E /\ d[m] = d[p] + 1
        BY <4>1 DEF Distances
      <4>3. p \in Within(i)
        BY <1>1, <4>2
      <4>4. <<p, m>> \in G /\ <<p, m>>[1] \in step[i] /\ <<p, m>>[2] = m
        BY <2>1, <4>2, <4>3
      <4>5. QED
        BY <2>2, <4>4
    <3>3. QED
      BY <3>1, <3>2
  <2>5. QED
    BY <2>3, <2>4
<1>5. 0 \in All
  BY <1>2, <1>3
<1>6. Nat \subseteq All
  <2>. HIDE DEF All
  <2>1. QED
    BY <1>4, <1>5, AllNaturals
<1>7. QED
  BY <1>6


-----------------------------------------------------------------------------
(***************************************************************************)
(* The graph.                                                              *)
(***************************************************************************)
LEMMA GraphFacts ==
  ASSUME Link \subseteq Channel
  PROVE  /\ Both(Link) \subseteq Channel /\ IsFiniteSet(Both(Link))
         /\ \A c \in Both(Link) : Back(c) \in Both(Link)
         /\ Link \subseteq Both(Link) /\ Ends(Link) \subseteq Node
         /\ \A e \in Link : e[1] \in Node /\ e[2] \in Node /\ e = <<e[1], e[2]>> /\ e[1] # e[2]
<1>1. \A e \in Link : e[1] \in Node /\ e[2] \in Node /\ e = <<e[1], e[2]>> /\ e[1] # e[2]
  BY DEF Channel
<1>2. Both(Link) \subseteq Channel /\ Link \subseteq Both(Link) /\ Ends(Link) \subseteq Node
  BY <1>1 DEF Both, Back, Channel, Ends
<1>3. \A c \in Both(Link) : Back(c) \in Both(Link)
  BY <1>1 DEF Both, Back
<1>4. IsFiniteSet(Node \X Node)
  BY NodeAssumption, FS_Product
<1>5. Both(Link) \in SUBSET (Node \X Node)
  BY <1>2 DEF Channel
<1>6. IsFiniteSet(Both(Link))
  BY <1>4, <1>5, FS_Subset
<1>7. QED
  BY <1>1, <1>2, <1>3, <1>6

-----------------------------------------------------------------------------
(***************************************************************************)
(* The union-find forest: heights grow towards the root, so that the root  *)
(* of every node is found.                                                 *)
(***************************************************************************)
UnionSet(par, hei) ==
  /\ par \in [Node -> Node \cup {NoNode}] /\ hei \in [Node -> Nat]
  /\ \A m \in Node : par[m] # NoNode => hei[m] < hei[par[m]]

Finds(f, par) == f = [m \in Node |-> IF par[m] = NoNode THEN m ELSE f[par[m]]]
Find(par) == CHOOSE f : Finds(f, par)

LEMMA Ranked ==
  ASSUME NEW par, NEW hei, UnionSet(par, hei)
  PROVE  \E r : Descends(Node, {m \in Node : par[m] = NoNode}, r, par)
<1>1. CASE Node = {}
  <2>1. [m \in Node |-> 0] \in [Node -> Nat]
    OBVIOUS
  <2>2. QED
    BY <1>1, <2>1 DEF Descends
<1>2. CASE Node # {}
  <2>1. hei \in [Node -> Int]
    BY DEF UnionSet
  <2>2. PICK n \in Node : \A m \in Node : hei[m] <= hei[n]
    BY <1>2, <2>1, NodeAssumption, Greatest
  <2>. DEFINE r == [m \in Node |-> hei[n] - hei[m]]
  <2>3. r \in [Node -> Nat]
    BY <2>2 DEF UnionSet
  <2>4. \A m \in Node : par[m] # NoNode => par[m] \in Node /\ r[par[m]] < r[m]
    BY NoNodeAssumption DEF UnionSet
  <2>5. QED
    BY <2>3, <2>4 DEF Descends
<1>3. QED
  BY <1>1, <1>2

LEMMA Found ==
  ASSUME NEW par, NEW hei, UnionSet(par, hei)
  PROVE  /\ Find(par) \in [Node -> Node] /\ Finds(Find(par), par)
         /\ \A n \in Node : par[Find(par)[n]] = NoNode
<1>. DEFINE B == {m \in Node : par[m] = NoNode}
            a == [m \in Node |-> m]
            g == [z \in Node \X Node |-> z[1]]
<1>1. PICK r : Descends(Node, B, r, par)
  BY Ranked
<1>2. /\ a \in [Node -> Node] /\ \A t, y \in Node : g[<<t, y>>] = t
      /\ \A t \in Node, y \in Node : g[<<t, y>>] \in Node
  OBVIOUS
<1>3. PICK f \in [Node -> Node] : Recurs(f, Node, B, par, a, g)
  <2>. HIDE DEF B, a, g
  <2>1. QED
    BY <1>1, <1>2, Recursion
<1>4. \A m \in Node : par[m] # NoNode => par[m] \in Node
  BY DEF UnionSet
<1>5. \A m \in Node : f[m] = IF par[m] = NoNode THEN m ELSE f[par[m]]
  <2>1. SUFFICES ASSUME NEW m \in Node
                 PROVE  f[m] = IF par[m] = NoNode THEN m ELSE f[par[m]]
    OBVIOUS
  <2>2. f[m] = IF m \in B THEN a[m] ELSE g[<<f[par[m]], m>>]
    <3>. HIDE DEF B, a, g
    <3>1. QED
      BY <1>3 DEF Recurs
  <2>3. par[m] # NoNode => g[<<f[par[m]], m>>] = f[par[m]]
    <3>. HIDE DEF g
    <3>1. QED
      BY <1>2, <1>3, <1>4
  <2>. HIDE DEF g
  <2>4. QED
    BY <2>2, <2>3
<1>6. Finds(f, par)
  BY <1>5 DEF Finds
<1>7. Finds(Find(par), par)
  BY <1>6 DEF Find
<1>. DEFINE F == Find(par)
            Ok(n) == F[n] \in Node /\ par[F[n]] = NoNode
            Bad == {r[n] : n \in {m \in Node : ~Ok(m)}}
<1>8. \A m \in Node : F[m] = IF par[m] = NoNode THEN m ELSE F[par[m]]
  BY <1>7 DEF Finds
<1>. HIDE DEF F
<1>9. Bad = {}
  <2>1. SUFFICES ASSUME Bad # {}
                 PROVE  FALSE
    OBVIOUS
  <2>2. PICK k \in Bad : \A j \in Bad : k <= j
    <3>1. Bad \in SUBSET Nat
      BY <1>1 DEF Descends
    <3>. HIDE DEF Bad
    <3>2. QED
      BY <2>1, <3>1, Least
  <2>3. PICK n \in Node : r[n] = k /\ ~Ok(n)
    BY <2>2
  <2>4. n \notin B
    BY <1>8, <2>3
  <2>5. par[n] \in Node /\ r[par[n]] < r[n] /\ r[par[n]] \in Nat /\ r[n] \in Nat
    BY <1>1, <2>4 DEF Descends
  <2>6. ~Ok(par[n])
    BY <1>8, <2>3, <2>4
  <2>7. r[par[n]] \in Bad
    BY <2>5, <2>6
  <2>8. QED
    BY <2>2, <2>3, <2>5, <2>7, SMTT(30)
<1>10. \A n \in Node : Ok(n)
  BY <1>9
<1>11. QED
  BY <1>7, <1>10 DEF F, Finds

(***************************************************************************)
(* Merging: the taller root becomes the parent of the other one.           *)
(***************************************************************************)
Joined(par, down, up) == [par EXCEPT ![down] = up]
Raised(hei, down, up) == [hei EXCEPT ![up] = Taller(hei[up], hei[down] + 1)]

LEMMA Merged ==
  ASSUME NEW par, NEW hei, UnionSet(par, hei), NEW up \in Node, NEW down \in Node,
         up # down, par[up] = NoNode, par[down] = NoNode, hei[down] <= hei[up]
  PROVE  /\ UnionSet(Joined(par, down, up), Raised(hei, down, up))
         /\ \A n \in Node : Find(Joined(par, down, up))[n] =
                              IF Find(par)[n] = down THEN up ELSE Find(par)[n]
<1>. DEFINE par2 == [par EXCEPT ![down] = up]
            hei2 == [hei EXCEPT ![up] = Taller(hei[up], hei[down] + 1)]
<1>1. UnionSet(par2, hei2)
  <2>1. hei[up] \in Nat /\ hei[down] \in Nat
    BY DEF UnionSet
  <2>2. Taller(hei[up], hei[down] + 1) \in Nat /\ hei[up] <= Taller(hei[up], hei[down] + 1)
        /\ hei[down] < Taller(hei[up], hei[down] + 1)
    BY <2>1 DEF Taller
  <2>. DEFINE h == Taller(hei[up], hei[down] + 1)
  <2>3. par2 \in [Node -> Node \cup {NoNode}] /\ hei2 \in [Node -> Nat]
    BY <2>2 DEF UnionSet
  <2>4. ASSUME NEW m \in Node, par2[m] # NoNode
        PROVE  hei2[m] < hei2[par2[m]]
    <3>1. hei2[up] = h /\ \A n \in Node : n # up => hei2[n] = hei[n]
      BY DEF UnionSet
    <3>2. CASE m = down
      <4>1. par2[m] = up
        BY <3>2 DEF UnionSet
      <4>2. QED
        BY <2>1, <2>2, <3>1, <3>2, <4>1
    <3>3. CASE m # down
      <4>1. par2[m] = par[m] /\ m # up
        BY <2>4, <3>3 DEF UnionSet
      <4>2. par[m] \in Node /\ hei[m] < hei[par[m]] /\ hei[m] \in Nat /\ hei[par[m]] \in Nat
        BY <2>4, <4>1 DEF UnionSet
      <4>3. QED
        BY <2>1, <2>2, <3>1, <4>1, <4>2
    <3>4. QED
      BY <3>2, <3>3
  <2>5. QED
    BY <2>3, <2>4 DEF UnionSet
<1>. DEFINE F == Find(par)
            F2 == Find(par2)
<1>2. F \in [Node -> Node] /\ \A m \in Node : F[m] = IF par[m] = NoNode THEN m ELSE F[par[m]]
  BY Found DEF Finds
<1>3. F2 \in [Node -> Node] /\ \A m \in Node : F2[m] = IF par2[m] = NoNode THEN m ELSE F2[par2[m]]
  <2>. HIDE DEF par2, hei2
  <2>1. F2 \in [Node -> Node] /\ Finds(F2, par2)
    BY <1>1, Found
  <2>2. QED
    BY <2>1 DEF Finds
<1>4. PICK r : Descends(Node, {m \in Node : par[m] = NoNode}, r, par)
  BY Ranked
<1>. HIDE DEF F, F2
<1>. DEFINE Ok(n) == F2[n] = IF F[n] = down THEN up ELSE F[n]
            Bad == {r[n] : n \in {m \in Node : ~Ok(m)}}
<1>5. Bad = {}
  <2>1. SUFFICES ASSUME Bad # {}
                 PROVE  FALSE
    OBVIOUS
  <2>2. PICK k \in Bad : \A j \in Bad : k <= j
    <3>1. Bad \in SUBSET Nat
      BY <1>4 DEF Descends
    <3>. HIDE DEF Bad
    <3>2. QED
      BY <2>1, <3>1, Least
  <2>3. PICK n \in Node : r[n] = k /\ ~Ok(n)
    BY <2>2
  <2>4. par2[up] = NoNode /\ par2[down] = up /\ \A m \in Node : m # down => par2[m] = par[m]
    BY DEF UnionSet
  <2>5. par[n] # NoNode
    <3>1. CASE par[n] = NoNode
      <4>1. F[n] = n
        BY <1>2, <3>1
      <4>2. CASE n = down
        BY <1>3, <2>3, <2>4, <4>1, <4>2, NoNodeAssumption
      <4>3. CASE n # down
        BY <1>3, <2>3, <2>4, <3>1, <4>1, <4>3
      <4>4. QED
        BY <4>2, <4>3
    <3>2. QED
      BY <3>1
  <2>6. par[n] \in Node /\ r[par[n]] < r[n] /\ r[par[n]] \in Nat /\ r[n] \in Nat
    BY <1>4, <2>5 DEF Descends
  <2>7. F[n] = F[par[n]] /\ F2[n] = F2[par[n]]
    BY <1>2, <1>3, <2>4, <2>5
  <2>8. r[par[n]] \in Bad
    BY <2>3, <2>6, <2>7
  <2>9. QED
    <3>. HIDE DEF Bad
    <3>1. QED
      BY <2>2, <2>3, <2>6, <2>8
<1>6. \A n \in Node : Ok(n)
  BY <1>5
<1>7. QED
  BY <1>1, <1>6 DEF F, F2, Joined, Raised

(***************************************************************************)
(* Powers of 2, as UnionSetShallow asks for them.                          *)
(***************************************************************************)
LEMMA Powers ==
  /\ PowerOf2[0] = 1
  /\ \A h \in Nat : PowerOf2[h] \in Nat /\ PowerOf2[h + 1] = 2 * PowerOf2[h]
<1>. DEFINE r == [k \in Nat |-> k]
            p == [k \in Nat |-> k - 1]
            a == [k \in Nat |-> 1]
            g == [z \in Nat \X Nat |-> 2 * z[1]]
            Doubles(f) == f = [h \in Nat |-> IF h = 0 THEN 1 ELSE 2 * f[h - 1]]
<1>1. Descends(Nat, {0}, r, p)
  BY DEF Descends
<1>2. a \in [Nat -> Nat] /\ \A t \in Nat, y \in Nat : g[<<t, y>>] = 2 * t /\ g[<<t, y>>] \in Nat
  OBVIOUS
<1>3. PICK f \in [Nat -> Nat] : Recurs(f, Nat, {0}, p, a, g)
  <2>. HIDE DEF r, p, a, g
  <2>1. QED
    BY <1>1, <1>2, Recursion
<1>4. \A k \in Nat : f[k] = IF k \in {0} THEN a[k] ELSE g[<<f[p[k]], k>>]
  <2>. HIDE DEF p, a, g
  <2>1. QED
    BY <1>3 DEF Recurs
<1>5. \A k \in Nat : a[k] = 1 /\ (k # 0 => p[k] = k - 1 /\ k - 1 \in Nat)
  OBVIOUS
<1>6. \A k \in Nat : f[k] = IF k = 0 THEN 1 ELSE 2 * f[k - 1]
  <2>. HIDE DEF p, a, g
  <2>1. QED
    BY <1>2, <1>4, <1>5, ZenonT(40)
<1>7. Doubles(f)
  BY <1>6
<1>8. Doubles(PowerOf2)
  BY <1>7 DEF PowerOf2
<1>9. \A k \in Nat : PowerOf2[k] = IF k = 0 THEN 1 ELSE 2 * PowerOf2[k - 1]
  BY <1>8
<1>. DEFINE All == {k \in Nat : PowerOf2[k] \in Nat}
<1>10. \A k \in Nat : k + 1 \in Nat /\ k + 1 # 0 /\ (k + 1) - 1 = k
  OBVIOUS
<1>11. PowerOf2[0] = 1 /\ \A k \in Nat : PowerOf2[k + 1] = 2 * PowerOf2[k]
  BY <1>9, <1>10
<1>12. 0 \in All /\ \A k \in Nat : k \in All => k + 1 \in All
  BY <1>11
<1>13. Nat \subseteq All
  <2>. HIDE DEF All
  <2>1. QED
    BY <1>12, AllNaturals
<1>14. QED
  BY <1>11, <1>13

(***************************************************************************)
(* A root of height h has 2^h nodes at least under it.  Merging two sets   *)
(* makes the taller one higher only if both are equally high.              *)
(***************************************************************************)
Under(par, n) == {m \in Node : Find(par)[m] = n}

Shallow(par, hei) ==
  \A n \in Node : par[n] = NoNode => PowerOf2[hei[n]] <= Cardinality(Under(par, n))

LEMMA MergedShallow ==
  ASSUME NEW par, NEW hei, UnionSet(par, hei), Shallow(par, hei), NEW up \in Node, NEW down \in Node,
         up # down, par[up] = NoNode, par[down] = NoNode, hei[down] <= hei[up]
  PROVE  Shallow(Joined(par, down, up), Raised(hei, down, up))
<1>1. PICK par2, hei2 : par2 = Joined(par, down, up) /\ hei2 = Raised(hei, down, up)
  OBVIOUS
<1>2. \A n \in Node : Find(par2)[n] = IF Find(par)[n] = down THEN up ELSE Find(par)[n]
  BY <1>1, Merged
<1>3. /\ \A n \in Node : n # down => par2[n] = par[n]
      /\ \A n \in Node : n # up => hei2[n] = hei[n]
      /\ par2[down] # NoNode /\ hei2[up] = Taller(hei[up], hei[down] + 1)
      /\ hei[up] \in Nat /\ hei[down] \in Nat
  BY <1>1, NoNodeAssumption DEF UnionSet, Joined, Raised
<1>4. \A n \in Node : IsFiniteSet(Under(par, n)) /\ Cardinality(Under(par, n)) \in Nat
  <2>1. \A n \in Node : Under(par, n) \subseteq Node
    BY DEF Under
  <2>2. QED
    BY <2>1, NodeAssumption, FS_Subset, FS_CardinalityType
<1>5. ASSUME NEW n \in Node, n # up, par2[n] = NoNode
      PROVE  PowerOf2[hei2[n]] <= Cardinality(Under(par2, n))
  <2>1. n # down /\ par[n] = NoNode /\ hei2[n] = hei[n]
    BY <1>3, <1>5
  <2>2. Under(par2, n) = Under(par, n)
    BY <1>2, <1>5, <2>1 DEF Under
  <2>3. QED
    BY <2>1, <2>2 DEF Shallow
<1>6. PowerOf2[hei2[up]] <= Cardinality(Under(par2, up))
  <2>1. Under(par2, up) = Under(par, up) \cup Under(par, down)
    BY <1>2 DEF Under
  <2>2. Under(par, up) \cap Under(par, down) = {}
    BY DEF Under
  <2>3. Cardinality(Under(par2, up)) = Cardinality(Under(par, up)) + Cardinality(Under(par, down))
    <3>1. Cardinality(Under(par, up) \cup Under(par, down)) =
            Cardinality(Under(par, up)) + Cardinality(Under(par, down)) - Cardinality({})
      BY <1>4, <2>2, FS_Union
    <3>2. QED
      BY <1>4, <2>1, <3>1, FS_EmptySet
  <2>4. /\ PowerOf2[hei[up]] <= Cardinality(Under(par, up))
        /\ PowerOf2[hei[down]] <= Cardinality(Under(par, down))
    BY DEF Shallow
  <2>5. PowerOf2[hei[up]] \in Nat /\ PowerOf2[hei[down]] \in Nat
    BY <1>3, Powers
  <2>6. CASE hei[up] = hei[down]
    <3>1. hei2[up] = hei[down] + 1
      BY <1>3, <2>6 DEF Taller
    <3>2. PowerOf2[hei2[up]] = 2 * PowerOf2[hei[down]]
      BY <1>3, <3>1, Powers
    <3>3. QED
      BY <1>4, <2>3, <2>4, <2>5, <2>6, <3>2
  <2>7. CASE hei[up] # hei[down]
    <3>1. hei2[up] = hei[up]
      BY <1>3, <2>7 DEF Taller
    <3>2. QED
      BY <1>4, <2>3, <2>4, <2>5, <3>1
  <2>8. QED
    BY <2>6, <2>7
<1>7. QED
  BY <1>1, <1>5, <1>6 DEF Shallow

LEMMA SingleShallow ==
  ASSUME NEW par, par = NoParents
  PROVE  UnionSet(par, NoHeights) /\ Shallow(par, NoHeights)
<1>1. UnionSet(par, NoHeights)
  BY DEF UnionSet, NoParents, NoHeights
<1>2. PICK F \in [Node -> Node] : F = Find(par) /\ Finds(F, par)
  BY <1>1, Found
<1>3. \A n \in Node : F[n] = n
  BY <1>2 DEF Finds, NoParents
<1>4. \A n \in Node : Under(par, n) = {n}
  BY <1>2, <1>3 DEF Under
<1>5. \A n \in Node : PowerOf2[NoHeights[n]] = 1
  BY Powers DEF NoHeights
<1>6. \A n \in Node : Cardinality(Under(par, n)) = 1
  BY <1>4, FS_Singleton
<1>7. QED
  BY <1>1, <1>5, <1>6 DEF Shallow

(***************************************************************************)
(* What choose_sp_tree_links asks and does.                                *)
(***************************************************************************)
LEMMA FindIsTop ==
  ASSUME NEW n
  PROVE  union_set_find_set_parent(n) = Find(parent)[n]
BY DEF union_set_find_set_parent, Find, Finds

LEMMA ShallowSets ==
  Shallow(parent, height) <=> UnionSetShallow
<1>1. \A m : union_set_find_set_parent(m) = Find(parent)[m]
  BY FindIsTop
<1>2. \A n : {m \in Node : union_set_find_set_parent(m) = n} = Under(parent, n)
  BY <1>1 DEF Under
<1>3. QED
  BY <1>2 DEF Shallow, UnionSetShallow

LEMMA MergeStep ==
  ASSUME UnionSet(parent, height), NEW n0 \in Node, NEW n1 \in Node,
         ~union_set_is_same_set(n0, n1), union_set_merge_set(n0, n1)
  PROVE  /\ UnionSet(parent', height')
         /\ Shallow(parent, height) => Shallow(parent', height')
         /\ \A m, n \in Node : Find(parent')[m] = Find(parent')[n] <=>
              \/ Find(parent)[m] = Find(parent)[n]
              \/ {Find(parent)[m], Find(parent)[n]} = {Find(parent)[n0], Find(parent)[n1]}
<1>. DEFINE F == Find(parent)
            up == IF height[F[n0]] < height[F[n1]] THEN F[n1] ELSE F[n0]
            down == IF up = F[n0] THEN F[n1] ELSE F[n0]
<1>1. /\ F[n0] # F[n1]
      /\ parent' = [parent EXCEPT ![down] = up]
      /\ height' = [height EXCEPT ![up] = Taller(height[up], height[down] + 1)]
  BY FindIsTop DEF union_set_is_same_set, union_set_merge_set
<1>2. F \in [Node -> Node] /\ \A n \in Node : parent[F[n]] = NoNode
  BY Found
<1>. HIDE DEF F
<1>3. /\ up \in Node /\ down \in Node /\ up # down /\ {up, down} = {F[n0], F[n1]}
      /\ parent[up] = NoNode /\ parent[down] = NoNode
  BY <1>1, <1>2
<1>4. height[down] <= height[up]
  <2>1. height[F[n0]] \in Nat /\ height[F[n1]] \in Nat
    BY <1>2 DEF UnionSet
  <2>2. QED
    BY <2>1
<1>. HIDE DEF up, down
<1>5. /\ UnionSet(parent', height')
      /\ Shallow(parent, height) => Shallow(parent', height')
      /\ \A n \in Node : Find(parent')[n] = IF F[n] = down THEN up ELSE F[n]
  <2>1. parent' = Joined(parent, down, up) /\ height' = Raised(height, down, up)
    BY <1>1 DEF Joined, Raised
  <2>2. Shallow(parent, height) => Shallow(parent', height')
    BY <2>1, <1>3, <1>4, MergedShallow
  <2>3. QED
    BY <2>1, <2>2, <1>3, <1>4, Merged DEF F
<1>6. \A m, n \in Node : Find(parent')[m] = Find(parent')[n] <=>
        F[m] = F[n] \/ {F[m], F[n]} = {F[n0], F[n1]}
  BY <1>3, <1>5
<1>7. QED
  BY <1>5, <1>6 DEF F

-----------------------------------------------------------------------------
(***************************************************************************)
(* Sorting: an order of the links is a sequence of links.                  *)
(***************************************************************************)
OrdersOf(t, E) ==
  IF E = {} THEN {<<>>}
  ELSE UNION {{<<e>> \o s : s \in t[E \ {e}]} : e \in {f \in E : \A h \in E : ~Better(h, f)}}

LEMMA OrdersOfType ==
  ASSUME NEW t, NEW E \in SUBSET Link, \A e \in E : t[E \ {e}] \subseteq Seq(Link)
  PROVE  OrdersOf(t, E) \subseteq Seq(Link)
<1>1. SUFFICES ASSUME NEW s \in OrdersOf(t, E)
               PROVE  s \in Seq(Link)
  OBVIOUS
<1>2. s = <<>> \/ \E e \in E : \E q \in t[E \ {e}] : s = <<e>> \o q
  BY DEF OrdersOf
<1>3. ASSUME NEW e \in E, NEW q \in t[E \ {e}], s = <<e>> \o q
      PROVE  s \in Seq(Link)
  <2>1. <<e>> \in Seq(Link) /\ q \in Seq(Link)
    <3>1. t[E \ {e}] \subseteq Seq(Link)
      OBVIOUS
    <3>2. e \in Link
      OBVIOUS
    <3>3. <<e>> \in Seq(Link)
      BY <3>2
    <3>4. q \in Seq(Link)
      BY <3>1
    <3>5. QED
      BY <3>3, <3>4
  <2>2. QED
    BY <1>3, <2>1, ConcatProperties
<1>4. QED
  BY <1>2, <1>3, EmptySeq

LEMMA OrdersRecurs ==
  ASSUME Link \subseteq Channel
  PROVE  \E o : o = [E \in SUBSET Link |-> OrdersOf(o, E)]
<1>. DEFINE T == [SUBSET Link -> SUBSET Seq(Link)]
            B == {0}
            r == [k \in Nat |-> k]
            p == [k \in Nat |-> k - 1]
            a == [k \in Nat |-> [E \in SUBSET Link |-> {<<>>}]]
            g == [z \in T \X Nat |-> [E \in SUBSET Link |-> OrdersOf(z[1], E)]]
<1>1. Descends(Nat, B, r, p)
  BY DEF Descends
<1>2. a \in [Nat -> T]
  BY EmptySeq
<1>3. \A t \in T, k \in Nat : g[<<t, k>>] = [E \in SUBSET Link |-> OrdersOf(t, E)]
  OBVIOUS
<1>4. \A t \in T, k \in Nat : g[<<t, k>>] \in T
  <2>1. \A t \in T, E \in SUBSET Link : OrdersOf(t, E) \in SUBSET Seq(Link)
    BY OrdersOfType
  <2>2. \A t \in T : [E \in SUBSET Link |-> OrdersOf(t, E)] \in T
    BY <2>1
  <2>. HIDE DEF g, T
  <2>3. QED
    BY <1>3, <2>2
<1>5. PICK l \in [Nat -> T] : Recurs(l, Nat, B, p, a, g)
  <2>. HIDE DEF T, B, r, p, a, g
  <2>1. QED
    BY <1>1, <1>2, <1>4, Recursion
<1>6. ASSUME NEW k \in Nat, k # 0
      PROVE  l[k] = [E \in SUBSET Link |-> OrdersOf(l[k - 1], E)]
  <2>1. k \notin B /\ p[k] = k - 1 /\ k - 1 \in Nat
    BY <1>6
  <2>2. l[k] = g[<<l[k - 1], k>>]
    <3>. HIDE DEF T, B, p, a, g
    <3>1. QED
      BY <1>5, <2>1 DEF Recurs
  <2>3. l[k - 1] \in T
    BY <2>1
  <2>. HIDE DEF T, g
  <2>4. QED
    BY <1>3, <2>2, <2>3
<1>. DEFINE o == [E \in SUBSET Link |-> IF E = {} THEN {<<>>} ELSE l[Cardinality(E)][E]]
<1>7. IsFiniteSet(Link)
  BY GraphFacts, FS_Subset
<1>8. ASSUME NEW E \in SUBSET Link
      PROVE  o[E] = OrdersOf(o, E)
  <2>1. CASE E = {}
    BY <2>1 DEF OrdersOf
  <2>2. CASE E # {}
    <3>1. IsFiniteSet(E) /\ Cardinality(E) \in Nat /\ Cardinality(E) # 0
      BY <1>7, <2>2, FS_Subset, FS_CardinalityType, FS_EmptySet
    <3>2. o[E] = OrdersOf(l[Cardinality(E) - 1], E)
      BY <1>6, <2>2, <3>1
    <3>3. ASSUME NEW e \in E
          PROVE  l[Cardinality(E) - 1][E \ {e}] = o[E \ {e}]
      <4>1. Cardinality(E \ {e}) = Cardinality(E) - 1 /\ IsFiniteSet(E \ {e})
        BY <3>1, FS_RemoveElement
      <4>2. CASE E \ {e} # {}
        BY <4>1, <4>2
      <4>3. CASE E \ {e} = {}
        <5>1. Cardinality(E) - 1 = 0
          BY <4>1, <4>3, FS_EmptySet
        <5>2. l[0] = a[0]
          <6>. HIDE DEF T, p, a, g
          <6>1. QED
            BY <1>5 DEF Recurs
        <5>3. QED
          BY <4>3, <5>1, <5>2
      <4>4. QED
        BY <4>2, <4>3
    <3>4. OrdersOf(l[Cardinality(E) - 1], E) = OrdersOf(o, E)
      <4>. HIDE DEF o
      <4>1. ASSUME NEW s
            PROVE  s \in OrdersOf(l[Cardinality(E) - 1], E) <=> s \in OrdersOf(o, E)
        <5>. DEFINE D == {f \in E : \A h \in E : ~Better(h, f)}
        <5>1. ASSUME NEW t
              PROVE  s \in OrdersOf(t, E) <=> \E e \in D : \E q \in t[E \ {e}] : s = <<e>> \o q
          <6>1. OrdersOf(t, E) = UNION {{<<e>> \o q : q \in t[E \ {e}]} : e \in D}
            BY <2>2 DEF OrdersOf
          <6>. HIDE DEF D
          <6>. DEFINE From(e) == {<<e>> \o q : q \in t[E \ {e}]}
          <6>2. s \in OrdersOf(t, E) <=> \E e \in D : s \in From(e)
            <7>1. OrdersOf(t, E) = UNION {From(e) : e \in D}
              BY <6>1
            <7>. HIDE DEF From
            <7>2. QED
              BY <7>1
          <6>3. QED
            BY <6>2
        <5>2. D \subseteq E
          OBVIOUS
        <5>. HIDE DEF D
        <5>3. QED
          BY <3>3, <5>1, <5>2
      <4>2. QED
        BY <4>1
    <3>5. QED
      BY <3>2, <3>4
  <2>3. QED
    BY <2>1, <2>2
<1>9. o = [E \in SUBSET Link |-> OrdersOf(o, E)]
  <2>1. \A E \in SUBSET Link : o[E] = OrdersOf(o, E)
    BY <1>8
  <2>. DEFINE oo == [E \in SUBSET Link |-> OrdersOf(o, E)]
  <2>2. DOMAIN o = SUBSET Link /\ \A E \in SUBSET Link : o[E] = oo[E]
    <3>1. \A E \in SUBSET Link : oo[E] = OrdersOf(o, E)
      OBVIOUS
    <3>. HIDE DEF oo
    <3>2. QED
      BY <2>1, <3>1
  <2>3. o = oo
    BY <2>2
  <2>4. QED
    BY <2>3
<1>10. QED
  BY <1>9

LEMMA OrdersType ==
  ASSUME Link \subseteq Channel
  PROVE  Orders \subseteq Seq(Link)
<1>. DEFINE o == CHOOSE f : f = [E \in SUBSET Link |-> OrdersOf(f, E)]
            Bad == {Cardinality(E) : E \in {D \in SUBSET Link : ~(o[D] \subseteq Seq(Link))}}
<1>1. o = [E \in SUBSET Link |-> OrdersOf(o, E)]
  BY OrdersRecurs
<1>2. Orders = o[Link]
  BY DEF Orders, OrdersOf
<1>. HIDE DEF o
<1>3. IsFiniteSet(Link)
  BY GraphFacts, FS_Subset
<1>4. Bad = {}
  <2>1. SUFFICES ASSUME Bad # {}
                 PROVE  FALSE
    OBVIOUS
  <2>2. PICK k \in Bad : \A j \in Bad : k <= j
    <3>1. Bad \in SUBSET Nat
      BY <1>3, FS_Subset, FS_CardinalityType
    <3>. HIDE DEF Bad
    <3>2. QED
      BY <2>1, <3>1, Least
  <2>3. PICK E \in SUBSET Link : Cardinality(E) = k /\ ~(o[E] \subseteq Seq(Link))
    BY <2>2
  <2>4. ASSUME NEW e \in E
        PROVE  o[E \ {e}] \subseteq Seq(Link)
    <3>1. IsFiniteSet(E) /\ Cardinality(E) \in Nat /\ Cardinality(E \ {e}) = Cardinality(E) - 1
      BY <1>3, FS_Subset, FS_CardinalityType, FS_RemoveElement
    <3>2. Cardinality(E \ {e}) \notin Bad
      <4>. HIDE DEF Bad
      <4>1. QED
        BY <2>2, <2>3, <3>1
    <3>3. QED
      BY <3>2
  <2>5. OrdersOf(o, E) \subseteq Seq(Link)
    BY <2>4, OrdersOfType
  <2>6. QED
    BY <1>1, <2>3, <2>5
<1>5. QED
  BY <1>2, <1>4

-----------------------------------------------------------------------------
(***************************************************************************)
(* What holds at all times of the graph, of the levels, and of what kind   *)
(* of router is at which step.                                             *)
(***************************************************************************)
GraphInv ==
  /\ rttype \in Types /\ conns \in Graphs[rttype]
  /\ lev \in [Both(Link) -> Nat \cup {-1}] /\ level \in Nat

KindInv ==
  /\ pc \in {"sort", "choose"} => rttype \in Ordered
  /\ pc \in {"root", "visit", "assign"} => rttype \in UpDownTypes /\ level = 2
  /\ pc \in {"sort_nodes", "search"} => rttype = "ORDERED_BFS" /\ avgdist # NoMap
  /\ pc = "start" => avgdist = NoMap /\ lev = Unlevelled /\ level = 0

LEMMA LinkFacts ==
  ASSUME GraphInv
  PROVE  /\ Link \subseteq Channel /\ \A e \in Link : Back(e) \notin Link
         /\ \A e \in Link : conns[e] \in [len : Nat, width : Nat \ {0}]
BY RouterAssumption DEF GraphInv, Link

(***************************************************************************)
(* While trees are taken out of the graph: the levels below are without    *)
(* circles, and the current one is a forest whose trees the union-find     *)
(* sets are.                                                               *)
(***************************************************************************)
LowerSound == /\ \A c \in Both(Link) : lev[c] <= level
              /\ \A l \in Nat : l # level => NoCircle(At(l))

TreesInv ==
  /\ pool \in Seq(Link) /\ remain \in Seq(Link)
  /\ UnionSet(parent, height)
  /\ LowerSound
  /\ \E depth : Forest(At(level), Find(parent), depth)

LevelsSound == \A l \in Nat : NoCircle(At(l))

(***************************************************************************)
(* leveled_dijkstra_create allocates enough levels.                        *)
(***************************************************************************)
LevelsFit == \A c \in Both(Link) : lev[c] < level

LEMMA NoTurnsOfNone ==
  ASSUME NEW E, E = {}
  PROVE  NoCircle(E)
BY DEF NoCircle

LEMMA AtFacts ==
  ASSUME GraphInv, NEW l
  PROVE  At(l) \subseteq Channel /\ IsFiniteSet(At(l)) /\ At(l) \subseteq Both(Link)
<1>1. At(l) \in SUBSET Both(Link)
  BY DEF At, GraphInv
<1>2. QED
  BY <1>1, LinkFacts, GraphFacts, FS_Subset

LEMMA NewForest ==
  ASSUME NEW par, par = NoParents, NEW E, E = {}
  PROVE  /\ UnionSet(par, NoHeights)
         /\ \E depth : Forest(E, Find(par), depth)
<1>1. UnionSet(par, NoHeights)
  BY DEF UnionSet, NoParents, NoHeights
<1>. DEFINE depth == [r \in Node |-> [n \in Node |-> 0]]
<1>2. Forest(E, Find(par), depth)
  BY DEF Forest, Rooted
<1>3. QED
  BY <1>1, <1>2

LEMMA TreesSound ==
  ASSUME GraphInv, TreesInv
  PROVE  LevelsSound
<1>1. PICK depth : Forest(At(level), Find(parent), depth)
  BY DEF TreesInv
<1>2. NoCircle(At(level))
  BY <1>1, AtFacts, ForestNoCircle
<1>3. QED
  BY <1>2 DEF TreesInv, LowerSound, LevelsSound

LEMMA SortStep ==
  ASSUME GraphInv, TreesInv, Sort
  PROVE  TreesInv'
<1>1. pool' \in Seq(Link)
  BY LinkFacts, OrdersType DEF Sort
<1>2. UNCHANGED <<graph, lev, level, remain, parent, height>>
  BY DEF Sort
<1>3. Link' = Link /\ \A l : At(l)' = At(l)
  BY <1>2 DEF graph, Link, At
<1>4. QED
  BY <1>1, <1>2, <1>3 DEF TreesInv, LowerSound, Both

LEMMA ChooseStep ==
  ASSUME GraphInv, TreesInv, choose_sp_tree_links
  PROVE  TreesInv' /\ lev' \in [Both(Link) -> Nat \cup {-1}]
<1>. DEFINE link == Head(pool)
            u == link[1]
            v == link[2]
<1>1. /\ pool # <<>> /\ pool' = Tail(pool) /\ UNCHANGED <<graph, level, pc>>
      /\ \/ /\ union_set_is_same_set(u, v)
            /\ remain' = Append(remain, link)
            /\ UNCHANGED <<lev, parent, height>>
         \/ /\ ~union_set_is_same_set(u, v)
            /\ union_set_merge_set(u, v)
            /\ lev' = [lev EXCEPT ![link] = level, ![Back(link)] = level]
            /\ UNCHANGED remain
  BY DEF choose_sp_tree_links
<1>2. Link' = Link /\ level' = level
  BY <1>1 DEF graph, Link
<1>3. link \in Link /\ pool' \in Seq(Link)
  BY <1>1, HeadTailProperties DEF TreesInv
<1>. HIDE DEF link
<1>4. remain' \in Seq(Link)
  <2>1. CASE remain' = Append(remain, link)
    BY <1>3, <2>1, AppendProperties DEF TreesInv
  <2>2. CASE remain' = remain
    BY <2>2 DEF TreesInv
  <2>3. QED
    BY <1>1, <1>2, <2>1, <2>2
<1>5. u \in Node /\ v \in Node /\ link = <<u, v>> /\ Back(link) = <<v, u>> /\ u # v
      /\ link \in Both(Link) /\ Back(link) \in Both(Link)
  BY <1>3, LinkFacts, GraphFacts DEF Back
<1>6. CASE UNCHANGED <<lev, parent, height>>
  <2>1. \A l : At(l)' = At(l)
    BY <1>6 DEF At
  <2>2. QED
    BY <1>2, <1>3, <1>4, <1>6, <2>1 DEF TreesInv, LowerSound, Both, GraphInv
<1>7. CASE /\ ~union_set_is_same_set(u, v)
           /\ union_set_merge_set(u, v)
           /\ lev' = [lev EXCEPT ![link] = level, ![Back(link)] = level]
  <2>. DEFINE F == Find(parent)
              F2 == Find(parent')
  <2>1. /\ UnionSet(parent', height')
        /\ \A m, n \in Node : F2[m] = F2[n] <=> F[m] = F[n] \/ {F[m], F[n]} = {F[u], F[v]}
    BY <1>5, <1>7, MergeStep, ZenonT(40) DEF TreesInv
  <2>2. F[u] # F[v]
    BY <1>7, FindIsTop DEF union_set_is_same_set
  <2>3. /\ lev' \in [Both(Link) -> Nat \cup {-1}]
        /\ \A c \in Both(Link) : lev'[c] = IF c \in {<<u, v>>, <<v, u>>} THEN level ELSE lev[c]
    BY <1>5, <1>7 DEF GraphInv
  <2>4. At(level)' = At(level) \cup {<<u, v>>, <<v, u>>}
    BY <1>2, <1>5, <2>3 DEF At, GraphInv
  <2>5. \A l \in Nat : l # level => At(l)' \subseteq At(l)
    BY <1>2, <2>3 DEF At, GraphInv
  <2>6. PICK depth : Forest(At(level), F, depth)
    BY DEF TreesInv
  <2>7. At(level) \subseteq Channel
    BY AtFacts
  <2>. HIDE DEF F, F2, u, v
  <2>8. \E depth2 : Forest(At(level) \cup {<<u, v>>, <<v, u>>}, F2, depth2)
    BY <1>5, <2>1, <2>2, <2>6, <2>7, ForestGrows
  <2>9. (\A c \in Both(Link) : lev[c] <= level)'
    BY <1>2, <2>3 DEF TreesInv, LowerSound, GraphInv, Both
  <2>10. (\A l \in Nat : l # level => NoCircle(At(l)))'
    <3>1. \A l \in Nat : l # level => NoCircle(At(l)')
      BY <2>5, NoCircleSubset DEF TreesInv, LowerSound
    <3>2. QED
      BY <1>2, <3>1 DEF NoCircle
  <2>11. QED
    BY <1>2, <1>3, <1>4, <2>1, <2>3, <2>4, <2>8, <2>9, <2>10 DEF TreesInv, LowerSound, F2
<1>8. QED
  BY <1>1, <1>6, <1>7

LEMMA NextTreeStep ==
  ASSUME GraphInv, TreesInv, NextTree
  PROVE  TreesInv' /\ LevelsSound' /\ LevelsFit'
<1>1. /\ pool' = remain /\ remain' = <<>> /\ parent' = NoParents /\ height' = NoHeights
      /\ level' = IF Link = {} THEN level ELSE level + 1
      /\ UNCHANGED <<graph, lev>>
  BY DEF NextTree
<1>2. Link' = Link /\ level' \in Nat /\ lev' = lev /\ \A l : At(l)' = At(l)
  BY <1>1 DEF graph, Link, GraphInv, At
<1>3. pool' \in Seq(Link)' /\ remain' \in Seq(Link)'
  BY <1>1, <1>2, EmptySeq DEF TreesInv
<1>4. LevelsSound
  BY TreesSound
<1>5. LevelsSound'
  BY <1>2, <1>4 DEF LevelsSound
<1>6. At(level') = {} /\ \A c \in Both(Link) : lev[c] <= level' /\ lev[c] < level'
  <2>1. CASE Link = {}
    <3>1. Both(Link) = {}
      BY <2>1 DEF Both
    <3>2. QED
      BY <3>1 DEF At, GraphInv
  <2>2. CASE Link # {}
    <3>1. \A c \in Both(Link) : lev[c] \in Int /\ lev[c] <= level
      BY DEF GraphInv, TreesInv, LowerSound
    <3>2. level' = level + 1
      BY <1>1, <2>2
    <3>3. \A c \in Both(Link) : lev[c] < level' /\ lev[c] <= level' /\ lev[c] # level'
      BY <3>1, <3>2 DEF GraphInv
    <3>4. QED
      BY <3>3 DEF At, GraphInv
  <2>3. QED
    BY <2>1, <2>2
<1>7. At(level)' = {}
  BY <1>2, <1>6 DEF At
<1>8. UnionSet(parent', height') /\ \E depth : Forest(At(level)', Find(parent'), depth)
  BY <1>1, <1>7, NewForest
<1>9. LowerSound' /\ LevelsFit'
  BY <1>2, <1>5, <1>6 DEF LowerSound, LevelsSound, LevelsFit, Both
<1>10. QED
  BY <1>3, <1>5, <1>8, <1>9 DEF TreesInv

-----------------------------------------------------------------------------
(***************************************************************************)
(* The up/down routers: nodes have numbers, and from the higher to the     *)
(* lower of them no way leads back.                                        *)
(***************************************************************************)
UpDownInv ==
  /\ todo \in Seq(Node) /\ idc \in Int
  /\ ids \in [Node -> Int] /\ depths \in [Node -> Int]

LEMMA ArrangementFacts ==
  ASSUME NEW S, IsFiniteSet(S), NEW o \in Arrangements(S)
  PROVE  /\ o \in Seq(S) /\ DOMAIN o = 1 .. Cardinality(S) /\ Cardinality(S) \in Nat
         /\ \A x \in S : \E i \in DOMAIN o : o[i] = x
<1>1. Cardinality(S) \in Nat
  BY FS_CardinalityType
<1>2. o \in [1 .. Cardinality(S) -> S] /\ \A i, j \in 1 .. Cardinality(S) : o[i] = o[j] => i = j
  BY DEF Arrangements
<1>3. o \in Injection(1 .. Cardinality(S), S)
  BY <1>2 DEF Injection, IsInjective
<1>4. Cardinality(1 .. Cardinality(S)) = Cardinality(S)
  BY <1>1, FS_Interval
<1>5. o \in Surjection(1 .. Cardinality(S), S)
  BY <1>3, <1>4, FS_Injection
<1>6. \A x \in S : \E i \in DOMAIN o : o[i] = x
  BY <1>2, <1>5 DEF Surjection
<1>7. o \in Seq(S)
  BY <1>1, <1>2
<1>8. QED
  BY <1>1, <1>2, <1>6, <1>7

LEMMA PeersAreNodes ==
  ASSUME GraphInv, NEW n
  PROVE  Peers(n) \subseteq Node
<1>1. \A c \in Both(Link) : c[2] \in Node
  BY LinkFacts, GraphFacts DEF Channel
<1>2. QED
  BY <1>1 DEF Peers

LEMMA NumberingStep ==
  ASSUME GraphInv, UpDownInv, ChooseRoot \/ BfsVisit \/ DfsVisit \/ BfsEnd \/ DfsEnd
  PROVE  UpDownInv'
<1>1. CASE ChooseRoot
  BY <1>1 DEF ChooseRoot, UpDownInv, NoIds
<1>2. CASE BfsVisit
  <2>. DEFINE node == Head(todo)
              new == {n \in Peers(node) : ids[n] = -1}
  <2>1. PICK order \in Arrangements(new) :
          /\ ids' = [n \in Node |-> IF n \in new THEN idc - 1 + CHOOSE i \in DOMAIN order : order[i] = n
                                    ELSE ids[n]]
          /\ depths' = [n \in Node |-> IF n \in new THEN depths[node] + 1 ELSE depths[n]]
          /\ idc' = idc + Cardinality(new)
          /\ todo' = Tail(todo) \o order
          /\ todo # <<>>
    BY <1>2 DEF BfsVisit
  <2>2. new \subseteq Node /\ IsFiniteSet(new)
    BY PeersAreNodes, NodeAssumption, FS_Subset
  <2>3. node \in Node /\ Tail(todo) \in Seq(Node)
    BY <2>1, HeadTailProperties DEF UpDownInv
  <2>. HIDE DEF new, node
  <2>4. /\ order \in Seq(new) /\ DOMAIN order = 1 .. Cardinality(new) /\ Cardinality(new) \in Nat
        /\ \A x \in new : \E i \in DOMAIN order : order[i] = x
    BY <2>2, ArrangementFacts
  <2>5. \A n \in new : (CHOOSE i \in DOMAIN order : order[i] = n) \in Int
    <3>1. \A n \in new : (CHOOSE i \in DOMAIN order : order[i] = n) \in DOMAIN order
      BY <2>4
    <3>2. QED
      BY <2>4, <3>1
  <2>6. ids' \in [Node -> Int]
    <3>. DEFINE number(n) == CHOOSE i \in DOMAIN order : order[i] = n
    <3>1. /\ \A n \in new : number(n) \in Int
          /\ ids' = [n \in Node |-> IF n \in new THEN idc - 1 + number(n) ELSE ids[n]]
      BY <2>1, <2>5
    <3>. HIDE DEF number
    <3>2. QED
      BY <3>1 DEF UpDownInv
  <2>7. depths' \in [Node -> Int]
    BY <2>1, <2>3 DEF UpDownInv
  <2>8. todo' \in Seq(Node)
    <3>1. order \in Seq(Node)
      BY <2>2, <2>4, SeqMonotonic
    <3>2. QED
      BY <2>1, <2>3, <3>1, ConcatProperties
  <2>9. QED
    <3>1. idc' \in Int
      BY <2>1, <2>4 DEF UpDownInv
    <3>2. QED
      BY <2>6, <2>7, <2>8, <3>1 DEF UpDownInv
<1>3. CASE DfsVisit
  <2>. DEFINE node == todo[Len(todo)]
              new == {n \in Peers(node) : ids[n] = -1}
  <2>1. CASE /\ todo' = SubSeq(todo, 1, Len(todo) - 1)
             /\ UNCHANGED <<ids, idc, depths>>
    <3>1. Len(todo) - 1 \in Int /\ \A i \in 1 .. Len(todo) - 1 : todo[i] \in Node
      BY DEF UpDownInv
    <3>2. todo' \in Seq(Node)
      BY <2>1, <3>1, SubSeqProperties
    <3>3. QED
      BY <2>1, <3>2 DEF UpDownInv
  <2>2. CASE \E peer \in Nearest(node, new) : /\ DfsNumber(node, peer, new)
                                              /\ todo' = Append(todo, peer)
                                              /\ UNCHANGED depths
    <3>1. PICK peer \in Nearest(node, new) : /\ DfsNumber(node, peer, new)
                                             /\ todo' = Append(todo, peer)
                                             /\ UNCHANGED depths
      BY <2>2
    <3>2. peer \in Node
      BY PeersAreNodes DEF Nearest
    <3>3. QED
      BY <3>1, <3>2, AppendProperties DEF UpDownInv, DfsNumber
  <2>3. QED
    BY <1>3, <2>1, <2>2 DEF DfsVisit
<1>4. CASE BfsEnd \/ DfsEnd
  BY <1>4 DEF BfsEnd, DfsEnd, updownvars, UpDownInv
<1>5. QED
  BY <1>1, <1>2, <1>3, <1>4

LEMMA AssignStep ==
  ASSUME GraphInv, UpDownInv, Assign, level = 2
  PROVE  LevelsSound' /\ LevelsFit' /\ lev' \in [Both(Link) -> Nat \cup {-1}]
<1>1. lev' = [c \in Both(Link) |-> LinkLevel(c)]
  BY DEF Assign
<1>2. \A c \in Both(Link) : LinkLevel(c) \in {1, 0, -1}
  BY DEF LinkLevel
<1>3. \A c \in Both(Link) : /\ LinkLevel(c) = 1 => Above(c[1], c[2])
                            /\ LinkLevel(c) = 0 => Above(c[2], c[1])
  BY DEF LinkLevel
<1>4. /\ Both(Link) \subseteq Channel /\ IsFiniteSet(Both(Link))
      /\ \A c \in Both(Link) : c[1] \in Node /\ c[2] \in Node
  BY LinkFacts, GraphFacts DEF Channel
<1>. DEFINE high == IF rttype = "UPDOWN_DFS" THEN ids ELSE depths
<1>5. high \in [Node -> Int] /\ ids \in [Node -> Int]
  BY DEF UpDownInv
<1>6. \A m, n \in Node : Above(m, n) => high[m] < high[n] \/ (high[m] = high[n] /\ ids[m] < ids[n])
  BY DEF Above
<1>. HIDE DEF high
<1>7. ASSUME NEW E \in SUBSET Both(Link), \A c \in E : Above(c[1], c[2])
      PROVE  NoCircle(E)
  <2>. DEFINE f == [c \in E |-> high[c[2]]]
              g == [c \in E |-> ids[c[2]]]
  <2>1. f \in [E -> Int] /\ g \in [E -> Int] /\ IsFiniteSet(E)
    BY <1>4, <1>5, FS_Subset
  <2>2. \A c, d \in E : Turn(c, d) => f[c] < f[d] \/ (f[c] = f[d] /\ g[c] < g[d])
    BY <1>4, <1>6, <1>7 DEF Turn
  <2>. HIDE DEF f, g
  <2>3. QED
    BY <2>1, <2>2, RisingPairsNoCircle
<1>8. ASSUME NEW E \in SUBSET Both(Link), \A c \in E : Above(c[2], c[1])
      PROVE  NoCircle(E)
  <2>. DEFINE f == [c \in E |-> 0 - high[c[2]]]
              g == [c \in E |-> 0 - ids[c[2]]]
  <2>1. f \in [E -> Int] /\ g \in [E -> Int] /\ IsFiniteSet(E)
    BY <1>4, <1>5, FS_Subset
  <2>2. \A c \in E : high[c[2]] \in Int /\ ids[c[2]] \in Int /\ high[c[1]] \in Int /\ ids[c[1]] \in Int
    BY <1>4, <1>5
  <2>3. \A c, d \in E : Turn(c, d) => f[c] < f[d] \/ (f[c] = f[d] /\ g[c] < g[d])
    BY <1>4, <1>6, <1>8, <2>2 DEF Turn
  <2>. HIDE DEF f, g
  <2>4. QED
    BY <2>1, <2>3, RisingPairsNoCircle
<1>9. ASSUME NEW l \in Nat
      PROVE  NoCircle(At(l)')
  <2>1. At(l)' \in SUBSET Both(Link) /\ \A c \in At(l)' : LinkLevel(c) = l
    BY <1>1 DEF At
  <2>2. l = 1 \/ l = 0 \/ At(l)' = {}
    BY <1>2, <2>1
  <2>3. CASE l = 1
    <3>1. \A c \in At(l)' : Above(c[1], c[2])
      BY <1>3, <2>1, <2>3
    <3>2. QED
      BY <1>7, <2>1, <3>1
  <2>4. CASE l = 0
    <3>1. \A c \in At(l)' : Above(c[2], c[1])
      BY <1>3, <2>1, <2>4
    <3>2. QED
      BY <1>8, <2>1, <3>1
  <2>5. QED
    BY <2>2, <2>3, <2>4, NoTurnsOfNone
<1>10. LevelsFit'
  <2>1. Link' = Link /\ level' = 2
    BY DEF Assign, graph, Link
  <2>2. \A c \in Both(Link) : lev'[c] < 2
    BY <1>1, <1>2
  <2>3. QED
    BY <2>1, <2>2 DEF LevelsFit, Both
<1>11. QED
  BY <1>1, <1>2, <1>9, <1>10 DEF LevelsSound, NoCircle

-----------------------------------------------------------------------------
(***************************************************************************)
(* The searches of ORDERED_BFS: what a search has taken joins the nodes it *)
(* has visited, each new one to the node it was found from.                *)
(***************************************************************************)
SearchInv ==
  /\ roots \in Seq(Node) /\ visited \subseteq Node /\ node_queue \in Seq(visited)
  /\ roots = <<>> => visited = {}
  /\ LowerSound
  /\ \E depth \in [Node -> Nat] : Rooted(At(level), depth)
  /\ \A c \in At(level) : c[1] \in visited /\ c[2] \in visited
  /\ ~link_labeled => At(level) = {}

IdleInv == visited = {} /\ node_queue = <<>>

LEMMA SearchSound ==
  ASSUME GraphInv, SearchInv
  PROVE  LevelsSound
<1>1. PICK depth \in [Node -> Nat] : Rooted(At(level), depth)
  BY DEF SearchInv
<1>2. NoCircle(At(level))
  BY <1>1, AtFacts, RootedNoCircle
<1>3. QED
  BY <1>2 DEF SearchInv, LowerSound, LevelsSound

LEMMA SortNodesStep ==
  ASSUME GraphInv, IdleInv, router_bfs_node_sort
  PROVE  SearchInv' /\ lev' \in [Both(Link) -> Nat \cup {-1}]
<1>1. /\ roots' \in Arrangements(Ends(Link)) /\ lev' = Unlevelled /\ level' = 0
      /\ UNCHANGED <<graph, node_queue, visited>>
  BY DEF router_bfs_node_sort
<1>2. Ends(Link) \subseteq Node /\ IsFiniteSet(Ends(Link)) /\ Link' = Link
  BY <1>1, LinkFacts, GraphFacts, NodeAssumption, FS_Subset DEF graph, Link
<1>3. roots' \in Seq(Node)
  <2>1. roots' \in Seq(Ends(Link))
    BY <1>1, <1>2, ArrangementFacts
  <2>2. QED
    BY <1>2, <2>1, SeqMonotonic
<1>4. \A l \in Nat : At(l)' = {}
  BY <1>1 DEF At, Unlevelled
<1>5. LowerSound'
  BY <1>1, <1>2, <1>4, NoTurnsOfNone DEF LowerSound, Unlevelled, Both
<1>6. (\E depth \in [Node -> Nat] : Rooted(At(level), depth))'
  <2>1. [n \in Node |-> 0] \in [Node -> Nat] /\ Rooted({}, [n \in Node |-> 0])
    BY DEF Rooted
  <2>2. At(level)' = {}
    BY <1>1, <1>4 DEF At
  <2>3. QED
    BY <2>1, <2>2
<1>7. At(level)' = {}
  BY <1>1, <1>4 DEF At
<1>8. visited' = {} /\ node_queue' = <<>>
  BY <1>1 DEF IdleInv
<1>9. QED
  BY <1>1, <1>3, <1>5, <1>6, <1>7, <1>8, EmptySeq DEF SearchInv, Unlevelled

LEMMA StartSearchStep ==
  ASSUME GraphInv, SearchInv, StartSearch
  PROVE  SearchInv'
<1>1. /\ roots # <<>> /\ visited = {} /\ node_queue' = <<Head(roots)>> /\ visited' = {Head(roots)}
      /\ link_labeled' = FALSE /\ UNCHANGED <<graph, lev, level, roots>>
  BY DEF StartSearch, Marked
<1>2. Head(roots) \in Node
  BY <1>1, HeadTailProperties DEF SearchInv
<1>3. At(level) = {}
  BY <1>1 DEF SearchInv
<1>4. Link' = Link /\ \A l : At(l)' = At(l)
  BY <1>1 DEF graph, Link, At
<1>5. LowerSound'
  BY <1>1, <1>4 DEF SearchInv, LowerSound, Both
<1>6. At(level)' = At(level)
  BY <1>1 DEF At
<1>7. QED
  BY <1>1, <1>2, <1>3, <1>5, <1>6 DEF SearchInv

LEMMA SearchStep ==
  ASSUME GraphInv, SearchInv, router_graph_do_bfs_search
  PROVE  SearchInv' /\ lev' \in [Both(Link) -> Nat \cup {-1}]
<1>. DEFINE n == Head(node_queue)
            taken == {e \in Usable(n) : OtherEnd(e, n) \notin visited}
            new == {OtherEnd(e, n) : e \in taken}
<1>1. /\ node_queue # <<>>
      /\ lev' = [c \in Both(Link) |-> IF c \in Both(taken) THEN level ELSE lev[c]]
      /\ link_labeled' = (link_labeled \/ taken # {})
      /\ visited' = visited \cup new
      /\ \E order \in Arrangements(new) : node_queue' = Tail(node_queue) \o order
      /\ UNCHANGED <<graph, level, pc, avgdist, roots>>
  BY DEF router_graph_do_bfs_search, Push
<1>2. Link' = Link /\ level' = level /\ level \in Nat
  BY <1>1 DEF graph, Link, GraphInv
<1>3. n \in visited /\ n \in Node /\ Tail(node_queue) \in Seq(visited)
  BY <1>1, HeadTailProperties DEF SearchInv
<1>4. ASSUME NEW e \in taken
      PROVE  /\ e \in Link /\ OtherEnd(e, n) \in Node /\ OtherEnd(e, n) \in new /\ OtherEnd(e, n) \notin visited
             /\ e = <<n, OtherEnd(e, n)>> \/ e = <<OtherEnd(e, n), n>>
  <2>1. e \in Link /\ n \in {e[1], e[2]}
    BY DEF Usable
  <2>2. QED
    BY <2>1, LinkFacts, GraphFacts DEF OtherEnd
<1>5. new \subseteq Node /\ new \cap visited = {} /\ IsFiniteSet(new)
  <2>1. new \subseteq Node /\ new \cap visited = {}
    BY <1>4
  <2>2. QED
    BY <2>1, NodeAssumption, FS_Subset
<1>6. \A c \in Both(taken) : \E m \in new : c = <<n, m>> \/ c = <<m, n>>
  BY <1>4 DEF Both, Back
<1>. HIDE DEF n, taken, new
<1>7. node_queue' \in Seq(visited') /\ visited' \subseteq Node
  <2>1. PICK order \in Arrangements(new) : node_queue' = Tail(node_queue) \o order
    BY <1>1
  <2>2. order \in Seq(new)
    BY <1>5, <2>1, ArrangementFacts
  <2>3. order \in Seq(visited') /\ Tail(node_queue) \in Seq(visited')
    BY <1>1, <1>3, <2>2, SeqMonotonic
  <2>4. QED
    BY <1>1, <1>5, <2>1, <2>3, ConcatProperties DEF SearchInv
<1>8. /\ lev' \in [Both(Link) -> Nat \cup {-1}]
      /\ \A c \in Both(Link) : lev'[c] <= level'
  BY <1>1, <1>2 DEF GraphInv, SearchInv, LowerSound
<1>9. \A c \in At(level)' : c \in At(level) \/ c \in Both(taken)
  BY <1>1, <1>2 DEF At, GraphInv
<1>10. \A l \in Nat : l # level => At(l)' \subseteq At(l)
  BY <1>1, <1>2 DEF At, GraphInv
<1>11. LowerSound'
  <2>1. \A l \in Nat : l # level => NoCircle(At(l)')
    BY <1>10, NoCircleSubset DEF SearchInv, LowerSound
  <2>2. (\A l \in Nat : l # level => NoCircle(At(l)))'
    BY <1>2, <2>1 DEF NoCircle
  <2>3. QED
    BY <1>2, <1>8, <2>2 DEF LowerSound, Both
<1>12. (\A c \in At(level) : c[1] \in visited /\ c[2] \in visited)'
  BY <1>1, <1>3, <1>6, <1>9 DEF SearchInv
<1>13. \E depth \in [Node -> Nat] : Rooted(At(level)', depth)
  <2>1. PICK depth \in [Node -> Nat] : Rooted(At(level), depth)
    BY DEF SearchInv
  <2>. DEFINE depth2 == [m \in Node |-> IF m \in new THEN depth[n] + 1 ELSE depth[m]]
  <2>2. depth[n] \in Nat /\ depth2 \in [Node -> Nat] /\ depth2[n] = depth[n]
    BY <1>3, <1>5
  <2>3. \A m \in Node : /\ m \in new => depth2[m] = depth[n] + 1
                        /\ m \in visited => depth2[m] = depth[m]
    BY <1>5
  <2>. HIDE DEF depth2
  <2>4. \A c \in At(level) : c[1] \in visited /\ c[2] \in visited /\ c[1] \in Node /\ c[2] \in Node
                             /\ depth2[c[1]] = depth[c[1]] /\ depth2[c[2]] = depth[c[2]]
    BY <2>3 DEF SearchInv
  <2>5. ASSUME NEW c \in At(level)'
        PROVE  depth2[c[1]] = depth2[c[2]] + 1 \/ depth2[c[2]] = depth2[c[1]] + 1
    <3>1. CASE c \in At(level)
      BY <2>1, <2>4, <3>1 DEF Rooted
    <3>2. CASE c \in Both(taken)
      BY <1>5, <1>6, <2>2, <2>3, <3>2
    <3>3. QED
      BY <1>9, <3>1, <3>2
  <2>6. ASSUME NEW c \in At(level)', NEW d \in At(level)', c[2] = d[1],
               depth2[c[1]] < depth2[c[2]], depth2[d[2]] < depth2[d[1]]
        PROVE  c[1] = d[2]
    <3>1. CASE c \in At(level) /\ d \in At(level)
      BY <2>1, <2>4, <2>6, <3>1 DEF Rooted
    <3>2. CASE c \in At(level) /\ d \in Both(taken)
      <4>1. PICK m \in new : d = <<n, m>> \/ d = <<m, n>>
        BY <1>6, <3>2
      <4>2. d = <<n, m>>
        BY <1>5, <2>4, <2>6, <3>2, <4>1
      <4>3. QED
        BY <1>5, <2>2, <2>3, <2>6, <4>1, <4>2
    <3>3. CASE c \in Both(taken) /\ d \in At(level)
      <4>1. PICK m \in new : c = <<n, m>> \/ c = <<m, n>>
        BY <1>6, <3>3
      <4>2. c = <<m, n>>
        BY <1>5, <2>4, <2>6, <3>3, <4>1
      <4>3. QED
        BY <1>5, <2>2, <2>3, <2>6, <4>1, <4>2
    <3>4. CASE c \in Both(taken) /\ d \in Both(taken)
      BY <1>3, <1>5, <1>6, <2>2, <2>3, <2>6, <3>4
    <3>5. QED
      BY <1>9, <3>1, <3>2, <3>3, <3>4
  <2>7. QED
    BY <2>2, <2>5, <2>6 DEF Rooted
<1>14. (~link_labeled => At(level) = {})'
  BY <1>1, <1>2, <1>9 DEF SearchInv, Both
<1>15. roots' = roots /\ (roots = <<>> => node_queue = <<>>)
  BY <1>1, <1>3 DEF SearchInv
<1>16. QED
  BY <1>1, <1>2, <1>7, <1>8, <1>11, <1>12, <1>13, <1>14, <1>15 DEF SearchInv

LEMMA EndSearchStep ==
  ASSUME GraphInv, SearchInv, EndSearch
  PROVE  SearchInv' /\ level' \in Nat
<1>1. /\ roots # <<>> /\ roots' = Tail(roots) /\ visited' = {} /\ node_queue' = <<>>
      /\ level' = NextLevel /\ UNCHANGED <<graph, lev, link_labeled>>
  BY DEF EndSearch
<1>2. Link' = Link /\ lev' = lev /\ level' \in Nat /\ level \in Nat /\ \A l : At(l)' = At(l)
  BY <1>1 DEF graph, Link, At, GraphInv, NextLevel
<1>3. At(level') = {} /\ \A c \in Both(Link) : lev[c] <= level'
  <2>1. \A c \in Both(Link) : lev[c] \in Int /\ lev[c] <= level
    BY DEF GraphInv, SearchInv, LowerSound
  <2>2. CASE link_labeled
    <3>1. level' = level + 1
      BY <1>1, <2>2 DEF NextLevel
    <3>2. \A c \in Both(Link) : lev[c] <= level' /\ lev[c] # level'
      BY <1>2, <2>1, <3>1
    <3>3. QED
      BY <3>2 DEF At, GraphInv
  <2>3. CASE ~link_labeled
    BY <1>1, <2>1, <2>3 DEF NextLevel, SearchInv
  <2>4. QED
    BY <2>2, <2>3
<1>4. At(level)' = {}
  BY <1>2, <1>3 DEF At
<1>5. LowerSound'
  BY <1>2, <1>3, SearchSound DEF LowerSound, LevelsSound, Both
<1>6. [n \in Node |-> 0] \in [Node -> Nat] /\ Rooted({}, [n \in Node |-> 0])
  BY DEF Rooted
<1>7. roots' \in Seq(Node)
  BY <1>1, HeadTailProperties DEF SearchInv
<1>8. QED
  BY <1>1, <1>2, <1>4, <1>5, <1>6, <1>7, EmptySeq DEF SearchInv

LEMMA EndSearchesStep ==
  ASSUME GraphInv, SearchInv, EndSearches
  PROVE  LevelsSound' /\ LevelsFit' /\ IdleInv'
<1>1. roots = <<>> /\ UNCHANGED <<graph, lev, level, node_queue, visited>>
  BY DEF EndSearches
<1>2. \A l : At(l)' = At(l)
  BY <1>1 DEF At
<1>3. visited = {} /\ node_queue = <<>>
  BY <1>1 DEF SearchInv
<1>4. LevelsFit'
  <2>1. At(level) = {}
    BY <1>3 DEF SearchInv
  <2>2. \A c \in Both(Link) : lev[c] <= level /\ lev[c] # level /\ lev[c] \in Int
    BY <2>1 DEF SearchInv, LowerSound, At, GraphInv
  <2>3. Link' = Link
    BY <1>1 DEF graph, Link
  <2>4. \A c \in Both(Link) : lev[c] < level
    BY <2>2 DEF GraphInv
  <2>5. QED
    BY <1>1, <2>3, <2>4 DEF LevelsFit, Both
<1>5. QED
  BY <1>1, <1>2, <1>3, <1>4, SearchSound DEF LevelsSound, IdleInv

-----------------------------------------------------------------------------
(***************************************************************************)
(* Dijkstra: distances are those of the places before, places are          *)
(* extracted in the order of their distances, nothing extracted gets       *)
(* closer, and a higher level never makes a way longer.                    *)
(***************************************************************************)
SetupInv ==
  /\ dist = [x \in Place |-> MAX_DIJKSTRA_DIST] /\ prev = [x \in Place |-> NoPrev] /\ reached = {}

Leads(x, y) == levels(x[1], y[1]) >= x[2] /\ y[2] >= levels(x[1], y[1])

ComputeTypes ==
  /\ Measured /\ reached \subseteq Place
  /\ dist \in [Place -> Nat] /\ prev \in [Place -> Place \cup {NoPrev}]
  /\ \A y \in Place : dist[y] <= MAX_DIJKSTRA_DIST

FirstPlaces ==
  /\ \A y \in Place : y[1] = src => dist[y] = 0 /\ prev[y] = NoPrev
  /\ \A y \in Place : y[1] # src /\ prev[y] = NoPrev => dist[y] = MAX_DIJKSTRA_DIST

LinkedPlaces ==
  \A y \in Place : prev[y] # NoPrev =>
    prev[y] \in reached /\ Leads(prev[y], y) /\ dist[y] = dist[prev[y]] + metrics(prev[y][1], y[1])

HigherNotFarther == \A x, y \in Place : x[1] = y[1] /\ x[2] <= y[2] => dist[y] <= dist[x]

ExtractedInOrder ==
  /\ \A x \in reached, y \in Place : y \notin reached => dist[x] <= dist[y]
  /\ \A x \in reached : dist[x] < MAX_DIJKSTRA_DIST

Relaxed == \A x \in reached, y \in Place : Leads(x, y) => dist[y] <= dist[x] + metrics(x[1], y[1])

ComputeInv ==
  /\ ComputeTypes /\ FirstPlaces /\ LinkedPlaces /\ HigherNotFarther /\ ExtractedInOrder /\ Relaxed

LEMMA PlaceFacts ==
  ASSUME GraphInv
  PROVE  /\ \A x \in Place : x[1] \in Node /\ x[2] \in Nat /\ x = <<x[1], x[2]>> /\ x[2] <= level - 1
         /\ \A n \in Node, l \in Level : <<n, l>> \in Place
         /\ NoPrev \notin Place
<1>1. \A x \in Place : x[1] \in Node /\ x[2] \in Nat /\ x = <<x[1], x[2]>> /\ x[2] <= level - 1
  BY DEF Place, Level, GraphInv
<1>2. NoPrev \notin Place
  BY NodeAssumption DEF Place, NoPrev
<1>3. QED
  BY <1>1, <1>2 DEF Place

(***************************************************************************)
(* A channel with a level has a positive length.                           *)
(***************************************************************************)
LEMMA MetricFacts ==
  ASSUME GraphInv, Measured, NEW u, NEW v, levels(u, v) >= 0
  PROVE  /\ <<u, v>> \in Both(Link) /\ levels(u, v) = lev[<<u, v>>]
         /\ metrics(u, v) \in Nat /\ metrics(u, v) > 0
<1>1. <<u, v>> \in Both(Link) /\ levels(u, v) = lev[<<u, v>>]
  BY DEF levels, GraphInv
<1>2. <<u, v>> \in Link \/ <<v, u>> \in Link
  <2>1. SUFFICES ASSUME NEW e \in Link, Back(e) = <<u, v>>
                 PROVE  <<v, u>> \in Link
    BY <1>1 DEF Both
  <2>2. e = <<e[1], e[2]>>
    BY LinkFacts, GraphFacts
  <2>3. e[2] = u /\ e[1] = v
    BY <2>1 DEF Back
  <2>4. QED
    BY <2>2, <2>3
<1>3. \A e \in Link : conns[e].len \in Nat /\ conns[e].len > 0
  BY LinkFacts DEF Measured
<1>4. QED
  BY <1>1, <1>2, <1>3 DEF metrics, The

LEMMA SetupStep ==
  ASSUME GraphInv, SetupInv, setup, pc' = "compute"
  PROVE  ComputeInv'
<1>1. /\ Measured /\ dist' = [x \in Place |-> IF x[1] = src THEN 0 ELSE dist[x]]
      /\ UNCHANGED <<graph, lev, level, src, prev, reached>>
  BY DEF setup
<1>2. /\ Place' = Place /\ Measured' /\ src' = src /\ reached' = {}
      /\ prev' = [x \in Place |-> NoPrev]
      /\ dist' = [x \in Place |-> IF x[1] = src THEN 0 ELSE MAX_DIJKSTRA_DIST]
  BY <1>1 DEF graph, Place, Level, Measured, Link, SetupInv
<1>3. MAX_DIJKSTRA_DIST \in Nat
  BY DijkstraAssumption
<1>4. QED
  BY <1>2, <1>3 DEF ComputeInv, ComputeTypes, FirstPlaces, LinkedPlaces, HigherNotFarther,
                    ExtractedInOrder, Relaxed

LEMMA ComputeStep ==
  ASSUME GraphInv, ComputeInv, compute
  PROVE  ComputeInv' /\ pc' = "compute"
<1>1. PICK x \in extract_min_node :
        /\ reached' = reached \cup {x}
        /\ dist' = [y \in Place |-> IF Closer(x, y) THEN dist[x] + metrics(x[1], y[1]) ELSE dist[y]]
        /\ prev' = [y \in Place |-> IF Closer(x, y) THEN Before(x, y) ELSE prev[y]]
        /\ pc' = IF \E y \in reached : Closer(x, y) THEN "assert_reached" ELSE "compute"
        /\ UNCHANGED <<graph, lev, level, src, rts>>
  BY DEF compute
<1>2. /\ Place' = Place /\ Measured' = Measured /\ src' = src
      /\ \A u, v : levels(u, v)' = levels(u, v) /\ metrics(u, v)' = metrics(u, v)
      /\ \A y, z : Leads(y, z)' = Leads(y, z)
  BY <1>1 DEF graph, Place, Level, Measured, Link, levels, metrics, The, Leads
<1>3. /\ x \in Place /\ x \notin reached /\ dist[x] < MAX_DIJKSTRA_DIST
      /\ \A y \in Place : y \notin reached /\ dist[y] < MAX_DIJKSTRA_DIST => dist[x] <= dist[y]
  <2>1. x \in Unreached /\ \A y \in Unreached : dist[x] < dist[y] \/ dist[x] = dist[y]
    BY <1>1 DEF extract_min_node
  <2>2. \A y \in Place : dist[y] \in Nat
    BY DEF ComputeInv, ComputeTypes
  <2>3. QED
    BY <2>1, <2>2 DEF Unreached
<1>. DEFINE m(y) == metrics(x[1], y[1])
<1>4. /\ \A y \in Place : dist[y] \in Nat /\ dist[y] <= MAX_DIJKSTRA_DIST
      /\ MAX_DIJKSTRA_DIST \in Nat /\ x[2] \in Nat /\ Measured /\ reached \subseteq Place
  BY <1>3, DijkstraAssumption, PlaceFacts DEF ComputeInv, ComputeTypes
<1>5. \A y \in Place : Leads(x, y) => m(y) \in Nat /\ m(y) > 0
  <2>1. SUFFICES ASSUME NEW y \in Place, Leads(x, y)
                 PROVE  m(y) \in Nat /\ m(y) > 0
    OBVIOUS
  <2>2. levels(x[1], y[1]) \in Int
    BY PlaceFacts DEF levels, GraphInv
  <2>3. levels(x[1], y[1]) >= 0
    BY <1>4, <2>1, <2>2 DEF Leads
  <2>4. QED
    BY <1>4, <2>3, MetricFacts
<1>6. \A y \in Place : Closer(x, y) <=> Leads(x, y) /\ dist[x] + m(y) < dist[y]
  BY DEF Closer, Leads
<1>. HIDE DEF m
<1>7. /\ \A y \in Place : Closer(x, y) => dist'[y] = dist[x] + m(y) /\ prev'[y] = x
      /\ \A y \in Place : ~Closer(x, y) => dist'[y] = dist[y] /\ prev'[y] = prev[y]
  BY <1>1 DEF Before, m
<1>8. \A y \in Place : y \in reached => dist[y] <= dist[x]
  BY <1>3, <1>4 DEF ComputeInv, ExtractedInOrder
<1>9. \A y \in reached \cup {x} : ~Closer(x, y)
  BY <1>3, <1>4, <1>5, <1>6, <1>8
<1>10. pc' = "compute"
  BY <1>1, <1>9
<1>11. ComputeTypes'
  <2>1. reached' \subseteq Place
    BY <1>1, <1>3, <1>4
  <2>2. \A y \in Place : dist'[y] \in Nat /\ dist'[y] <= MAX_DIJKSTRA_DIST
    BY <1>3, <1>4, <1>5, <1>6, <1>7
  <2>3. \A y \in Place : prev'[y] \in Place \cup {NoPrev}
    BY <1>3, <1>7 DEF ComputeInv, ComputeTypes
  <2>4. dist' \in [Place -> Nat] /\ prev' \in [Place -> Place \cup {NoPrev}]
    BY <1>1, <2>2, <2>3
  <2>5. QED
    BY <1>2, <1>4, <2>1, <2>2, <2>4 DEF ComputeTypes
<1>12. FirstPlaces'
  <2>1. \A y \in Place : y[1] = src => dist'[y] = 0 /\ prev'[y] = NoPrev
    BY <1>3, <1>4, <1>5, <1>6, <1>7 DEF ComputeInv, FirstPlaces
  <2>2. \A y \in Place : y[1] # src /\ prev'[y] = NoPrev => dist'[y] = MAX_DIJKSTRA_DIST
    BY <1>3, <1>7, PlaceFacts DEF ComputeInv, FirstPlaces
  <2>3. QED
    BY <1>2, <2>1, <2>2 DEF FirstPlaces
<1>13. LinkedPlaces'
  <2>1. SUFFICES ASSUME NEW y \in Place, prev'[y] # NoPrev
                 PROVE  /\ prev'[y] \in reached \cup {x} /\ Leads(prev'[y], y)
                        /\ dist'[y] = dist'[prev'[y]] + metrics(prev'[y][1], y[1])
    BY <1>1, <1>2 DEF LinkedPlaces
  <2>2. CASE Closer(x, y)
    <3>1. prev'[y] = x /\ dist'[y] = dist[x] + m(y) /\ dist'[x] = dist[x]
      BY <1>3, <1>7, <1>9, <2>2
    <3>2. QED
      BY <1>6, <2>2, <3>1 DEF m
  <2>3. CASE ~Closer(x, y)
    <3>1. prev'[y] = prev[y] /\ dist'[y] = dist[y]
      BY <1>7, <2>3
    <3>2. prev[y] \in reached /\ Leads(prev[y], y) /\ dist[y] = dist[prev[y]] + metrics(prev[y][1], y[1])
      BY <2>1, <3>1 DEF ComputeInv, LinkedPlaces
    <3>3. dist'[prev[y]] = dist[prev[y]]
      BY <1>4, <1>7, <1>9, <3>2
    <3>4. QED
      BY <3>1, <3>2, <3>3
  <2>4. QED
    BY <2>2, <2>3
<1>14. HigherNotFarther'
  <2>1. SUFFICES ASSUME NEW z \in Place, NEW y \in Place, z[1] = y[1], z[2] <= y[2]
                 PROVE  dist'[y] <= dist'[z]
    BY <1>2 DEF HigherNotFarther
  <2>2. m(z) = m(y)
    BY <2>1 DEF m
  <2>3. dist[y] <= dist[z]
    BY <2>1 DEF ComputeInv, HigherNotFarther
  <2>4. dist'[y] <= dist[y]
    BY <1>4, <1>3, <1>5, <1>6, <1>7
  <2>5. CASE Closer(x, z)
    <3>1. Leads(x, y)
      <4>1. levels(x[1], y[1]) \in Int /\ y[2] \in Int /\ z[2] \in Int
        BY PlaceFacts DEF levels, GraphInv
      <4>2. Leads(x, z)
        BY <1>6, <2>5
      <4>3. QED
        BY <2>1, <4>1, <4>2 DEF Leads
    <3>2. dist'[z] = dist[x] + m(y)
      BY <1>7, <2>2, <2>5
    <3>3. dist[x] \in Nat /\ m(y) \in Nat /\ dist[y] \in Nat
      BY <1>3, <1>4, <1>5, <3>1
    <3>4. QED
      BY <1>6, <1>7, <3>1, <3>2, <3>3
  <2>6. CASE ~Closer(x, z)
    <3>1. dist'[z] = dist[z] /\ dist[z] \in Nat /\ dist[y] \in Nat /\ dist'[y] \in Nat
      BY <1>2, <1>4, <1>7, <1>11, <2>6 DEF ComputeTypes
    <3>2. QED
      BY <2>3, <2>4, <3>1
  <2>7. QED
    BY <2>5, <2>6
<1>15. ExtractedInOrder'
  <2>1. \A a \in reached \cup {x} : /\ dist'[a] = dist[a] /\ dist[a] <= dist[x]
                                    /\ dist[a] \in Nat /\ dist[a] < MAX_DIJKSTRA_DIST
    BY <1>3, <1>4, <1>7, <1>8, <1>9 DEF ComputeInv, ExtractedInOrder
  <2>2. ASSUME NEW y \in Place, y \notin reached \cup {x}
        PROVE  dist[x] <= dist'[y] /\ dist'[y] \in Nat
    <3>1. dist[x] <= dist[y]
      BY <1>3, <1>4, <2>2
    <3>2. QED
      BY <1>3, <1>4, <1>5, <1>6, <1>7, <3>1
  <2>3. \A a \in reached \cup {x}, y \in Place : y \notin reached \cup {x} => dist'[a] <= dist'[y]
    <3>1. dist[x] \in Nat
      BY <1>3, <1>4
    <3>2. QED
      BY <2>1, <2>2, <3>1
  <2>4. QED
    BY <1>1, <1>2, <2>1, <2>3 DEF ExtractedInOrder
<1>16. Relaxed'
  <2>1. SUFFICES ASSUME NEW a \in reached \cup {x}, NEW y \in Place, Leads(a, y)
                 PROVE  dist'[y] <= dist'[a] + metrics(a[1], y[1])
    BY <1>1, <1>2 DEF Relaxed
  <2>2. dist'[a] = dist[a] /\ dist[a] \in Nat /\ dist[y] \in Nat
    BY <1>3, <1>4, <1>7, <1>9
  <2>3. CASE a = x
    <3>1. m(y) \in Nat /\ m(y) = metrics(a[1], y[1])
      BY <1>5, <2>1, <2>3 DEF m
    <3>2. dist'[y] <= dist[a] + m(y)
      BY <1>6, <1>7, <2>1, <2>2, <2>3, <3>1
    <3>3. QED
      BY <2>2, <3>1, <3>2
  <2>4. CASE a \in reached
    <3>1. dist[y] <= dist[a] + metrics(a[1], y[1])
      BY <2>1, <2>4 DEF ComputeInv, Relaxed
    <3>2. dist'[y] \in Nat /\ dist'[y] <= dist[y]
      BY <1>3, <1>4, <1>5, <1>6, <1>7
    <3>3. levels(a[1], y[1]) \in Int /\ a[2] \in Nat
      BY <1>4, <2>4, PlaceFacts DEF levels, GraphInv
    <3>4. metrics(a[1], y[1]) \in Nat
      <4>1. levels(a[1], y[1]) >= 0
        BY <2>1, <3>3 DEF Leads
      <4>2. QED
        BY <1>4, <4>1, MetricFacts
    <3>5. QED
      BY <2>2, <3>1, <3>2, <3>4
  <2>5. QED
    BY <2>3, <2>4
<1>17. QED
  BY <1>10, <1>11, <1>12, <1>13, <1>14, <1>15, <1>16 DEF ComputeInv

-----------------------------------------------------------------------------
(***************************************************************************)
(* The ways that calc_rt traces: every place on one is the predecessor of  *)
(* the next, the distances grow, and the levels do not fall.               *)
(***************************************************************************)
Traces(from) ==
  from = [y \in Place |-> IF prev[y] = NoPrev THEN <<y>> ELSE Append(from[prev[y]], y)]
From == CHOOSE from : Traces(from)

Way(t, y) ==
  /\ t \in Seq(Place) /\ Len(t) >= 1 /\ t[Len(t)] = y
  /\ prev[t[1]] = NoPrev
  /\ \A i \in 1 .. Len(t) - 1 : prev[t[i + 1]] = t[i]
  /\ \A i, j \in 1 .. Len(t) : i < j => dist[t[i]] < dist[t[j]] /\ t[i][2] <= t[j][2]

LEMMA TraceIsFrom ==
  ASSUME NEW x
  PROVE  Trace(x) = From[x]
BY DEF Trace, From, Traces

LEMMA PrevFacts ==
  ASSUME GraphInv, ComputeInv, NEW y \in Place, prev[y] # NoPrev
  PROVE  /\ prev[y] \in Place /\ prev[y] \in reached /\ Leads(prev[y], y)
         /\ dist[y] = dist[prev[y]] + metrics(prev[y][1], y[1])
         /\ dist[prev[y]] < dist[y] /\ prev[y][2] <= y[2]
         /\ metrics(prev[y][1], y[1]) \in Nat /\ levels(prev[y][1], y[1]) \in Nat
<1>1. /\ prev[y] \in Place /\ prev[y] \in reached /\ Leads(prev[y], y)
      /\ dist[y] = dist[prev[y]] + metrics(prev[y][1], y[1])
  BY DEF ComputeInv, ComputeTypes, LinkedPlaces
<1>2. levels(prev[y][1], y[1]) \in Int /\ prev[y][2] \in Nat /\ y[2] \in Nat
  BY <1>1, PlaceFacts DEF levels, GraphInv
<1>3. levels(prev[y][1], y[1]) \in Nat /\ prev[y][2] <= y[2]
  BY <1>1, <1>2 DEF Leads
<1>4. metrics(prev[y][1], y[1]) \in Nat /\ metrics(prev[y][1], y[1]) > 0
  <2>1. levels(prev[y][1], y[1]) >= 0 /\ Measured
    BY <1>3 DEF ComputeInv, ComputeTypes
  <2>2. QED
    BY <2>1, MetricFacts
<1>5. dist[prev[y]] \in Nat
  BY <1>1 DEF ComputeInv, ComputeTypes
<1>6. QED
  BY <1>1, <1>3, <1>4, <1>5

LEMMA FromRecurs ==
  ASSUME GraphInv, ComputeInv
  PROVE  \A y \in Place : From[y] = IF prev[y] = NoPrev THEN <<y>> ELSE Append(From[prev[y]], y)
<1>. DEFINE B == {y \in Place : prev[y] = NoPrev}
            a == [y \in Place |-> <<y>>]
            g == [z \in Seq(Place) \X Place |-> Append(z[1], z[2])]
<1>1. Descends(Place, B, dist, prev)
  BY PrevFacts DEF Descends, ComputeInv, ComputeTypes
<1>2. /\ a \in [Place -> Seq(Place)]
      /\ \A t \in Seq(Place), y \in Place : g[<<t, y>>] = Append(t, y) /\ g[<<t, y>>] \in Seq(Place)
  BY AppendProperties
<1>3. PICK f \in [Place -> Seq(Place)] : Recurs(f, Place, B, prev, a, g)
  <2>. HIDE DEF B, a, g
  <2>1. QED
    BY <1>1, <1>2, Recursion
<1>4. \A y \in Place : f[y] = IF prev[y] = NoPrev THEN <<y>> ELSE Append(f[prev[y]], y)
  <2>1. SUFFICES ASSUME NEW y \in Place
                 PROVE  f[y] = IF prev[y] = NoPrev THEN <<y>> ELSE Append(f[prev[y]], y)
    OBVIOUS
  <2>2. f[y] = IF y \in B THEN a[y] ELSE g[<<f[prev[y]], y>>]
    <3>. HIDE DEF B, a, g
    <3>1. QED
      BY <1>3 DEF Recurs
  <2>3. prev[y] # NoPrev => g[<<f[prev[y]], y>>] = Append(f[prev[y]], y)
    <3>. HIDE DEF g
    <3>1. QED
      BY <1>2, <1>3, PrevFacts
  <2>. HIDE DEF g
  <2>4. QED
    BY <2>2, <2>3
<1>5. Traces(f)
  BY <1>4 DEF Traces
<1>6. Traces(From)
  BY <1>5 DEF From
<1>7. QED
  BY <1>6 DEF Traces

LEMMA WaysTraced ==
  ASSUME GraphInv, ComputeInv
  PROVE  \A y \in Place : Way(From[y], y)
<1>. DEFINE Bad == {dist[y] : y \in {z \in Place : ~Way(From[z], z)}}
<1>1. dist \in [Place -> Nat]
  BY DEF ComputeInv, ComputeTypes
<1>2. Bad = {}
  <2>1. SUFFICES ASSUME Bad # {}
                 PROVE  FALSE
    OBVIOUS
  <2>2. PICK k \in Bad : \A j \in Bad : k <= j
    <3>1. Bad \in SUBSET Nat
      BY <1>1
    <3>. HIDE DEF Bad
    <3>2. QED
      BY <2>1, <3>1, Least
  <2>3. PICK y \in Place : dist[y] = k /\ ~Way(From[y], y)
    BY <2>2
  <2>4. CASE prev[y] = NoPrev
    <3>1. From[y] = <<y>>
      BY <2>4, FromRecurs
    <3>2. Way(<<y>>, y)
      BY <2>4 DEF Way
    <3>3. QED
      BY <2>3, <3>1, <3>2
  <2>5. CASE prev[y] # NoPrev
    <3>. DEFINE z == prev[y]
                t == From[z]
                n == Len(t)
    <3>1. z \in Place /\ dist[z] < dist[y] /\ z[2] <= y[2]
      BY <2>5, PrevFacts
    <3>2. Way(t, z)
      <4>1. SUFFICES ASSUME ~Way(t, z)
                     PROVE  FALSE
        OBVIOUS
      <4>2. dist[z] \in Bad
        BY <3>1, <4>1
      <4>3. dist[z] \in Nat /\ dist[y] \in Nat
        BY <1>1, <3>1
      <4>. HIDE DEF Bad
      <4>4. QED
        BY <2>2, <2>3, <3>1, <4>2, <4>3
    <3>3. From[y] = Append(t, y)
      BY <2>5, FromRecurs
    <3>. HIDE DEF t
    <3>4. /\ t \in Seq(Place) /\ n \in Nat /\ n >= 1 /\ t[n] = z /\ prev[t[1]] = NoPrev
          /\ \A i \in 1 .. n - 1 : prev[t[i + 1]] = t[i]
          /\ \A i, j \in 1 .. n : i < j => dist[t[i]] < dist[t[j]] /\ t[i][2] <= t[j][2]
      BY <3>2 DEF Way
    <3>. DEFINE u == Append(t, y)
    <3>5. /\ u \in Seq(Place) /\ Len(u) = n + 1 /\ u[n + 1] = y
          /\ \A i \in 1 .. n : u[i] = t[i]
      BY <3>4, AppendProperties
    <3>. HIDE DEF n, u, z
    <3>6. \A i \in 1 .. n : t[i] \in Place /\ dist[t[i]] \in Nat /\ t[i][2] \in Nat
      BY <1>1, <3>4, PlaceFacts, SMTT(30) DEF n
    <3>7. dist[y] \in Nat /\ y[2] \in Nat
      BY <1>1, PlaceFacts
    <3>8. \A i \in 1 .. n : dist[t[i]] <= dist[z] /\ t[i][2] <= z[2]
      <4>1. SUFFICES ASSUME NEW i \in 1 .. n
                     PROVE  dist[t[i]] <= dist[z] /\ t[i][2] <= z[2]
        OBVIOUS
      <4>2. i = n \/ (i < n /\ n \in 1 .. n)
        BY <3>4
      <4>3. QED
        BY <3>4, <3>6, <4>2
    <3>9. \A i, j \in 1 .. n + 1 : i < j => dist[u[i]] < dist[u[j]] /\ u[i][2] <= u[j][2]
      <4>1. SUFFICES ASSUME NEW i \in 1 .. n + 1, NEW j \in 1 .. n + 1, i < j
                     PROVE  dist[u[i]] < dist[u[j]] /\ u[i][2] <= u[j][2]
        OBVIOUS
      <4>2. i \in 1 .. n /\ u[i] = t[i]
        BY <3>4, <3>5, <4>1
      <4>3. CASE j = n + 1
        <5>1. dist[z] \in Nat /\ z[2] \in Nat
          BY <1>1, <3>1, PlaceFacts
        <5>2. dist[t[i]] < dist[y] /\ t[i][2] <= y[2]
          BY <3>1, <3>6, <3>7, <3>8, <4>2, <5>1
        <5>3. QED
          BY <3>5, <4>2, <4>3, <5>2
      <4>4. CASE j # n + 1
        <5>1. j \in 1 .. n /\ u[j] = t[j]
          BY <3>4, <3>5, <4>4
        <5>2. QED
          BY <3>4, <4>1, <4>2, <5>1
      <4>5. QED
        BY <4>3, <4>4
    <3>10. \A i \in 1 .. n : prev[u[i + 1]] = u[i]
      <4>1. SUFFICES ASSUME NEW i \in 1 .. n
                     PROVE  prev[u[i + 1]] = u[i]
        OBVIOUS
      <4>2. CASE i = n
        BY <3>4, <3>5, <4>2 DEF z
      <4>3. CASE i # n
        <5>1. i \in 1 .. n - 1 /\ i + 1 \in 1 .. n
          BY <3>4, <4>3
        <5>2. QED
          BY <3>4, <3>5, <5>1
      <4>4. QED
        BY <4>2, <4>3
    <3>11. u[1] = t[1]
      BY <3>4, <3>5
    <3>12. (n + 1) - 1 = n /\ n + 1 >= 1
      BY <3>4
    <3>13. Way(u, y)
      BY <3>4, <3>5, <3>9, <3>10, <3>11, <3>12 DEF Way
    <3>14. QED
      BY <2>3, <3>3, <3>13 DEF u
  <2>6. QED
    BY <2>4, <2>5
<1>3. QED
  BY <1>2

(***************************************************************************)
(* The nodes on a way are a simple path over links of non-decreasing       *)
(* level: the higher of two places of a node is not the farther one.       *)
(***************************************************************************)
Nodes(t) == [i \in DOMAIN t |-> t[i][1]]

GoodPath(s, d, p) ==
  /\ p \in Seq(Node) /\ Len(p) >= 1 /\ p[1] = s /\ p[Len(p)] = d
  /\ IsRoute(p)

LEMMA WaysAreRoutes ==
  ASSUME GraphInv, ComputeInv, NEW y \in Place, dist[y] < MAX_DIJKSTRA_DIST, NEW t, Way(t, y)
  PROVE  GoodPath(src, y[1], Nodes(t))
<1>. DEFINE n == Len(t)
            p == Nodes(t)
<1>1. t \in Seq(Place) /\ n \in Nat /\ n >= 1 /\ DOMAIN t = 1 .. n
  BY DEF Way
<1>2. \A i \in 1 .. n : t[i] \in Place /\ t[i][1] \in Node /\ t[i][2] \in Nat /\ t[i] = <<t[i][1], t[i][2]>>
  BY <1>1, PlaceFacts
<1>3. p \in Seq(Node) /\ Len(p) = n /\ DOMAIN p = 1 .. n /\ \A i \in 1 .. n : p[i] = t[i][1]
  BY <1>1, <1>2 DEF Nodes
<1>4. p[n] = y[1]
  BY <1>1, <1>3 DEF Way
<1>5. \A i \in 1 .. n : dist[t[i]] \in Nat
  BY <1>2 DEF ComputeInv, ComputeTypes
<1>6. \A i, j \in 1 .. n : i < j => dist[t[i]] < dist[t[j]] /\ t[i][2] <= t[j][2]
  BY DEF Way
<1>7. \A i \in 1 .. n - 1 : prev[t[i + 1]] = t[i]
  BY DEF Way
<1>. HIDE DEF n, p
<1>8. p[1] = src
  <2>1. 1 \in 1 .. n /\ n \in 1 .. n /\ t[n] = y
    BY <1>1 DEF Way, n
  <2>2. dist[t[1]] < MAX_DIJKSTRA_DIST
    <3>1. dist[t[1]] \in Nat /\ dist[y] \in Nat /\ MAX_DIJKSTRA_DIST \in Nat
      BY <1>5, <2>1, DijkstraAssumption
    <3>2. n = 1 \/ 1 < n
      BY <1>1
    <3>3. n # 1 => dist[t[1]] < dist[y]
      BY <1>6, <2>1, <3>2
    <3>4. QED
      BY <2>1, <3>1, <3>3
  <2>3. t[1][1] # src => dist[t[1]] = MAX_DIJKSTRA_DIST
    BY <1>2, <2>1 DEF Way, ComputeInv, FirstPlaces
  <2>4. dist[t[1]] \in Nat
    BY <1>5, <2>1
  <2>5. QED
    BY <1>3, <2>1, <2>2, <2>3, <2>4
<1>9. \A i, j \in 1 .. n : i < j => p[i] # p[j]
  <2>1. SUFFICES ASSUME NEW i \in 1 .. n, NEW j \in 1 .. n, i < j, p[i] = p[j]
                 PROVE  FALSE
    OBVIOUS
  <2>2. t[i][1] = t[j][1] /\ t[i][2] <= t[j][2] /\ dist[t[i]] < dist[t[j]]
    BY <1>3, <1>6, <2>1
  <2>3. dist[t[j]] <= dist[t[i]]
    BY <1>2, <2>2 DEF ComputeInv, HigherNotFarther
  <2>4. QED
    BY <1>5, <2>2, <2>3
<1>10. \A i, j \in 1 .. n : p[i] = p[j] => i = j
  <2>1. SUFFICES ASSUME NEW i \in 1 .. n, NEW j \in 1 .. n, p[i] = p[j], i # j
                 PROVE  FALSE
    OBVIOUS
  <2>2. i < j \/ j < i
    BY <2>1
  <2>3. QED
    BY <1>9, <2>1, <2>2
<1>11. ASSUME NEW i \in 1 .. n - 1
       PROVE  /\ Hop(p, i) \in DOMAIN lev /\ lev[Hop(p, i)] \in Nat
              /\ t[i][2] <= lev[Hop(p, i)] /\ lev[Hop(p, i)] <= t[i + 1][2]
  <2>1. i \in 1 .. n /\ i + 1 \in 1 .. n /\ prev[t[i + 1]] = t[i] /\ prev[t[i + 1]] # NoPrev
    <3>1. i \in 1 .. n /\ i + 1 \in 1 .. n
      BY <1>1
    <3>2. QED
      BY <1>2, <1>7, <3>1, PlaceFacts
  <2>2. Leads(t[i], t[i + 1]) /\ levels(t[i][1], t[i + 1][1]) \in Nat
    BY <1>2, <2>1, PrevFacts
  <2>3. Hop(p, i) = <<t[i][1], t[i + 1][1]>>
    BY <1>3, <2>1 DEF Hop
  <2>4. levels(t[i][1], t[i + 1][1]) = lev[Hop(p, i)] /\ Hop(p, i) \in DOMAIN lev
    BY <2>2, <2>3 DEF levels
  <2>5. QED
    BY <2>2, <2>4 DEF Leads
<1>12. \A i \in 1 .. n - 2 : lev[Hop(p, i)] <= lev[Hop(p, i + 1)]
  <2>1. SUFFICES ASSUME NEW i \in 1 .. n - 2
                 PROVE  lev[Hop(p, i)] <= lev[Hop(p, i + 1)]
    OBVIOUS
  <2>2. i \in 1 .. n - 1 /\ i + 1 \in 1 .. n - 1 /\ i + 1 \in 1 .. n
    BY <1>1
  <2>3. t[i + 1][2] \in Nat
    BY <1>2, <2>2
  <2>4. QED
    BY <1>11, <2>2, <2>3
<1>13. IsRoute(p)
  <2>1. \A i \in 1 .. n - 1 : Hop(p, i) \in DOMAIN lev /\ lev[Hop(p, i)] >= 0
    BY <1>11
  <2>2. QED
    BY <1>3, <1>10, <1>12, <2>1 DEF IsRoute
<1>14. QED
  BY <1>1, <1>3, <1>4, <1>8, <1>13 DEF GoodPath, p

(***************************************************************************)
(* Where calc_rt starts to trace: the closest place of a node.             *)
(***************************************************************************)
LEMMA ArrivalFacts ==
  ASSUME GraphInv, ComputeInv, NEW d \in Node, Level # {}
  PROVE  /\ Arrival(d) \in Place /\ Arrival(d)[1] = d
         /\ \A l \in Level : dist[Arrival(d)] <= dist[<<d, l>>]
<1>. DEFINE Dists == {dist[<<d, l>>] : l \in Level}
            Best(l) == \A m \in Level : \/ dist[<<d, l>>] < dist[<<d, m>>]
                                        \/ dist[<<d, l>>] = dist[<<d, m>>] /\ l >= m
<1>1. \A l \in Level : <<d, l>> \in Place /\ dist[<<d, l>>] \in Nat /\ l \in Nat /\ level - 1 - l \in Nat
  BY DEF Place, Level, ComputeInv, ComputeTypes, GraphInv
<1>2. PICK k \in Dists : \A j \in Dists : k <= j
  <2>1. Dists \in SUBSET Nat /\ Dists # {}
    BY <1>1
  <2>. HIDE DEF Dists
  <2>2. QED
    BY <2>1, Least
<1>. DEFINE Ls == {l \in Level : dist[<<d, l>>] = k}
            Gaps == {level - 1 - l : l \in Ls}
<1>3. PICK h \in Gaps : \A j \in Gaps : h <= j
  <2>1. Gaps \in SUBSET Nat /\ Gaps # {}
    BY <1>1, <1>2
  <2>. HIDE DEF Gaps
  <2>2. QED
    BY <2>1, Least
<1>4. PICK l \in Ls : h = level - 1 - l
  BY <1>3
<1>5. \A m \in Ls : l >= m
  <2>1. SUFFICES ASSUME NEW m \in Ls
                 PROVE  l >= m
    OBVIOUS
  <2>2. level - 1 - l <= level - 1 - m
    BY <1>3, <1>4
  <2>3. QED
    BY <1>1, <2>2 DEF GraphInv
<1>6. l \in Level /\ Best(l)
  <2>1. \A m \in Level : dist[<<d, l>>] <= dist[<<d, m>>]
    BY <1>2, <1>4
  <2>2. \A m \in Level : dist[<<d, l>>] = dist[<<d, m>>] => l >= m
    BY <1>4, <1>5
  <2>. HIDE DEF Ls, Gaps, Dists
  <2>3. QED
    BY <1>1, <1>4, <2>1, <2>2 DEF Ls
<1>. DEFINE c == CHOOSE l2 \in Level : Best(l2)
<1>7. c \in Level /\ Best(c)
  BY <1>6
<1>8. Arrival(d) = <<d, c>>
  BY DEF Arrival
<1>. HIDE DEF c
<1>9. QED
  BY <1>1, <1>7, <1>8

(***************************************************************************)
(* The entries of a table hold routes to their nodes.                      *)
(***************************************************************************)
GoodTable(s, table) ==
  /\ DOMAIN table = Node \ {s}
  /\ \A d \in Node \ {s} : GoodPath(s, d, table[d].path)

TablesInv ==
  /\ src \in Node /\ DOMAIN rts = Node
  /\ \A s \in Node : rts[s] = NoTable \/ GoodTable(s, rts[s])

LEMMA EntryRoutes ==
  ASSUME GraphInv, ComputeInv, Unreachable = {}, NEW d \in Node \ {src}
  PROVE  /\ Arrival(d) \in Place /\ Arrival(d)[1] = d /\ dist[Arrival(d)] < MAX_DIJKSTRA_DIST
         /\ \A l \in Level : dist[Arrival(d)] <= dist[<<d, l>>]
         /\ Way(From[Arrival(d)], Arrival(d))
         /\ EntryFor(d).path = Nodes(From[Arrival(d)])
         /\ GoodPath(src, d, EntryFor(d).path)
<1>1. PICK l \in Level : dist[<<d, l>>] # MAX_DIJKSTRA_DIST
  BY DEF Unreachable
<1>2. <<d, l>> \in Place
  BY DEF Place
<1>3. /\ Arrival(d) \in Place /\ Arrival(d)[1] = d
      /\ \A m \in Level : dist[Arrival(d)] <= dist[<<d, m>>]
  BY <1>1, ArrivalFacts
<1>4. dist[Arrival(d)] < MAX_DIJKSTRA_DIST
  <2>1. /\ dist[<<d, l>>] \in Nat /\ dist[<<d, l>>] <= MAX_DIJKSTRA_DIST
        /\ dist[Arrival(d)] \in Nat /\ MAX_DIJKSTRA_DIST \in Nat
    BY <1>2, <1>3, DijkstraAssumption DEF ComputeInv, ComputeTypes
  <2>2. dist[Arrival(d)] <= dist[<<d, l>>]
    BY <1>3
  <2>3. QED
    BY <1>1, <2>1, <2>2
<1>5. Way(From[Arrival(d)], Arrival(d))
  BY <1>3, WaysTraced
<1>6. EntryFor(d).path = Nodes(From[Arrival(d)])
  BY TraceIsFrom DEF EntryFor, Nodes
<1>7. GoodPath(src, Arrival(d)[1], Nodes(From[Arrival(d)]))
  BY <1>3, <1>4, <1>5, WaysAreRoutes
<1>8. QED
  BY <1>3, <1>4, <1>5, <1>6, <1>7

LEMMA TableStep ==
  ASSUME GraphInv, ComputeInv, TablesInv, calc_rt
  PROVE  TablesInv'
<1>1. src' = src /\ lev' = lev
  BY DEF calc_rt
<1>2. \A s, d, p : GoodPath(s, d, p)' <=> GoodPath(s, d, p)
  BY <1>1 DEF GoodPath, IsRoute
<1>3. \A s, table : GoodTable(s, table)' <=> GoodTable(s, table)
  BY <1>2 DEF GoodTable
<1>4. CASE rts' = rts
  BY <1>1, <1>3, <1>4 DEF TablesInv, NoTable
<1>5. CASE Unreachable = {} /\ rts' = [rts EXCEPT ![src] = [d \in Node \ {src} |-> EntryFor(d)]]
  <2>. DEFINE table == [d \in Node \ {src} |-> EntryFor(d)]
  <2>1. GoodTable(src, table)
    BY <1>5, EntryRoutes DEF GoodTable
  <2>. HIDE DEF table
  <2>2. DOMAIN rts' = Node /\ \A s \in Node : rts'[s] = IF s = src THEN table ELSE rts[s]
    BY <1>5 DEF TablesInv, table
  <2>3. QED
    BY <1>1, <1>3, <2>1, <2>2 DEF TablesInv, NoTable
<1>6. QED
  BY <1>4, <1>5 DEF calc_rt

-----------------------------------------------------------------------------
(***************************************************************************)
(* What nodes look up in a table follows its path: each node is on a       *)
(* simple path once.                                                       *)
(***************************************************************************)
LEMMA LookedUp ==
  ASSUME NEW n, NEW s, NEW d, NEW p, p = rts[s][d].path, GoodPath(s, d, p), NEW i \in 1 .. Len(p) - 1
  PROVE  comm_node_lookup_rt(n, s, d) = p[i + 1] \/ n # p[i]
<1>. DEFINE here == {j \in 1 .. Len(p) - 1 : p[j] = n}
<1>1. SUFFICES ASSUME n = p[i]
               PROVE  comm_node_lookup_rt(n, s, d) = p[i + 1]
  OBVIOUS
<1>2. Len(p) \in Nat /\ DOMAIN p = 1 .. Len(p)
  BY DEF GoodPath
<1>3. here = {i}
  <2>1. \A j, k \in DOMAIN p : p[j] = p[k] => j = k
    BY DEF GoodPath, IsRoute
  <2>2. \A j \in 1 .. Len(p) - 1 : j \in DOMAIN p
    BY <1>2
  <2>3. \A j \in 1 .. Len(p) - 1 : p[j] = p[i] => j = i
    BY <2>1, <2>2
  <2>4. QED
    BY <1>1, <2>3
<1>. DEFINE first == CHOOSE j \in here : \A k \in here : j <= k
<1>4. first = i
  <2>1. i \in here /\ \A k \in here : i <= k
    BY <1>3
  <2>2. first \in here
    BY <2>1
  <2>3. QED
    BY <1>3, <2>2
<1>5. comm_node_lookup_rt(n, s, d) = IF here = {} THEN -1 ELSE p[1 + first]
  BY DEF comm_node_lookup_rt, Table
<1>. HIDE DEF here, first
<1>6. QED
  BY <1>3, <1>4, <1>5

Upto(p, m) == [i \in 1 .. m |-> p[i]]

LEMMA UptoFacts ==
  ASSUME NEW S, NEW p \in Seq(S), NEW m \in 1 .. Len(p)
  PROVE  /\ Upto(p, m) \in Seq(S) /\ Len(Upto(p, m)) = m /\ Upto(p, m)[m] = p[m]
         /\ m < Len(p) => Append(Upto(p, m), p[m + 1]) = Upto(p, m + 1)
         /\ Upto(p, Len(p)) = p
<1>1. \A i \in 1 .. Len(p) : p[i] \in S
  OBVIOUS
<1>2. \A k \in 1 .. Len(p) : Upto(p, k) \in Seq(S) /\ Len(Upto(p, k)) = k /\ \A i \in 1 .. k : Upto(p, k)[i] = p[i]
  BY <1>1 DEF Upto
<1>3. ASSUME m < Len(p)
      PROVE  Append(Upto(p, m), p[m + 1]) = Upto(p, m + 1)
  <2>. DEFINE q == Upto(p, m)
              r == Append(q, p[m + 1])
  <2>1. m + 1 \in 1 .. Len(p) /\ p[m + 1] \in S
    BY <1>1, <1>3
  <2>2. q \in Seq(S) /\ Len(q) = m /\ \A i \in 1 .. m : q[i] = p[i]
    BY <1>2
  <2>. HIDE DEF q
  <2>3. r \in Seq(S) /\ Len(r) = m + 1 /\ r[m + 1] = p[m + 1] /\ \A i \in 1 .. m : r[i] = q[i]
    BY <2>1, <2>2, AppendProperties
  <2>. HIDE DEF r
  <2>4. \A i \in 1 .. m + 1 : r[i] = Upto(p, m + 1)[i]
    BY <1>2, <2>1, <2>2, <2>3, SMTT(30)
  <2>5. r = Upto(p, m + 1)
    BY <1>2, <2>1, <2>3, <2>4, SeqEqual
  <2>6. QED
    BY <2>5 DEF q, r
<1>4. Upto(p, Len(p)) = p
  <2>1. Len(p) \in 1 .. Len(p)
    OBVIOUS
  <2>2. QED
    BY <1>2, <2>1, SeqEqual
<1>5. QED
  BY <1>2, <1>3, <1>4

WalkOn(w, s, d) ==
  IF w[Len(w)] \in {d, -1} THEN w ELSE Append(w, comm_node_lookup_rt(w[Len(w)], s, d))

Walks(walk, s, d) == walk = [k \in Nat |-> IF k = 0 THEN <<s>> ELSE WalkOn(walk[k - 1], s, d)]

Reached(p, k) == Upto(p, IF k < Len(p) THEN k + 1 ELSE Len(p))

LEMMA WalkStep ==
  ASSUME NEW s, NEW d, NEW p, p = rts[s][d].path, GoodPath(s, d, p), NEW k \in Nat
  PROVE  Reached(p, k + 1) = WalkOn(Reached(p, k), s, d)
<1>. DEFINE n == Len(p)
            m == IF k < n THEN k + 1 ELSE n
            w == Upto(p, m)
<1>1. p \in Seq(Node) /\ n \in Nat /\ n >= 1 /\ p[n] = d /\ DOMAIN p = 1 .. n /\ \A i \in 1 .. n : p[i] \in Node
  BY DEF GoodPath
<1>2. m \in 1 .. n /\ n \in 1 .. n
  BY <1>1
<1>. HIDE DEF n
<1>3. Len(w) = m /\ w[m] = p[m] /\ (m < n => Append(w, p[m + 1]) = Upto(p, m + 1))
  <2>1. p \in Seq(Node) /\ m \in 1 .. Len(p)
    BY <1>1, <1>2 DEF n
  <2>. HIDE DEF m, w
  <2>2. Len(Upto(p, m)) = m /\ Upto(p, m)[m] = p[m]
    BY <2>1, UptoFacts
  <2>3. m < n => Append(Upto(p, m), p[m + 1]) = Upto(p, m + 1)
    BY <2>1, UptoFacts DEF n
  <2>4. QED
    BY <2>2, <2>3 DEF w
<1>4. -1 \notin Node
  BY NodeAssumption
<1>5. CASE m = n
  <2>1. w[Len(w)] = d
    BY <1>1, <1>3, <1>5
  <2>2. Reached(p, k + 1) = w
    BY <1>1, <1>5 DEF Reached, n
  <2>3. QED
    BY <2>1, <2>2 DEF Reached, n, WalkOn
<1>6. CASE m # n
  <2>1. m = k + 1 /\ m < n /\ k < n /\ k + 1 < n
    BY <1>1, <1>2, <1>6
  <2>2. p[m] # d
    BY <1>1, <1>2, <1>6 DEF GoodPath, IsRoute
  <2>3. p[m] # -1
    BY <1>1, <1>2, <1>4
  <2>4. comm_node_lookup_rt(p[m], s, d) = p[m + 1]
    <3>1. m \in 1 .. Len(p) - 1
      BY <1>1, <1>2, <2>1 DEF n
    <3>2. QED
      BY <3>1, LookedUp
  <2>5. Reached(p, k + 1) = Upto(p, m + 1) /\ Reached(p, k) = w
    BY <2>1 DEF Reached, n
  <2>. HIDE DEF m, w
  <2>6. w[Len(w)] = p[m]
    BY <1>3
  <2>7. QED
    BY <1>3, <2>1, <2>2, <2>3, <2>4, <2>5, <2>6 DEF WalkOn
<1>7. QED
  BY <1>5, <1>6

LEMMA WalkIsPath ==
  ASSUME NEW s, NEW d, NEW p, p = rts[s][d].path, GoodPath(s, d, p)
  PROVE  Walk(s, d) = p
<1>. DEFINE f == [k \in Nat |-> Reached(p, k)]
            walk == CHOOSE g : Walks(g, s, d)
<1>1. p \in Seq(Node) /\ Len(p) \in Nat /\ Len(p) >= 1 /\ p[1] = s /\ DOMAIN p = 1 .. Len(p)
  BY DEF GoodPath
<1>2. Reached(p, 0) = <<s>>
  <2>1. 0 < Len(p) /\ 0 + 1 = 1
    BY <1>1
  <2>2. Upto(p, 1) = <<s>>
    BY <1>1 DEF Upto
  <2>3. QED
    BY <2>1, <2>2 DEF Reached
<1>3. Walks(f, s, d)
  <2>1. ASSUME NEW k \in Nat
        PROVE  f[k] = IF k = 0 THEN <<s>> ELSE WalkOn(f[k - 1], s, d)
    <3>1. CASE k = 0
      BY <1>2, <3>1
    <3>2. CASE k # 0
      <4>1. k - 1 \in Nat /\ (k - 1) + 1 = k
        BY <3>2
      <4>2. f[k - 1] = Reached(p, k - 1) /\ f[k] = Reached(p, (k - 1) + 1)
        BY <4>1
      <4>. HIDE DEF f
      <4>3. QED
        BY <3>2, <4>1, <4>2, WalkStep
    <3>3. QED
      BY <3>1, <3>2
  <2>. HIDE DEF f
  <2>2. f = [k \in Nat |-> f[k]]
    BY DEF f
  <2>3. QED
    BY <2>1, <2>2 DEF Walks
<1>4. Walks(walk, s, d)
  BY <1>3
<1>. HIDE DEF f, walk
<1>5. walk[0] = <<s>>
  BY <1>4 DEF Walks
<1>6. \A k \in Nat : walk[k + 1] = WalkOn(walk[k], s, d)
  <2>1. \A k \in Nat : k + 1 \in Nat /\ k + 1 # 0 /\ (k + 1) - 1 = k
    OBVIOUS
  <2>2. QED
    BY <1>4, <2>1 DEF Walks
<1>. DEFINE Same == {k \in Nat : walk[k] = Reached(p, k)}
<1>7. Nat \subseteq Same
  <2>1. 0 \in Same
    BY <1>2, <1>5
  <2>2. \A k \in Nat : k \in Same => k + 1 \in Same
    BY <1>6, WalkStep
  <2>. HIDE DEF Same
  <2>3. QED
    BY <2>1, <2>2, AllNaturals
<1>8. Cardinality(Node) \in Nat /\ Len(p) <= Cardinality(Node)
  <2>1. p \in Injection(1 .. Len(p), Node)
    <3>1. p \in [1 .. Len(p) -> Node]
      BY <1>1, LenProperties
    <3>2. \A i, j \in 1 .. Len(p) : p[i] = p[j] => i = j
      BY <1>1 DEF GoodPath, IsRoute
    <3>3. QED
      BY <3>1, <3>2 DEF Injection, IsInjective
  <2>2. Cardinality(1 .. Len(p)) <= Cardinality(Node)
    BY <2>1, NodeAssumption, FS_Injection
  <2>3. Cardinality(1 .. Len(p)) = Len(p)
    BY <1>1, FS_Interval
  <2>4. QED
    BY <2>2, <2>3, NodeAssumption, FS_CardinalityType
<1>9. walk[Cardinality(Node)] = Upto(p, Len(p))
  BY <1>1, <1>7, <1>8 DEF Reached
<1>10. Upto(p, Len(p)) = p
  BY <1>1, UptoFacts
<1>11. Walk(s, d) = walk[Cardinality(Node)]
  BY DEF Walk, walk, Walks, WalkOn
<1>12. QED
  BY <1>9, <1>10, <1>11

(***************************************************************************)
(* With all tables computed, every chunk follows its path over links, and  *)
(* the turns of these paths are on links of non-decreasing level.          *)
(***************************************************************************)
LEMMA WalkRoutes ==
  ASSUME TablesInv, AllTables, NEW c \in Channel
  PROVE  GoodPath(c[1], c[2], Walk(c[1], c[2]))
<1>1. c[1] \in Node /\ c[2] \in Node \ {c[1]}
  BY DEF Channel
<1>2. GoodPath(c[1], c[2], rts[c[1]][c[2]].path)
  BY <1>1 DEF TablesInv, AllTables, GoodTable
<1>3. QED
  BY <1>2, WalkIsPath

LEMMA RoutesArrive ==
  ASSUME GraphInv, TablesInv, AllTables
  PROVE  ChunksArrive
<1>1. SUFFICES ASSUME NEW c \in Channel
               PROVE  LET w == Walk(c[1], c[2])
                      IN  /\ w[Len(w)] = c[2]
                          /\ \A i \in 1 .. Len(w) - 1 : Hop(w, i) \in Both(Link)
  BY DEF ChunksArrive
<1>2. GoodPath(c[1], c[2], Walk(c[1], c[2]))
  BY WalkRoutes
<1>3. QED
  BY <1>2 DEF GoodPath, IsRoute, GraphInv

LEMMA RoutesAcyclic ==
  ASSUME GraphInv, TablesInv, AllTables, LevelsSound
  PROVE  AcyclicRoutes
<1>. DEFINE E == Both(Link)
<1>1. IsFiniteSet(E)
  BY LinkFacts, GraphFacts
<1>2. lev \in [E -> Int]
  BY DEF GraphInv
<1>3. ASSUME NEW c, NEW d, <<c, d>> \in Turns
      PROVE  Turn(c, d) /\ 0 <= lev[c] /\ lev[c] <= lev[d]
  <2>1. PICK e \in Channel :
          <<c, d>> \in {<<Hop(Walk(e[1], e[2]), i), Hop(Walk(e[1], e[2]), i + 1)>>
                        : i \in 1 .. Len(Walk(e[1], e[2])) - 2}
    BY <1>3 DEF Turns
  <2>. DEFINE w == Walk(e[1], e[2])
  <2>2. w \in Seq(Node) /\ IsRoute(w)
    BY WalkRoutes DEF GoodPath
  <2>3. PICK i \in 1 .. Len(w) - 2 : c = Hop(w, i) /\ d = Hop(w, i + 1)
    BY <2>1
  <2>. HIDE DEF w
  <2>4. /\ i \in 1 .. Len(w) /\ i + 2 \in 1 .. Len(w) /\ i # i + 2 /\ i \in 1 .. Len(w) - 1
        /\ DOMAIN w = 1 .. Len(w) /\ (i + 1) + 1 = i + 2
    BY <2>2
  <2>5. w[i] # w[i + 2]
    BY <2>2, <2>4 DEF IsRoute
  <2>6. Turn(c, d)
    BY <2>3, <2>4, <2>5 DEF Turn, Hop
  <2>7. QED
    BY <2>2, <2>3, <2>4, <2>6 DEF IsRoute
<1>4. EachNoCircle(E, lev)
  BY DEF LevelsSound, At, GraphInv, EachNoCircle
<1>. HIDE DEF E
<1>. DEFINE T == Turns
<1>5. Ascends(E, lev, T)
  BY <1>3 DEF Ascends
<1>. HIDE DEF T
<1>6. \A S \in SUBSET E : S # {} => \E c \in S : \A d \in S : <<c, d>> \notin T
  BY <1>1, <1>2, <1>4, <1>5, LevelledAcyclic
<1>7. LET Follows(c, d) == <<c, d>> \in T IN Acyclic(E, Follows)
  BY <1>1, <1>6, AcyclicPairs DEF Acyclic
<1>8. QED
  BY <1>7 DEF AcyclicRoutes, E, T

LEMMA SoundLevelsAcyclic ==
  ASSUME GraphInv, LevelsSound
  PROVE  LevelsAcyclic
<1>1. \A l \in Nat : Acyclic(At(l), Turn)
  BY AtFacts, AcyclicTurns DEF LevelsSound
<1>2. QED
  BY <1>1 DEF LevelsAcyclic, GraphInv

-----------------------------------------------------------------------------
(***************************************************************************)
(* The simple paths over k channels are the sequences of k + 1 different   *)
(* nodes.                                                                  *)
(***************************************************************************)
PathsOver(k) == {p \in Seq(Node) : Len(p) = k + 1 /\ \A i, j \in DOMAIN p : p[i] = p[j] => i = j}
Longer(S, k) == UNION {{Append(p, n) : n \in Node \ {p[i] : i \in 1 .. k}} : p \in S}
Lengthens(from) == from = [k \in Nat |-> IF k = 0 THEN {<<n>> : n \in Node} ELSE Longer(from[k - 1], k)]

LEMMA LongerPaths ==
  ASSUME NEW k \in Nat
  PROVE  Longer(PathsOver(k), k + 1) = PathsOver(k + 1)
<1>1. \A q : q \in Longer(PathsOver(k), k + 1) <=>
               \E p \in PathsOver(k) : \E n \in Node : (\A i \in 1 .. k + 1 : n # p[i]) /\ q = Append(p, n)
  BY DEF Longer
<1>2. ASSUME NEW p \in PathsOver(k), NEW n \in Node, \A i \in 1 .. k + 1 : n # p[i]
      PROVE  Append(p, n) \in PathsOver(k + 1)
  <2>. DEFINE q == Append(p, n)
  <2>1. /\ p \in Seq(Node) /\ Len(p) = k + 1 /\ DOMAIN p = 1 .. k + 1
        /\ \A i, j \in 1 .. k + 1 : p[i] = p[j] => i = j
    BY DEF PathsOver
  <2>2. /\ q \in Seq(Node) /\ Len(q) = (k + 1) + 1 /\ q[(k + 1) + 1] = n
        /\ \A i \in 1 .. k + 1 : q[i] = p[i]
    BY <2>1, AppendProperties
  <2>. HIDE DEF q
  <2>3. DOMAIN q = 1 .. (k + 1) + 1
    BY <2>2
  <2>4. ASSUME NEW i \in DOMAIN q, NEW j \in DOMAIN q, q[i] = q[j]
        PROVE  i = j
    <3>1. i \in 1 .. k + 1 \/ i = (k + 1) + 1
      BY <2>3
    <3>2. j \in 1 .. k + 1 \/ j = (k + 1) + 1
      BY <2>3
    <3>3. QED
      BY <1>2, <2>1, <2>2, <2>4, <3>1, <3>2
  <2>5. q \in PathsOver(k + 1)
    BY <2>2, <2>4 DEF PathsOver
  <2>6. QED
    BY <2>5 DEF q
<1>3. ASSUME NEW q \in PathsOver(k + 1)
      PROVE  \E p \in PathsOver(k) : \E n \in Node : (\A i \in 1 .. k + 1 : n # p[i]) /\ q = Append(p, n)
  <2>. DEFINE p == Upto(q, k + 1)
              n == q[(k + 1) + 1]
  <2>1. /\ q \in Seq(Node) /\ Len(q) = (k + 1) + 1 /\ DOMAIN q = 1 .. (k + 1) + 1
        /\ \A i, j \in 1 .. (k + 1) + 1 : q[i] = q[j] => i = j
    BY DEF PathsOver
  <2>2. k + 1 \in 1 .. Len(q) /\ k + 1 < Len(q) /\ (k + 1) + 1 = Len(q) /\ n \in Node
    BY <2>1
  <2>3. p \in Seq(Node) /\ Len(p) = k + 1 /\ Append(p, n) = Upto(q, (k + 1) + 1)
    BY <2>1, <2>2, UptoFacts
  <2>4. Upto(q, (k + 1) + 1) = q
    BY <2>1, <2>2, UptoFacts
  <2>5. DOMAIN p = 1 .. k + 1 /\ \A i \in 1 .. k + 1 : p[i] = q[i] /\ i \in 1 .. (k + 1) + 1 /\ i # (k + 1) + 1
    BY DEF Upto
  <2>6. n \in Node /\ \A i \in 1 .. k + 1 : n # p[i]
    <3>1. (k + 1) + 1 \in 1 .. (k + 1) + 1
      OBVIOUS
    <3>. HIDE DEF p
    <3>2. QED
      BY <2>1, <2>2, <2>5, <3>1
  <2>. HIDE DEF n, p
  <2>7. p \in PathsOver(k)
    BY <2>1, <2>3, <2>5 DEF PathsOver
  <2>8. QED
    BY <2>3, <2>4, <2>6, <2>7
<1>4. QED
  BY <1>1, <1>2, <1>3, ZenonT(60)

LEMMA PathsLengthen ==
  ASSUME NEW from, from = CHOOSE f : Lengthens(f)
  PROVE  \A k \in Nat : from[k] = PathsOver(k)
<1>. DEFINE f == [k \in Nat |-> PathsOver(k)]
<1>1. PathsOver(0) = {<<n>> : n \in Node}
  <2>1. \A n \in Node : <<n>> \in PathsOver(0)
    BY DEF PathsOver
  <2>2. ASSUME NEW p \in PathsOver(0)
        PROVE  \E n \in Node : p = <<n>>
    <3>1. p \in Seq(Node) /\ Len(p) = 1
      BY DEF PathsOver
    <3>2. p[1] \in Node /\ <<p[1]>> \in Seq(Node) /\ Len(<<p[1]>>) = 1 /\ <<p[1]>>[1] = p[1]
      BY <3>1
    <3>3. p = <<p[1]>>
      BY <3>1, <3>2, SeqEqual
    <3>4. QED
      BY <3>2, <3>3
  <2>3. QED
    BY <2>1, <2>2
<1>2. \A k \in Nat : k # 0 => k - 1 \in Nat /\ (k - 1) + 1 = k
  OBVIOUS
<1>3. \A k \in Nat : PathsOver(k) = IF k = 0 THEN {<<n>> : n \in Node} ELSE Longer(PathsOver(k - 1), k)
  BY <1>1, <1>2, LongerPaths
<1>4. \A k \in Nat : k # 0 => f[k - 1] = PathsOver(k - 1)
  BY <1>2
<1>5. Lengthens(f)
  <2>1. \A k \in Nat : PathsOver(k) = IF k = 0 THEN {<<n>> : n \in Node} ELSE Longer(f[k - 1], k)
    BY <1>3, <1>4
  <2>2. f = [k \in Nat |-> IF k = 0 THEN {<<n>> : n \in Node} ELSE Longer(f[k - 1], k)]
    BY <2>1
  <2>. HIDE DEF f
  <2>3. QED
    BY <2>2 DEF Lengthens
<1>6. Lengthens(from)
  BY <1>5
<1>. DEFINE Same == {k \in Nat : from[k] = PathsOver(k)}
<1>7. 0 \in Same
  BY <1>1, <1>6 DEF Lengthens
<1>8. ASSUME NEW k \in Nat, k \in Same
      PROVE  k + 1 \in Same
  <2>1. k + 1 \in Nat /\ k + 1 # 0 /\ (k + 1) - 1 = k
    OBVIOUS
  <2>2. from[k + 1] = Longer(from[k], k + 1)
    BY <1>6, <2>1 DEF Lengthens
  <2>3. QED
    BY <1>8, <2>1, <2>2, LongerPaths
<1>. HIDE DEF Same
<1>9. Nat \subseteq Same
  BY <1>7, <1>8, AllNaturals
<1>10. QED
  BY <1>9 DEF Same

LEMMA SimplePathFacts ==
  ASSUME NEW s \in Node, NEW d \in Node, s # d, NEW p
  PROVE  p \in SimplePaths[<<s, d>>] <=>
           /\ p \in Seq(Node) /\ Len(p) - 1 \in 1 .. Cardinality(Node) - 1
           /\ \A i, j \in DOMAIN p : p[i] = p[j] => i = j
           /\ p[1] = s /\ p[Len(p)] = d
<1>. DEFINE from == CHOOSE f : Lengthens(f)
            all == UNION {from[k] : k \in 1 .. Cardinality(Node) - 1}
<1>1. SimplePaths = [c \in Channel |-> {q \in all : q[1] = c[1] /\ q[Len(q)] = c[2]}]
  BY DEF SimplePaths, Lengthens, Longer
<1>2. <<s, d>> \in Channel
  BY DEF Channel
<1>3. Cardinality(Node) \in Nat
  BY NodeAssumption, FS_CardinalityType
<1>4. \A k \in Nat : from[k] = PathsOver(k)
  BY PathsLengthen
<1>. HIDE DEF from
<1>5. p \in all <=> \E k \in 1 .. Cardinality(Node) - 1 : p \in PathsOver(k)
  BY <1>3, <1>4
<1>. HIDE DEF all
<1>6. p \in SimplePaths[<<s, d>>] <=> p \in all /\ p[1] = s /\ p[Len(p)] = d
  BY <1>1, <1>2
<1>7. p \in all <=> /\ p \in Seq(Node) /\ Len(p) - 1 \in 1 .. Cardinality(Node) - 1
                    /\ \A i, j \in DOMAIN p : p[i] = p[j] => i = j
  <2>1. \A k \in Nat : p \in PathsOver(k) <=> /\ p \in Seq(Node) /\ Len(p) = k + 1
                                              /\ \A i, j \in DOMAIN p : p[i] = p[j] => i = j
    BY DEF PathsOver
  <2>2. p \in Seq(Node) => Len(p) \in Nat /\ \A k \in Nat : Len(p) = k + 1 <=> Len(p) - 1 = k
    OBVIOUS
  <2>3. 1 .. Cardinality(Node) - 1 \subseteq Nat
    BY <1>3
  <2>4. QED
    BY <1>5, <2>1, <2>2, <2>3
<1>8. QED
  BY <1>6, <1>7

(***************************************************************************)
(* The length of a path is the sum of the lengths of its links.            *)
(***************************************************************************)
AddsUp(sum, p) ==
  sum = [i \in 1 .. Len(p) |-> IF i = 1 THEN 0 ELSE sum[i - 1] + metrics(p[i - 1], p[i])]

Sums(sum, p) ==
  /\ sum[1] = 0 /\ \A i \in 1 .. Len(p) : sum[i] \in Nat
  /\ \A i \in 1 .. Len(p) - 1 : sum[i + 1] = sum[i] + metrics(p[i], p[i + 1])

LEMMA LengthSums ==
  ASSUME NEW p, Len(p) \in Nat, Len(p) >= 1,
         \A i \in 1 .. Len(p) - 1 : metrics(p[i], p[i + 1]) \in Nat
  PROVE  \E sum : Sums(sum, p) /\ Length(p) = sum[Len(p)]
<1>. DEFINE n == Len(p)
            P == 1 .. n
            r == [i \in P |-> i]
            b == [i \in P |-> i - 1]
            a == [i \in P |-> 0]
            m == [i \in P |-> metrics(p[i - 1], p[i])]
            g == [z \in Nat \X P |-> IF z[2] = 1 THEN 0 ELSE z[1] + m[z[2]]]
<1>1. Descends(P, {1}, r, b)
  BY DEF Descends
<1>2. \A i \in P : i # 1 => i - 1 \in 1 .. n - 1 /\ (i - 1) + 1 = i /\ i - 1 \in P
  OBVIOUS
<1>3. \A i \in P : i # 1 => m[i] \in Nat
  <2>1. SUFFICES ASSUME NEW i \in P, i # 1
                 PROVE  metrics(p[i - 1], p[i]) \in Nat
    OBVIOUS
  <2>2. i - 1 \in 1 .. Len(p) - 1 /\ (i - 1) + 1 = i
    BY <1>2, <2>1
  <2>3. metrics(p[i - 1], p[(i - 1) + 1]) \in Nat
    BY <2>2
  <2>4. QED
    BY <2>2, <2>3
<1>. HIDE DEF m
<1>4. a \in [P -> Nat] /\ \A t \in Nat, y \in P : g[<<t, y>>] = (IF y = 1 THEN 0 ELSE t + m[y]) /\ g[<<t, y>>] \in Nat
  BY <1>3
<1>5. PICK f \in [P -> Nat] : Recurs(f, P, {1}, b, a, g)
  <2>. HIDE DEF r, b, a, g, P
  <2>1. QED
    BY <1>1, <1>4, Recursion
<1>6. \A i \in P : f[i] = IF i = 1 THEN 0 ELSE f[i - 1] + m[i]
  <2>1. SUFFICES ASSUME NEW i \in P
                 PROVE  f[i] = IF i = 1 THEN 0 ELSE f[i - 1] + m[i]
    OBVIOUS
  <2>2. f[i] = IF i \in {1} THEN a[i] ELSE g[<<f[b[i]], i>>]
    <3>. HIDE DEF P, a, g, b
    <3>1. QED
      BY <1>5 DEF Recurs
  <2>3. b[i] = i - 1 /\ a[i] = 0
    OBVIOUS
  <2>4. i # 1 => f[i - 1] \in Nat
    BY <1>2, <1>5
  <2>. HIDE DEF g, b, a, P
  <2>5. QED
    BY <1>4, <2>2, <2>3, <2>4
<1>7. AddsUp(f, p)
  <2>1. \A i \in P : f[i] = IF i = 1 THEN 0 ELSE f[i - 1] + metrics(p[i - 1], p[i])
    BY <1>6 DEF m
  <2>2. f = [i \in P |-> f[i]]
    BY <1>5
  <2>3. f = [i \in P |-> IF i = 1 THEN 0 ELSE f[i - 1] + metrics(p[i - 1], p[i])]
    BY <2>1, <2>2
  <2>4. QED
    BY <2>3 DEF AddsUp
<1>. DEFINE sum == CHOOSE f2 : AddsUp(f2, p)
<1>8. AddsUp(sum, p)
  BY <1>7
<1>9. Length(p) = sum[n]
  BY DEF Length, AddsUp
<1>. HIDE DEF sum
<1>10. sum[1] = 0 /\ \A i \in P : i # 1 => sum[i] = sum[i - 1] + m[i]
  BY <1>8 DEF AddsUp, m
<1>. DEFINE Good == {k \in Nat : k + 1 \in P => sum[k + 1] \in Nat}
<1>11. 0 \in Good
  BY <1>10
<1>12. ASSUME NEW k \in Nat, k \in Good
       PROVE  k + 1 \in Good
  <2>1. SUFFICES ASSUME (k + 1) + 1 \in P
                 PROVE  sum[(k + 1) + 1] \in Nat
    OBVIOUS
  <2>2. k + 1 \in P /\ ((k + 1) + 1) - 1 = k + 1 /\ (k + 1) + 1 # 1
    BY <2>1
  <2>3. sum[k + 1] \in Nat
    BY <1>12, <2>2
  <2>. DEFINE j == (k + 1) + 1
  <2>4. j \in P /\ j # 1 /\ j - 1 = k + 1
    BY <2>1, <2>2
  <2>. HIDE DEF P, j
  <2>5. m[j] \in Nat /\ sum[j] = sum[k + 1] + m[j]
    BY <1>3, <1>10, <2>4
  <2>6. QED
    BY <2>3, <2>5 DEF j
<1>. HIDE DEF Good
<1>13. Nat \subseteq Good
  BY <1>11, <1>12, AllNaturals
<1>14. \A i \in P : sum[i] \in Nat
  <2>1. SUFFICES ASSUME NEW i \in P
                 PROVE  sum[i] \in Nat
    OBVIOUS
  <2>2. i - 1 \in Good /\ (i - 1) + 1 = i
    BY <1>13
  <2>3. QED
    BY <2>2 DEF Good
<1>15. ASSUME NEW i \in 1 .. n - 1
       PROVE  sum[i + 1] = sum[i] + metrics(p[i], p[i + 1])
  <2>1. i + 1 \in P /\ i + 1 # 1 /\ (i + 1) - 1 = i
    OBVIOUS
  <2>2. sum[i + 1] = sum[i] + m[i + 1]
    BY <1>10, <2>1
  <2>3. m[i + 1] = metrics(p[i], p[i + 1])
    BY <2>1 DEF m
  <2>4. QED
    BY <2>2, <2>3
<1>16. QED
  BY <1>9, <1>10, <1>14, <1>15 DEF Sums

(***************************************************************************)
(* A route has a length.                                                   *)
(***************************************************************************)
LEMMA RouteLength ==
  ASSUME GraphInv, Measured, NEW p, Len(p) \in Nat, Len(p) >= 1, IsRoute(p)
  PROVE  \E sum : Sums(sum, p) /\ Length(p) = sum[Len(p)]
<1>1. ASSUME NEW i \in 1 .. Len(p) - 1
      PROVE  metrics(p[i], p[i + 1]) \in Nat
  <2>1. <<p[i], p[i + 1]>> \in DOMAIN lev /\ lev[<<p[i], p[i + 1]>>] >= 0
    BY DEF IsRoute, Hop
  <2>2. levels(p[i], p[i + 1]) >= 0
    BY <2>1 DEF levels
  <2>3. QED
    BY <2>2, MetricFacts
<1>2. QED
  BY <1>1, LengthSums

(***************************************************************************)
(* The distance of a place is the length of the path traced to it.         *)
(***************************************************************************)
LEMMA DistanceIsLength ==
  ASSUME GraphInv, ComputeInv, NEW y \in Place, dist[y] < MAX_DIJKSTRA_DIST, NEW t, Way(t, y)
  PROVE  Length(Nodes(t)) = dist[y]
<1>. DEFINE n == Len(t)
            p == Nodes(t)
<1>1. t \in Seq(Place) /\ n \in Nat /\ n >= 1 /\ DOMAIN t = 1 .. n /\ t[n] = y /\ \A i \in 1 .. n : t[i] \in Place
  BY DEF Way
<1>2. GoodPath(src, y[1], p)
  BY WaysAreRoutes
<1>3. p \in Seq(Node) /\ DOMAIN p = 1 .. n /\ Len(p) = n /\ \A i \in 1 .. n : p[i] = t[i][1]
  <2>1. p \in Seq(Node)
    BY <1>2 DEF GoodPath
  <2>2. DOMAIN p = 1 .. n /\ \A i \in 1 .. n : p[i] = t[i][1]
    BY <1>1 DEF Nodes
  <2>3. QED
    BY <1>1, <2>1, <2>2, LenProperties
<1>. HIDE DEF p
<1>4. PICK sum : Sums(sum, p) /\ Length(p) = sum[n]
  BY <1>1, <1>2, <1>3, RouteLength DEF GoodPath, ComputeInv, ComputeTypes
<1>5. \A i \in 1 .. n - 1 : prev[t[i + 1]] = t[i]
  BY DEF Way
<1>6. sum[1] = 0 /\ \A i \in 1 .. n - 1 : sum[i + 1] = sum[i] + metrics(p[i], p[i + 1])
  BY <1>3, <1>4 DEF Sums
<1>. HIDE DEF n
<1>7. dist[t[1]] = 0
  <2>1. 1 \in 1 .. n
    BY <1>1
  <2>2. t[1] \in Place /\ t[1][1] = src
    BY <1>1, <1>2, <1>3, <2>1 DEF GoodPath
  <2>3. QED
    BY <2>2 DEF ComputeInv, FirstPlaces
<1>. DEFINE Same == {k \in Nat : k + 1 \in 1 .. n => sum[k + 1] = dist[t[k + 1]]}
<1>8. 0 \in Same
  BY <1>6, <1>7
<1>9. ASSUME NEW k \in Nat, k \in Same
      PROVE  k + 1 \in Same
  <2>1. SUFFICES ASSUME (k + 1) + 1 \in 1 .. n
                 PROVE  sum[(k + 1) + 1] = dist[t[(k + 1) + 1]]
    OBVIOUS
  <2>. DEFINE i == k + 1
  <2>2. i \in 1 .. n /\ i \in 1 .. n - 1 /\ i + 1 \in 1 .. n
    BY <1>1, <2>1
  <2>3. sum[i] = dist[t[i]]
    BY <1>9, <2>2
  <2>. HIDE DEF i
  <2>4. t[i] \in Place /\ t[i + 1] \in Place /\ prev[t[i + 1]] = t[i] /\ prev[t[i + 1]] # NoPrev
    BY <1>1, <1>5, <2>2, PlaceFacts
  <2>5. dist[t[i + 1]] = dist[t[i]] + metrics(t[i][1], t[i + 1][1])
    BY <2>4, PrevFacts
  <2>6. QED
    BY <1>3, <1>6, <2>2, <2>3, <2>5 DEF i
<1>. HIDE DEF Same
<1>10. Nat \subseteq Same
  BY <1>8, <1>9, AllNaturals
<1>11. n - 1 \in Same /\ (n - 1) + 1 = n /\ n \in 1 .. n
  BY <1>1, <1>10
<1>12. sum[n] = dist[t[n]]
  BY <1>11 DEF Same
<1>13. QED
  BY <1>1, <1>4, <1>12 DEF p

(***************************************************************************)
(* When nothing is left to extract, no route to a node is shorter than the *)
(* distance of some place of it: every link of the route was relaxed.      *)
(***************************************************************************)
LEMMA NoRouteShorter ==
  ASSUME GraphInv, ComputeInv, LevelsFit, Unreached = {}, NEW d, NEW p, GoodPath(src, d, p), Len(p) >= 2
  PROVE  \E l \in Level : dist[<<d, l>>] <= Length(p)
<1>. DEFINE n == Len(p)
<1>1. /\ p \in Seq(Node) /\ n \in Nat /\ n >= 2 /\ p[1] = src /\ p[n] = d
      /\ DOMAIN p = 1 .. n /\ \A i \in 1 .. n : p[i] \in Node
  BY DEF GoodPath
<1>. HIDE DEF n
<1>2. \A i \in 1 .. n - 1 : Hop(p, i) \in Both(Link) /\ lev[Hop(p, i)] \in Level
  <2>1. SUFFICES ASSUME NEW i \in 1 .. n - 1
                 PROVE  Hop(p, i) \in Both(Link) /\ lev[Hop(p, i)] \in Level
    OBVIOUS
  <2>2. Hop(p, i) \in Both(Link) /\ lev[Hop(p, i)] >= 0 /\ lev[Hop(p, i)] \in Int
    BY DEF GoodPath, IsRoute, GraphInv, n
  <2>3. lev[Hop(p, i)] < level
    BY <2>2 DEF LevelsFit
  <2>4. QED
    BY <2>2, <2>3 DEF Level, GraphInv
<1>3. \A i \in 1 .. n - 2 : lev[Hop(p, i)] <= lev[Hop(p, i + 1)]
  BY DEF GoodPath, IsRoute, n
<1>4. PICK sum : Sums(sum, p) /\ Length(p) = sum[n]
  BY <1>1, RouteLength DEF GoodPath, ComputeInv, ComputeTypes, n
<1>. DEFINE Near(i, x) == /\ x[1] = p[i] /\ dist[x] <= sum[i]
                          /\ i < n => x[2] <= lev[Hop(p, i)]
            Good == {k \in Nat : k + 1 \in 1 .. n => \E x \in Place : Near(k + 1, x)}
<1>5. 0 \in Good
  <2>1. 1 \in 1 .. n - 1
    BY <1>1
  <2>2. lev[Hop(p, 1)] \in Level
    BY <1>2, <2>1
  <2>3. 0 \in Level /\ 0 <= lev[Hop(p, 1)]
    BY <2>2 DEF Level, GraphInv
  <2>4. src \in Node
    BY <1>1, <2>1
  <2>5. <<src, 0>> \in Place
    BY <2>3, <2>4 DEF Place
  <2>6. dist[<<src, 0>>] = 0
    BY <2>5 DEF ComputeInv, FirstPlaces
  <2>7. Near(1, <<src, 0>>)
    BY <1>1, <1>4, <2>3, <2>6 DEF Sums
  <2>8. QED
    BY <2>5, <2>7
<1>6. ASSUME NEW k \in Nat, k \in Good
      PROVE  k + 1 \in Good
  <2>1. SUFFICES ASSUME (k + 1) + 1 \in 1 .. n
                 PROVE  \E y \in Place : Near((k + 1) + 1, y)
    OBVIOUS
  <2>. DEFINE i == k + 1
  <2>2. i \in 1 .. n /\ i \in 1 .. n - 1 /\ i < n /\ i + 1 \in 1 .. n /\ i \in Nat
    BY <1>1, <2>1
  <2>3. PICK x \in Place : Near(i, x)
    BY <1>6, <2>2
  <2>. HIDE DEF i, Good
  <2>. DEFINE y == <<p[i + 1], lev[Hop(p, i)]>>
  <2>4. y \in Place
    BY <1>1, <1>2, <2>2 DEF Place
  <2>5. levels(x[1], y[1]) = lev[Hop(p, i)] /\ lev[Hop(p, i)] \in Nat
    <3>1. <<x[1], y[1]>> = Hop(p, i)
      BY <2>3 DEF Hop
    <3>2. Hop(p, i) \in DOMAIN lev /\ lev[Hop(p, i)] \in Nat
      BY <1>2, <2>2 DEF GraphInv, Level
    <3>3. QED
      BY <3>1, <3>2 DEF levels
  <2>6. Leads(x, y)
    <3>1. x[2] <= lev[Hop(p, i)]
      BY <2>2, <2>3
    <3>2. x[2] \in Nat
      BY PlaceFacts
    <3>3. QED
      BY <2>5, <3>1, <3>2 DEF Leads
  <2>7. /\ sum[i + 1] = sum[i] + metrics(x[1], y[1]) /\ metrics(x[1], y[1]) \in Nat
        /\ sum[i] \in Nat
    <3>1. metrics(x[1], y[1]) \in Nat
      <4>1. levels(x[1], y[1]) >= 0 /\ Measured
        BY <2>5 DEF ComputeInv, ComputeTypes
      <4>. HIDE DEF y
      <4>2. QED
        BY <4>1, MetricFacts
    <3>2. sum[i] \in Nat /\ sum[i + 1] = sum[i] + metrics(p[i], p[i + 1])
      BY <1>4, <2>2 DEF Sums, n
    <3>3. QED
      BY <2>3, <3>1, <3>2
  <2>8. dist[x] \in Nat /\ dist[y] \in Nat /\ dist[y] <= MAX_DIJKSTRA_DIST /\ MAX_DIJKSTRA_DIST \in Nat
    BY <2>4, DijkstraAssumption DEF ComputeInv, ComputeTypes
  <2>. HIDE DEF y
  <2>9. dist[y] <= sum[i + 1]
    <3>1. CASE x \in reached
      <4>1. dist[y] <= dist[x] + metrics(x[1], y[1])
        BY <2>4, <2>6, <3>1 DEF ComputeInv, Relaxed
      <4>2. QED
        BY <2>3, <2>7, <2>8, <4>1
    <3>2. CASE x \notin reached
      <4>1. dist[x] >= MAX_DIJKSTRA_DIST
        BY <2>8, <3>2 DEF Unreached
      <4>2. QED
        BY <2>3, <2>7, <2>8, <4>1
    <3>3. QED
      BY <3>1, <3>2
  <2>10. i + 1 < n => y[2] <= lev[Hop(p, i + 1)]
    <3>1. i + 1 < n => i \in 1 .. n - 2
      BY <1>1, <2>2
    <3>2. QED
      BY <1>3, <3>1 DEF y
  <2>11. Near(i + 1, y)
    BY <2>9, <2>10 DEF y
  <2>12. QED
    BY <2>4, <2>11 DEF i
<1>. HIDE DEF Good
<1>7. Nat \subseteq Good
  BY <1>5, <1>6, AllNaturals
<1>8. n - 1 \in Good /\ (n - 1) + 1 = n /\ n \in 1 .. n
  BY <1>1, <1>7
<1>9. PICK x \in Place : Near(n, x)
  BY <1>8 DEF Good
<1>10. x[1] = d /\ dist[x] <= Length(p)
  BY <1>1, <1>4, <1>9
<1>11. x = <<d, x[2]>> /\ x[2] \in Level
  BY <1>10 DEF Place
<1>12. QED
  BY <1>10, <1>11

(***************************************************************************)
(* The width of an entry: the least of those of its links, and at most     *)
(* MAX_DIJKSTRA_WIDTH.                                                     *)
(***************************************************************************)
LEMMA NarrowestFacts ==
  ASSUME NEW k \in Nat, NEW ws, \A i \in 1 .. k : ws[i] \in Nat
  PROVE  /\ \A i \in 1 .. k : Narrowest(ws, k) <= ws[i]
         /\ Narrowest(ws, k) = MAX_DIJKSTRA_WIDTH \/ \E i \in 1 .. k : Narrowest(ws, k) = ws[i]
         /\ Narrowest(ws, k) \in Nat /\ Narrowest(ws, k) <= MAX_DIJKSTRA_WIDTH
<1>. DEFINE Narrows(h) ==
              h = [i \in 0 .. k |-> IF i = 0 THEN MAX_DIJKSTRA_WIDTH
                                    ELSE IF ws[i] < h[i - 1] THEN ws[i] ELSE h[i - 1]]
            P == 0 .. k
            r == [i \in P |-> i]
            b == [i \in P |-> i - 1]
            a == [i \in P |-> MAX_DIJKSTRA_WIDTH]
            w == [i \in P |-> IF i = 0 THEN 0 ELSE ws[i]]
            g == [z \in Nat \X P |-> IF w[z[2]] < z[1] THEN w[z[2]] ELSE z[1]]
<1>1. Descends(P, {0}, r, b)
  BY DEF Descends
<1>2. w \in [P -> Nat] /\ \A i \in P : i # 0 => w[i] = ws[i]
  OBVIOUS
<1>3. MAX_DIJKSTRA_WIDTH \in Nat
  BY DijkstraAssumption
<1>. HIDE DEF w, Narrows
<1>4. /\ a \in [P -> Nat]
      /\ \A t \in Nat, y \in P : g[<<t, y>>] = (IF w[y] < t THEN w[y] ELSE t) /\ g[<<t, y>>] \in Nat
  BY <1>2, <1>3
<1>5. PICK f \in [P -> Nat] : Recurs(f, P, {0}, b, a, g)
  <2>. HIDE DEF r, b, a, g, P
  <2>1. QED
    BY <1>1, <1>4, Recursion
<1>6. \A i \in P : i # 0 => i - 1 \in P
  OBVIOUS
<1>7. \A i \in P : f[i] = IF i = 0 THEN MAX_DIJKSTRA_WIDTH ELSE IF ws[i] < f[i - 1] THEN ws[i] ELSE f[i - 1]
  <2>1. SUFFICES ASSUME NEW i \in P
                 PROVE  f[i] = IF i = 0 THEN MAX_DIJKSTRA_WIDTH
                               ELSE IF ws[i] < f[i - 1] THEN ws[i] ELSE f[i - 1]
    OBVIOUS
  <2>2. f[i] = IF i \in {0} THEN a[i] ELSE g[<<f[b[i]], i>>]
    <3>. HIDE DEF P, a, g, b
    <3>1. QED
      BY <1>5 DEF Recurs
  <2>3. b[i] = i - 1 /\ a[i] = MAX_DIJKSTRA_WIDTH
    OBVIOUS
  <2>4. i # 0 => f[i - 1] \in Nat
    BY <1>5, <1>6
  <2>. HIDE DEF g, b, a, P
  <2>5. QED
    BY <1>2, <1>4, <2>2, <2>3, <2>4
<1>8. Narrows(f)
  <2>1. f = [i \in P |-> f[i]]
    BY <1>5
  <2>2. QED
    BY <1>7, <2>1 DEF Narrows
<1>. DEFINE m == CHOOSE h : Narrows(h)
<1>9. Narrows(m)
  BY <1>8
<1>10. Narrowest(ws, k) = m[k]
  BY DEF Narrowest, Narrows
<1>. HIDE DEF m
<1>11. /\ m[0] = MAX_DIJKSTRA_WIDTH
       /\ \A i \in P : i # 0 => m[i] = IF ws[i] < m[i - 1] THEN ws[i] ELSE m[i - 1]
  BY <1>9 DEF Narrows
<1>. DEFINE Least1(j) == /\ m[j] \in Nat /\ m[j] <= MAX_DIJKSTRA_WIDTH
                         /\ \A i \in 1 .. j : m[j] <= ws[i]
                         /\ m[j] = MAX_DIJKSTRA_WIDTH \/ \E i \in 1 .. j : m[j] = ws[i]
            Good == {j \in Nat : j \in P => Least1(j)}
<1>12. 0 \in Good
  BY <1>3, <1>11
<1>13. ASSUME NEW j \in Nat, j \in Good
       PROVE  j + 1 \in Good
  <2>1. SUFFICES ASSUME j + 1 \in P
                 PROVE  Least1(j + 1)
    OBVIOUS
  <2>2. j \in P /\ j + 1 # 0 /\ (j + 1) - 1 = j /\ j + 1 \in 1 .. k
    BY <2>1
  <2>3. Least1(j)
    BY <1>13, <2>2
  <2>4. m[j + 1] = IF ws[j + 1] < m[j] THEN ws[j + 1] ELSE m[j]
    BY <1>11, <2>1, <2>2
  <2>5. ws[j + 1] \in Nat /\ \A i \in 1 .. j : ws[i] \in Nat
    BY <2>2
  <2>6. \A i \in 1 .. j + 1 : i \in 1 .. j \/ i = j + 1
    OBVIOUS
  <2>7. m[j + 1] \in Nat /\ m[j + 1] <= m[j] /\ m[j + 1] <= ws[j + 1]
    BY <2>3, <2>4, <2>5
  <2>8. \A i \in 1 .. j + 1 : m[j + 1] <= ws[i]
    BY <2>3, <2>5, <2>6, <2>7
  <2>9. m[j + 1] = MAX_DIJKSTRA_WIDTH \/ \E i \in 1 .. j + 1 : m[j + 1] = ws[i]
    BY <2>3, <2>4
  <2>10. m[j + 1] <= MAX_DIJKSTRA_WIDTH
    BY <1>3, <2>3, <2>7
  <2>11. QED
    BY <2>7, <2>8, <2>9, <2>10
<1>. HIDE DEF Good
<1>14. Nat \subseteq Good
  BY <1>12, <1>13, AllNaturals
<1>15. Least1(k)
  BY <1>14 DEF Good
<1>16. QED
  BY <1>10, <1>15

(***************************************************************************)
(* What an entry is to hold, and what calc_rt makes of it.                 *)
(***************************************************************************)
BestEntry(d, entry) ==
  /\ entry.path \in Routes(d)
  /\ entry.metric = Length(entry.path) /\ entry.metric < MAX_DIJKSTRA_DIST
  /\ \A p \in Routes(d) : entry.metric <= Length(p)

WideEntry(entry) ==
  LET n == Len(entry.path) - 1
      w(i) == width(entry.path[i], entry.path[i + 1])
  IN  /\ \A i \in 1 .. n : entry.width <= w(i) /\ w(i) \in Nat \ {0}
      /\ entry.width = MAX_DIJKSTRA_WIDTH \/ \E i \in 1 .. n : entry.width = w(i)

EntriesInv ==
  \A d \in Node \ {src} : \A entry : entry = rts[src][d] => BestEntry(d, entry) /\ WideEntry(entry)

LEMMA RouteFacts ==
  ASSUME src \in Node, NEW d \in Node \ {src}, NEW p
  PROVE  p \in Routes(d) <=> GoodPath(src, d, p) /\ Len(p) >= 2
<1>1. ASSUME p \in Routes(d)
      PROVE  GoodPath(src, d, p) /\ Len(p) >= 2
  <2>1. p \in SimplePaths[<<src, d>>] /\ IsRoute(p)
    BY <1>1 DEF Routes
  <2>2. p \in Seq(Node) /\ Len(p) - 1 \in 1 .. Cardinality(Node) - 1 /\ p[1] = src /\ p[Len(p)] = d
    BY <2>1, SimplePathFacts
  <2>3. Len(p) >= 2
    BY <2>2, NodeAssumption, FS_CardinalityType
  <2>4. QED
    BY <2>1, <2>2, <2>3 DEF GoodPath
<1>2. ASSUME GoodPath(src, d, p), Len(p) >= 2
      PROVE  p \in Routes(d)
  <2>1. /\ p \in Seq(Node) /\ Len(p) \in Nat /\ p[1] = src /\ p[Len(p)] = d /\ DOMAIN p = 1 .. Len(p)
        /\ \A i, j \in DOMAIN p : p[i] = p[j] => i = j
    BY <1>2 DEF GoodPath, IsRoute
  <2>2. p \in Injection(1 .. Len(p), Node)
    <3>1. p \in [1 .. Len(p) -> Node]
      BY <2>1, LenProperties
    <3>2. QED
      BY <2>1, <3>1 DEF Injection, IsInjective
  <2>3. Cardinality(1 .. Len(p)) <= Cardinality(Node)
    BY <2>2, NodeAssumption, FS_Injection
  <2>4. Cardinality(1 .. Len(p)) = Len(p)
    BY <2>1, FS_Interval
  <2>5. Len(p) - 1 \in 1 .. Cardinality(Node) - 1
    BY <1>2, <2>1, <2>3, <2>4, NodeAssumption, FS_CardinalityType
  <2>6. p \in SimplePaths[<<src, d>>]
    BY <2>1, <2>5, SimplePathFacts
  <2>7. QED
    BY <1>2, <2>6 DEF Routes, GoodPath
<1>3. QED
  BY <1>1, <1>2

LEMMA WidthFacts ==
  ASSUME GraphInv, NEW u, NEW v, <<u, v>> \in Both(Link)
  PROVE  \E e \in Link : e \in {<<u, v>>, <<v, u>>} /\ width(u, v) = conns[e].width
<1>1. <<u, v>> \in Link \/ <<v, u>> \in Link
  <2>1. SUFFICES ASSUME NEW e \in Link, Back(e) = <<u, v>>
                 PROVE  <<v, u>> \in Link
    BY DEF Both
  <2>2. e = <<e[1], e[2]>>
    BY LinkFacts, GraphFacts
  <2>3. e[2] = u /\ e[1] = v
    BY <2>1 DEF Back
  <2>4. QED
    BY <2>2, <2>3
<1>2. QED
  BY <1>1 DEF width, The

LEMMA EntryBest ==
  ASSUME GraphInv, ComputeInv, LevelsFit, src \in Node, Unreached = {}, Unreachable = {},
         NEW d \in Node \ {src}
  PROVE  BestEntry(d, EntryFor(d)) /\ WideEntry(EntryFor(d))
<1>. DEFINE y == Arrival(d)
            t == From[y]
            p == Nodes(t)
            n == Len(t) - 1
            ws == [i \in 1 .. n |-> width(t[i][1], t[i + 1][1])]
            entry == EntryFor(d)
<1>1. /\ y \in Place /\ y[1] = d /\ dist[y] < MAX_DIJKSTRA_DIST /\ Way(t, y)
      /\ \A l \in Level : dist[y] <= dist[<<d, l>>]
      /\ GoodPath(src, d, entry.path)
  BY EntryRoutes
<1>2. entry.path = p
  BY EntryRoutes
<1>3. entry.metric = dist[y] /\ entry.width = Narrowest(ws, n)
  BY TraceIsFrom DEF EntryFor
<1>. HIDE DEF entry, y
<1>4. Length(p) = dist[y]
  BY <1>1, DistanceIsLength
<1>5. t \in Seq(Place) /\ Len(t) \in Nat /\ Len(t) >= 1 /\ DOMAIN t = 1 .. Len(t)
  BY <1>1 DEF Way
<1>6. DOMAIN p = 1 .. Len(t) /\ p \in Seq(Node) /\ \A i \in 1 .. Len(t) : p[i] = t[i][1]
  BY <1>1, <1>2, <1>5 DEF GoodPath, Nodes
<1>7. Len(p) = Len(t)
  BY <1>5, <1>6, LenProperties
<1>8. Len(p) >= 2
  <2>. DEFINE k == Len(p)
  <2>1. k # 1
    BY <1>1, <1>2 DEF GoodPath
  <2>2. k \in Nat /\ k >= 1
    BY <1>5, <1>7
  <2>. HIDE DEF k
  <2>3. k >= 2
    BY <2>1, <2>2
  <2>4. QED
    BY <2>3 DEF k
<1>9. p \in Routes(d)
  BY <1>1, <1>2, <1>8, RouteFacts
<1>10. ASSUME NEW q \in Routes(d)
       PROVE  dist[y] <= Length(q)
  <2>1. GoodPath(src, d, q) /\ Len(q) >= 2
    BY RouteFacts
  <2>2. PICK l \in Level : dist[<<d, l>>] <= Length(q)
    BY <2>1, NoRouteShorter
  <2>3. dist[y] \in Nat /\ dist[<<d, l>>] \in Nat
    BY <1>1 DEF ComputeInv, ComputeTypes, Place
  <2>4. \E sum : Sums(sum, q) /\ Length(q) = sum[Len(q)]
    BY <2>1, RouteLength DEF GoodPath, ComputeInv, ComputeTypes
  <2>5. Length(q) \in Nat
    BY <2>1, <2>4 DEF Sums, GoodPath
  <2>6. dist[y] <= dist[<<d, l>>]
    BY <1>1
  <2>7. QED
    BY <2>2, <2>3, <2>5, <2>6
<1>11. BestEntry(d, entry)
  BY <1>1, <1>2, <1>3, <1>4, <1>9, <1>10 DEF BestEntry
<1>12. n \in Nat /\ n = Len(p) - 1
  BY <1>5, <1>7
<1>13. \A i \in 1 .. n : ws[i] = width(p[i], p[i + 1])
  <2>1. \A i \in 1 .. n : i \in 1 .. Len(t) /\ i + 1 \in 1 .. Len(t)
    BY <1>5
  <2>2. QED
    BY <1>6, <2>1
<1>14. ASSUME NEW i \in 1 .. n
       PROVE  width(p[i], p[i + 1]) \in Nat \ {0}
  <2>1. <<p[i], p[i + 1]>> \in Both(Link)
    BY <1>1, <1>2, <1>12 DEF GoodPath, IsRoute, Hop, GraphInv
  <2>2. PICK e \in Link : width(p[i], p[i + 1]) = conns[e].width
    BY <2>1, WidthFacts
  <2>3. QED
    BY <2>2, LinkFacts
<1>. HIDE DEF ws, n, p, t
<1>15. WideEntry(entry)
  <2>1. \A i \in 1 .. n : ws[i] \in Nat
    BY <1>13, <1>14
  <2>2. /\ \A i \in 1 .. n : Narrowest(ws, n) <= ws[i]
        /\ Narrowest(ws, n) = MAX_DIJKSTRA_WIDTH \/ \E i \in 1 .. n : Narrowest(ws, n) = ws[i]
    BY <1>12, <2>1, NarrowestFacts
  <2>3. QED
    BY <1>2, <1>3, <1>12, <1>13, <1>14, <2>2 DEF WideEntry
<1>16. QED
  BY <1>11, <1>15 DEF entry

-----------------------------------------------------------------------------
(***************************************************************************)
(* The inductive invariant: each step of gxp_router_run finds what the     *)
(* step before is to leave.  DEADLOCK, and the first tables of             *)
(* ORDERED_BFS, are computed on levels that promise nothing.               *)
(***************************************************************************)
Levelled == {"labelled", "setup", "compute", "table", "done", "exit"}
Proper == rttype # "DEADLOCK" /\ (rttype = "ORDERED_BFS" => avgdist # NoMap)

StepsInv ==
  /\ pc \in {"start", "sort", "choose"} => TreesInv
  /\ pc \in {"start", "root", "visit", "assign"} => UpDownInv
  /\ IF pc = "search" THEN SearchInv ELSE IdleInv
  /\ pc = "setup" => SetupInv
  /\ pc = "compute" => ComputeInv
  /\ pc = "exit" => ComputeInv /\ Unreached = {} /\ Unreachable # {}
  /\ pc = "table" => EntriesInv

OutcomeInv ==
  /\ pc \in Levelled => LevelsFit
  /\ pc \in Levelled /\ Proper => LevelsSound
  /\ pc \in {"start", "sort", "choose", "root", "visit", "assign", "sort_nodes", "search"}
       => \A s \in Node : rts[s] = NoTable
  /\ pc = "done" => AllTables /\ (rttype = "ORDERED_BFS" => avgdist # NoMap)
  /\ pc # "assert_reached"

Inv == GraphInv /\ KindInv /\ TablesInv /\ StepsInv /\ OutcomeInv

(***************************************************************************)
(* What a step leaves alone keeps its invariant.                           *)
(***************************************************************************)
LEMMA KeepGraph ==
  ASSUME GraphInv, UNCHANGED graph, lev' \in [Both(Link) -> Nat \cup {-1}], level' \in Nat
  PROVE  GraphInv'
BY DEF GraphInv, graph, Link, Both

LEMMA KeepLevels ==
  ASSUME lev' = lev
  PROVE  LevelsSound' = LevelsSound
BY DEF LevelsSound, At

LEMMA KeepFit ==
  ASSUME LevelsFit, UNCHANGED <<graph, lev, level>>
  PROVE  LevelsFit'
BY DEF LevelsFit, Both, Link, graph

LEMMA KeepTables ==
  ASSUME TablesInv, UNCHANGED <<src, rts>>, lev' = lev \/ \A s \in Node : rts[s] = NoTable
  PROVE  TablesInv'
BY DEF TablesInv, GoodTable, GoodPath, IsRoute, NoTable

LEMMA KeepEntries ==
  ASSUME UNCHANGED <<graph, lev, src>>
  PROVE  \A d, entry : /\ BestEntry(d, entry)' <=> BestEntry(d, entry)
                       /\ WideEntry(entry)' <=> WideEntry(entry)
<1>1. \A u, v : metrics(u, v)' = metrics(u, v) /\ width(u, v)' = width(u, v)
  BY DEF graph, metrics, width, The, Link
<1>2. \A p : Length(p)' = Length(p)
  BY <1>1 DEF Length
<1>3. \A d : Routes(d)' = Routes(d)
  BY DEF Routes, IsRoute
<1>4. \A d, entry : BestEntry(d, entry)' <=> BestEntry(d, entry)
  BY <1>2, <1>3 DEF BestEntry
<1>5. \A entry : WideEntry(entry)' <=> WideEntry(entry)
  BY <1>1 DEF WideEntry
<1>6. QED
  BY <1>4, <1>5

LEMMA KeepCompute ==
  ASSUME UNCHANGED <<graph, lev, level, src, dist, prev, reached>>
  PROVE  ComputeInv' = ComputeInv /\ Unreached' = Unreached /\ Unreachable' = Unreachable
<1>1. UNCHANGED <<rttype, conns>> /\ Link' = Link /\ Place' = Place /\ Level' = Level
  BY DEF graph, Link, Place, Level
<1>2. /\ Measured' = Measured
      /\ \A u, v : metrics(u, v)' = metrics(u, v)
      /\ \A x, y : Leads(x, y)' = Leads(x, y)
  BY <1>1 DEF Measured, metrics, The, Leads, levels
<1>3. ComputeTypes' = ComputeTypes /\ FirstPlaces' = FirstPlaces
  BY <1>1, <1>2 DEF ComputeTypes, FirstPlaces
<1>4. LinkedPlaces' = LinkedPlaces /\ HigherNotFarther' = HigherNotFarther
  BY <1>1, <1>2 DEF LinkedPlaces, HigherNotFarther
<1>5. ExtractedInOrder' = ExtractedInOrder /\ Relaxed' = Relaxed
  BY <1>1, <1>2 DEF ExtractedInOrder, Relaxed
<1>6. Unreached' = Unreached /\ Unreachable' = Unreachable
  BY <1>1 DEF Unreached, Unreachable
<1>7. QED
  BY <1>3, <1>4, <1>5, <1>6 DEF ComputeInv

LEMMA KeepIdle ==
  ASSUME IdleInv, UNCHANGED searchvars
  PROVE  IdleInv'
BY DEF IdleInv, searchvars

LEMMA InitInv ==
  ASSUME Init
  PROVE  Inv
<1>1. GraphInv /\ lev = Unlevelled /\ level = 0 /\ pc = "start"
  <2>1. lev = Unlevelled /\ level = 0 /\ pc = "start"
    BY DEF Init
  <2>2. lev \in [Both(Link) -> Nat \cup {-1}]
    BY <2>1 DEF Unlevelled
  <2>3. QED
    BY <2>1, <2>2 DEF Init, GraphInv
<1>2. KindInv
  BY <1>1 DEF Init, BfsInit, KindInv
<1>3. TablesInv /\ \A s \in Node : rts[s] = NoTable
  BY DEF Init, DijkstraInit, TablesInv
<1>4. \A l \in Nat : At(l) = {}
  BY <1>1 DEF At, Unlevelled
<1>5. TreesInv
  <2>1. UnionSet(parent, height) /\ \E depth : Forest(At(level), Find(parent), depth)
    BY <1>1, <1>4, NewForest DEF Init, TreesInit
  <2>2. LowerSound
    BY <1>1, <1>4, NoTurnsOfNone DEF LowerSound, Unlevelled
  <2>3. QED
    BY <2>1, <2>2, EmptySeq DEF Init, TreesInit, TreesInv
<1>6. UpDownInv
  BY EmptySeq DEF Init, UpDownInit, UpDownInv, NoIds, NoDepths
<1>7. IdleInv
  BY DEF Init, BfsInit, IdleInv
<1>8. QED
  BY <1>1, <1>2, <1>3, <1>5, <1>6, <1>7 DEF Inv, StepsInv, OutcomeInv, Levelled

LEMMA StartInv ==
  ASSUME Inv, Start
  PROVE  Inv'
<1>1. /\ pc = "start" /\ MakeLinks
      /\ UNCHANGED <<graph, treevars, updownvars, bfsvars, dijkvars, rts>>
  BY DEF Start
<1>2. /\ GraphInv /\ KindInv /\ TablesInv /\ StepsInv /\ OutcomeInv
      /\ rttype' = rttype /\ avgdist' = avgdist /\ src' = src /\ rts' = rts /\ Link' = Link
  BY <1>1 DEF Inv, graph, Link, bfsvars, dijkvars
<1>3. rttype \in RouterTypes
  BY <1>2, RouterAssumption DEF GraphInv
<1>4. \A s \in Node : rts[s] = NoTable
  BY <1>1, <1>2 DEF OutcomeInv
<1>5. TreesInv /\ UpDownInv /\ IdleInv
  BY <1>1, <1>2 DEF StepsInv
<1>6. lev' \in [Both(Link) -> Nat \cup {-1}] /\ level' \in Nat
  BY <1>1, <1>2 DEF MakeLinks, levelvars, GraphInv
<1>7. GraphInv'
  BY <1>1, <1>2, <1>6, KeepGraph
<1>8. TablesInv'
  BY <1>1, <1>2, <1>4, KeepTables DEF dijkvars
<1>9. IdleInv'
  BY <1>1, <1>5, KeepIdle DEF bfsvars
<1>10. UpDownInv'
  BY <1>1, <1>5 DEF UpDownInv, updownvars
<1>11. /\ pc' = "sort" \/ pc' = "root" \/ pc' = "labelled"
       /\ pc' = "sort" => rttype \in Ordered /\ UNCHANGED levelvars
       /\ pc' = "root" => rttype \in UpDownTypes /\ level' = 2
       /\ pc' = "labelled" => /\ rttype \in {"ORDERED_BFS", "DEADLOCK"}
                              /\ lev' = [c \in Both(Link) |-> 0] /\ level' = 1
  BY <1>1 DEF MakeLinks
<1>12. KindInv'
  BY <1>2, <1>11 DEF KindInv
<1>13. pc' = "sort" => TreesInv'
  <2>1. SUFFICES ASSUME UNCHANGED <<lev, level>>
                 PROVE  TreesInv'
    BY <1>11 DEF levelvars
  <2>2. At(level)' = At(level) /\ \A l : At(l)' = At(l)
    BY <2>1 DEF At
  <2>3. UNCHANGED <<pool, remain, parent, height>>
    BY <1>1 DEF treevars
  <2>4. QED
    BY <1>2, <1>5, <2>1, <2>2, <2>3 DEF TreesInv, LowerSound, Both
<1>14. StepsInv'
  BY <1>9, <1>10, <1>11, <1>13 DEF StepsInv
<1>15. avgdist = NoMap
  BY <1>1, <1>2 DEF KindInv
<1>16. pc' = "labelled" => LevelsFit'
  BY <1>2, <1>11 DEF LevelsFit, Both
<1>17. OutcomeInv'
  BY <1>2, <1>4, <1>11, <1>15, <1>16 DEF OutcomeInv, Levelled, Proper, NoTable, Ordered, UpDownTypes
<1>18. QED
  BY <1>7, <1>8, <1>12, <1>14, <1>17 DEF Inv

LEMMA RouterInv ==
  ASSUME Inv, ExchangeDistances \/ NextTable \/ Finish
  PROVE  Inv'
<1>1. /\ pc = "table" /\ UNCHANGED <<graph, levelvars, treevars, updownvars, searchvars, dijkvars>>
      /\ pc' \in {"sort_nodes", "labelled", "done"}
  BY DEF ExchangeDistances, NextTable, Finish, bfsvars
<1>2. /\ GraphInv /\ KindInv /\ TablesInv /\ StepsInv /\ OutcomeInv
      /\ rttype' = rttype /\ src' = src /\ lev' = lev /\ level' = level
  BY <1>1 DEF Inv, graph, dijkvars, levelvars
<1>3. GraphInv'
  BY <1>1, <1>2, KeepGraph DEF GraphInv
<1>4. IdleInv'
  BY <1>1, <1>2, KeepIdle DEF StepsInv
<1>5. StepsInv'
  BY <1>1, <1>4 DEF StepsInv
<1>6. CASE ExchangeDistances
  <2>1. /\ rttype = "ORDERED_BFS" /\ avgdist' = [n \in Node |-> SumOf(rts[n])]
        /\ rts' = [n \in Node |-> NoTable] /\ pc' = "sort_nodes"
    BY <1>6 DEF ExchangeDistances
  <2>2. avgdist' # NoMap
    <3>1. DOMAIN avgdist' = Node /\ src \in Node
      BY <1>2, <2>1 DEF TablesInv
    <3>2. DOMAIN NoMap = {}
      BY DEF NoMap
    <3>3. QED
      BY <3>1, <3>2
  <2>3. TablesInv'
    BY <1>2, <2>1 DEF TablesInv, NoTable
  <2>4. KindInv'
    BY <1>2, <2>1, <2>2 DEF KindInv, NoMap
  <2>5. OutcomeInv'
    BY <2>1 DEF OutcomeInv, Levelled, NoTable
  <2>6. QED
    BY <1>3, <1>5, <2>3, <2>4, <2>5 DEF Inv
<1>7. CASE NextTable \/ Finish
  <2>1. /\ avgdist' = avgdist /\ rts' = rts /\ pc' \in {"labelled", "done"}
        /\ pc' = "done" => AllTables /\ (rttype = "ORDERED_BFS" => avgdist # NoMap)
    BY <1>7 DEF NextTable, Finish, bfsvars
  <2>2. TablesInv'
    BY <1>2, <2>1, KeepTables
  <2>3. KindInv'
    BY <1>2, <2>1 DEF KindInv
  <2>4. Proper' = Proper /\ AllTables' = AllTables /\ NoMap' = NoMap
    BY <1>2, <2>1 DEF Proper, AllTables, NoMap, NoTable
  <2>5. (Proper => LevelsSound') /\ LevelsFit'
    BY <1>1, <1>2, KeepLevels, KeepFit DEF OutcomeInv, Levelled
  <2>6. OutcomeInv'
    BY <1>2, <2>1, <2>4, <2>5 DEF OutcomeInv
  <2>7. QED
    BY <1>3, <1>5, <2>2, <2>3, <2>6 DEF Inv
<1>8. QED
  BY <1>6, <1>7

LEMMA SpanningInv ==
  ASSUME Inv, TreesNext, UNCHANGED <<updownvars, bfsvars, dijkvars, rts>>
  PROVE  Inv'
<1>1. /\ pc \in {"sort", "choose"} /\ pc' \in {"choose", "labelled"} /\ UNCHANGED graph
      /\ pc' = "labelled" => NextTree
  BY DEF TreesNext, Sort, choose_sp_tree_links, NextTree
<1>2. /\ GraphInv /\ KindInv /\ TablesInv /\ TreesInv /\ IdleInv
      /\ \A s \in Node : rts[s] = NoTable
      /\ rttype' = rttype /\ avgdist' = avgdist /\ src' = src /\ rts' = rts
  BY <1>1 DEF Inv, StepsInv, OutcomeInv, graph, bfsvars, dijkvars
<1>3. TreesInv' /\ lev' \in [Both(Link) -> Nat \cup {-1}] /\ level' \in Nat
  <2>1. CASE Sort
    BY <1>2, <2>1, SortStep DEF Sort, GraphInv
  <2>2. CASE choose_sp_tree_links
    BY <1>2, <2>2, ChooseStep DEF choose_sp_tree_links, GraphInv
  <2>3. CASE NextTree
    BY <1>2, <2>3, NextTreeStep DEF NextTree, GraphInv
  <2>4. QED
    BY <2>1, <2>2, <2>3 DEF TreesNext
<1>4. GraphInv'
  BY <1>1, <1>2, <1>3, KeepGraph
<1>5. KindInv'
  BY <1>1, <1>2 DEF KindInv
<1>6. TablesInv'
  BY <1>2, KeepTables
<1>7. IdleInv'
  BY <1>2, KeepIdle DEF bfsvars
<1>8. StepsInv'
  BY <1>1, <1>3, <1>7 DEF StepsInv
<1>9. pc' = "labelled" => LevelsSound' /\ LevelsFit'
  BY <1>1, <1>2, NextTreeStep
<1>10. OutcomeInv'
  BY <1>1, <1>2, <1>9 DEF OutcomeInv, Levelled, NoTable
<1>11. QED
  BY <1>4, <1>5, <1>6, <1>8, <1>10 DEF Inv

LEMMA NumberingInv ==
  ASSUME Inv, UpDownNext, UNCHANGED <<treevars, bfsvars, dijkvars, rts>>
  PROVE  Inv'
<1>1. /\ pc \in {"root", "visit", "assign"} /\ pc' \in {"visit", "assign", "assert_ids", "labelled"}
      /\ UNCHANGED <<graph, level>>
      /\ pc' = "labelled" => Assign
      /\ Assign \/ lev' = lev
      /\ pc # "search"
  BY DEF UpDownNext, ChooseRoot, BfsVisit, BfsEnd, DfsVisit, DfsEnd, Assign
<1>2. /\ GraphInv /\ KindInv /\ TablesInv /\ UpDownInv /\ IdleInv
      /\ \A s \in Node : rts[s] = NoTable
      /\ rttype' = rttype /\ avgdist' = avgdist /\ src' = src /\ rts' = rts
      /\ level = 2
  BY <1>1 DEF Inv, StepsInv, OutcomeInv, graph, bfsvars, dijkvars, KindInv
<1>3. lev' \in [Both(Link) -> Nat \cup {-1}] /\ level' \in Nat
  BY <1>1, <1>2, AssignStep DEF GraphInv
<1>4. GraphInv'
  BY <1>1, <1>2, <1>3, KeepGraph
<1>5. KindInv'
  BY <1>1, <1>2 DEF KindInv
<1>6. TablesInv'
  BY <1>2, KeepTables
<1>7. IdleInv'
  BY <1>2, KeepIdle DEF bfsvars
<1>8. ~Assign => UpDownInv'
  BY <1>2, NumberingStep DEF UpDownNext
<1>9. Assign => pc' = "labelled"
  BY DEF Assign
<1>10. StepsInv'
  BY <1>1, <1>7, <1>8, <1>9 DEF StepsInv
<1>11. pc' = "labelled" => LevelsSound' /\ LevelsFit'
  BY <1>1, <1>2, AssignStep
<1>12. OutcomeInv'
  BY <1>1, <1>2, <1>11 DEF OutcomeInv, Levelled, NoTable
<1>13. QED
  BY <1>4, <1>5, <1>6, <1>10, <1>12 DEF Inv

LEMMA SearchingInv ==
  ASSUME Inv, BfsNext, UNCHANGED <<treevars, updownvars, dijkvars, rts>>
  PROVE  Inv'
<1>1. /\ pc \in {"sort_nodes", "search"} /\ pc' \in {"search", "labelled"} /\ UNCHANGED <<graph, avgdist>>
      /\ pc' = "labelled" <=> EndSearches
      /\ pc = "search" <=> ~router_bfs_node_sort
  BY DEF BfsNext, router_bfs_node_sort, StartSearch, router_graph_do_bfs_search, EndSearch, EndSearches
<1>2. /\ GraphInv /\ KindInv /\ TablesInv
      /\ IF pc = "search" THEN SearchInv ELSE IdleInv
      /\ \A s \in Node : rts[s] = NoTable
      /\ rttype' = rttype /\ avgdist' = avgdist /\ src' = src /\ rts' = rts
  BY <1>1 DEF Inv, StepsInv, OutcomeInv, graph, dijkvars
<1>3. /\ lev' \in [Both(Link) -> Nat \cup {-1}] /\ level' \in Nat
      /\ IF EndSearches THEN IdleInv' /\ LevelsSound' /\ LevelsFit' ELSE SearchInv'
  <2>1. CASE router_bfs_node_sort
    <3>1. SearchInv' /\ lev' \in [Both(Link) -> Nat \cup {-1}]
      BY <1>1, <1>2, <2>1, SortNodesStep
    <3>2. level' = 0 /\ ~EndSearches
      BY <2>1 DEF router_bfs_node_sort, EndSearches
    <3>3. QED
      BY <3>1, <3>2
  <2>2. CASE StartSearch
    <3>1. SearchInv' /\ lev' = lev /\ level' = level
      BY <1>1, <1>2, <2>2, StartSearchStep DEF StartSearch
    <3>2. ~EndSearches
      BY <2>2 DEF StartSearch, EndSearches
    <3>3. QED
      BY <1>2, <3>1, <3>2 DEF GraphInv
  <2>3. CASE router_graph_do_bfs_search
    <3>1. SearchInv' /\ lev' \in [Both(Link) -> Nat \cup {-1}] /\ level' = level
      BY <1>1, <1>2, <2>3, SearchStep DEF router_graph_do_bfs_search
    <3>2. ~EndSearches
      BY <2>3 DEF router_graph_do_bfs_search, EndSearches
    <3>3. QED
      BY <1>2, <3>1, <3>2 DEF GraphInv
  <2>4. CASE EndSearch
    <3>1. SearchInv' /\ lev' = lev /\ level' \in Nat
      BY <1>1, <1>2, <2>4, EndSearchStep DEF EndSearch
    <3>2. ~EndSearches
      BY <2>4 DEF EndSearch, EndSearches
    <3>3. QED
      BY <1>2, <3>1, <3>2 DEF GraphInv
  <2>5. CASE EndSearches
    <3>1. LevelsSound' /\ LevelsFit' /\ IdleInv' /\ lev' = lev /\ level' = level
      BY <1>1, <1>2, <2>5, EndSearchesStep DEF EndSearches
    <3>2. QED
      BY <1>2, <2>5, <3>1 DEF GraphInv
  <2>6. QED
    BY <2>1, <2>2, <2>3, <2>4, <2>5 DEF BfsNext
<1>4. GraphInv'
  BY <1>1, <1>2, <1>3, KeepGraph
<1>5. KindInv'
  BY <1>1, <1>2 DEF KindInv, NoMap
<1>6. TablesInv'
  BY <1>2, KeepTables
<1>7. StepsInv'
  BY <1>1, <1>3 DEF StepsInv
<1>8. OutcomeInv'
  BY <1>1, <1>2, <1>3 DEF OutcomeInv, Levelled, NoTable
<1>9. QED
  BY <1>4, <1>5, <1>6, <1>7, <1>8 DEF Inv

LEMMA DijkstraInv ==
  ASSUME Inv, DijkstraNext, UNCHANGED <<treevars, updownvars, bfsvars>>
  PROVE  Inv'
<1>1. /\ pc \in {"labelled", "setup", "compute"} /\ UNCHANGED <<graph, lev, level>>
      /\ pc' \in {"setup", "compute", "assert_len", "assert_reached", "exit", "table"}
  BY DEF DijkstraNext, leveled_dijkstra_create, setup, compute, calc_rt
<1>2. /\ GraphInv /\ KindInv /\ TablesInv /\ IdleInv
      /\ pc = "setup" => SetupInv
      /\ pc = "compute" => ComputeInv
      /\ (Proper => LevelsSound) /\ LevelsFit
      /\ Proper' = Proper /\ NoMap' = NoMap
      /\ rttype' = rttype /\ avgdist' = avgdist
  BY <1>1 DEF Inv, StepsInv, OutcomeInv, Levelled, graph, bfsvars, Proper, NoMap
<1>3. GraphInv'
  BY <1>1, <1>2, KeepGraph DEF GraphInv
<1>4. KindInv'
  BY <1>1, <1>2 DEF KindInv
<1>5. /\ TablesInv' /\ pc' # "assert_reached"
      /\ pc' = "setup" => SetupInv'
      /\ pc' = "compute" => ComputeInv'
      /\ (pc = "exit" => ComputeInv /\ Unreached = {} /\ Unreachable # {})'
      /\ pc' = "table" => EntriesInv'
  <2>1. CASE leveled_dijkstra_create
    <3>1. src' \in Node /\ rts' = rts /\ pc' = "setup"
      BY <2>1 DEF leveled_dijkstra_create
    <3>2. TablesInv'
      BY <1>1, <1>2, <3>1 DEF TablesInv, GoodTable, GoodPath, IsRoute, NoTable
    <3>3. SetupInv'
      BY <1>1, <2>1 DEF leveled_dijkstra_create, SetupInv, Place, Level
    <3>4. QED
      BY <3>1, <3>2, <3>3
  <2>2. CASE setup
    <3>1. src' = src /\ rts' = rts /\ pc' \in {"compute", "assert_len"} /\ pc = "setup"
      BY <2>2 DEF setup
    <3>2. TablesInv'
      BY <1>1, <1>2, <3>1, KeepTables
    <3>3. QED
      BY <1>2, <2>2, <3>1, <3>2, SetupStep
  <2>3. CASE compute
    <3>1. src' = src /\ rts' = rts /\ pc = "compute"
      BY <2>3 DEF compute
    <3>2. TablesInv'
      BY <1>1, <1>2, <3>1, KeepTables
    <3>3. QED
      BY <1>2, <2>3, <3>1, <3>2, ComputeStep
  <2>4. CASE calc_rt
    <3>1. pc' \in {"exit", "table"} /\ pc = "compute" /\ Unreached = {} /\ src' = src
      BY <2>4 DEF calc_rt
    <3>2. TablesInv'
      BY <1>2, <2>4, <3>1, TableStep
    <3>3. CASE pc' = "exit"
      <4>1. Unreachable # {} /\ UNCHANGED <<dist, prev, reached>>
        BY <2>4, <3>3 DEF calc_rt
      <4>2. ComputeInv' = ComputeInv /\ Unreached' = Unreached /\ Unreachable' = Unreachable
        BY <1>1, <3>1, <4>1, KeepCompute
      <4>3. QED
        BY <1>2, <3>1, <3>2, <3>3, <4>1, <4>2
    <3>4. CASE pc' = "table"
      <4>1. Unreachable = {} /\ rts' = [rts EXCEPT ![src] = [d \in Node \ {src} |-> EntryFor(d)]]
        BY <2>4, <3>4 DEF calc_rt
      <4>2. \A d \in Node \ {src} : rts'[src][d] = EntryFor(d)
        BY <1>2, <4>1 DEF TablesInv
      <4>3. \A d \in Node \ {src} : BestEntry(d, EntryFor(d)) /\ WideEntry(EntryFor(d))
        BY <1>2, <3>1, <4>1, EntryBest DEF TablesInv
      <4>4. EntriesInv'
        <5>1. \A d, entry : /\ BestEntry(d, entry)' <=> BestEntry(d, entry)
                            /\ WideEntry(entry)' <=> WideEntry(entry)
          BY <1>1, <3>1, KeepEntries
        <5>2. \A d \in Node \ {src} : \A entry : entry = rts'[src][d] => BestEntry(d, entry) /\ WideEntry(entry)
          BY <4>2, <4>3
        <5>3. QED
          BY <3>1, <5>1, <5>2 DEF EntriesInv
      <4>5. QED
        BY <3>1, <3>2, <3>4, <4>4
    <3>5. QED
      BY <3>1, <3>3, <3>4
  <2>5. QED
    BY <2>1, <2>2, <2>3, <2>4 DEF DijkstraNext
<1>6. IdleInv'
  BY <1>2, KeepIdle DEF bfsvars
<1>7. StepsInv'
  BY <1>1, <1>5, <1>6 DEF StepsInv
<1>8. OutcomeInv'
  BY <1>1, <1>2, <1>5, KeepLevels, KeepFit DEF OutcomeInv
<1>9. QED
  BY <1>3, <1>4, <1>5, <1>7, <1>8 DEF Inv

LEMMA StutterInv ==
  ASSUME Inv, UNCHANGED vars
  PROVE  Inv'
<1>1. /\ UNCHANGED <<rttype, conns, lev, level, pc, pool, remain, parent, height>>
      /\ UNCHANGED <<todo, ids, depths, idc, avgdist, roots, node_queue, visited, link_labeled>>
      /\ UNCHANGED <<src, dist, prev, reached, rts>>
  BY DEF vars, graph, levelvars, treevars, updownvars, bfsvars, searchvars, dijkvars
<1>2. Link' = Link /\ (\A l : At(l)' = At(l)) /\ At(level)' = At(level) /\ Place' = Place
  BY <1>1 DEF Link, At, Place, Level
<1>3. GraphInv' /\ KindInv'
  BY <1>1, <1>2 DEF Inv, GraphInv, KindInv, Unlevelled, Both, NoMap
<1>4. TablesInv'
  BY <1>1, KeepTables DEF Inv
<1>5. TreesInv' = TreesInv /\ UpDownInv' = UpDownInv
  BY <1>1, <1>2 DEF TreesInv, LowerSound, Both, UpDownInv
<1>6. SearchInv' = SearchInv /\ IdleInv' = IdleInv
  BY <1>1, <1>2 DEF SearchInv, LowerSound, Both, IdleInv
<1>7. SetupInv' = SetupInv
  BY <1>1, <1>2 DEF SetupInv
<1>8. /\ ComputeInv' = ComputeInv /\ Unreached' = Unreached /\ Unreachable' = Unreachable
      /\ EntriesInv' = EntriesInv
  <2>1. ComputeInv' = ComputeInv /\ Unreached' = Unreached /\ Unreachable' = Unreachable
    BY <1>1, KeepCompute DEF graph
  <2>2. \A d, entry : /\ BestEntry(d, entry)' <=> BestEntry(d, entry)
                      /\ WideEntry(entry)' <=> WideEntry(entry)
    BY <1>1, KeepEntries DEF graph
  <2>3. EntriesInv' = EntriesInv
    BY <1>1, <2>2 DEF EntriesInv
  <2>4. QED
    BY <2>1, <2>3
<1>9. StepsInv'
  BY <1>1, <1>5, <1>6, <1>7, <1>8 DEF Inv, StepsInv
<1>10. OutcomeInv'
  BY <1>1, KeepLevels, KeepFit DEF Inv, OutcomeInv, Proper, AllTables, NoMap, NoTable, graph
<1>11. QED
  BY <1>3, <1>4, <1>9, <1>10 DEF Inv

(***************************************************************************)
(* Every state of gxp_router_run satisfies the invariant.                  *)
(***************************************************************************)
THEOREM Invariance == Spec => []Inv
<1>1. Init => Inv
  BY InitInv
<1>2. Inv /\ [Next]_vars => Inv'
  <2>. SUFFICES ASSUME Inv, [Next]_vars
                PROVE  Inv'
    OBVIOUS
  <2>1. CASE Start
    BY <2>1, StartInv
  <2>2. CASE ExchangeDistances \/ NextTable \/ Finish
    BY <2>2, RouterInv
  <2>3. CASE TreesNext /\ UNCHANGED <<updownvars, bfsvars, dijkvars, rts>>
    BY <2>3, SpanningInv
  <2>4. CASE UpDownNext /\ UNCHANGED <<treevars, bfsvars, dijkvars, rts>>
    BY <2>4, NumberingInv
  <2>5. CASE BfsNext /\ UNCHANGED <<treevars, updownvars, dijkvars, rts>>
    BY <2>5, SearchingInv
  <2>6. CASE DijkstraNext /\ UNCHANGED <<treevars, updownvars, bfsvars>>
    BY <2>6, DijkstraInv
  <2>7. CASE UNCHANGED vars
    BY <2>7, StutterInv
  <2>8. QED
    BY <2>1, <2>2, <2>3, <2>4, <2>5, <2>6, <2>7 DEF Next
<1>3. QED
  BY <1>1, <1>2, PTL DEF Spec

(***************************************************************************)
(* The channels that chunks take after each other on the routes of all     *)
(* pairs of nodes form no circle, with every router but DEADLOCK: what the *)
(* pipeline needs to be free of deadlock.                                  *)
(***************************************************************************)
THEOREM RoutesCannotDeadlock == Spec => []AcyclicRoutes
<1>1. Inv => AcyclicRoutes
  <2>1. SUFFICES ASSUME Inv, pc = "done", rttype # "DEADLOCK"
                 PROVE  AcyclicRoutes
    BY DEF AcyclicRoutes
  <2>2. LevelsSound /\ AllTables
    BY <2>1 DEF Inv, OutcomeInv, Levelled, Proper
  <2>3. QED
    BY <2>1, <2>2, RoutesAcyclic DEF Inv
<1>2. QED
  BY <1>1, Invariance, PTL

(***************************************************************************)
(* Whatever nodes look up, with any router, leads a chunk over links to    *)
(* its destination.                                                        *)
(***************************************************************************)
THEOREM RoutesLead == Spec => []ChunksArrive
<1>1. Inv => ChunksArrive
  <2>1. SUFFICES ASSUME Inv, pc = "done"
                 PROVE  ChunksArrive
    BY DEF ChunksArrive
  <2>2. QED
    BY <2>1, RoutesArrive DEF Inv, OutcomeInv
<1>2. QED
  BY <1>1, Invariance, PTL

(***************************************************************************)
(* Within no level that a router gives do turns follow each other in a     *)
(* circle: forests, up and down, and breadth-first trees alike.            *)
(***************************************************************************)
THEOREM LevelsTheorem == Spec => [](pc \in Levelled /\ Proper => LevelsAcyclic)
<1>1. Inv => (pc \in Levelled /\ Proper => LevelsAcyclic)
  BY SoundLevelsAcyclic DEF Inv, OutcomeInv
<1>2. QED
  BY <1>1, Invariance, PTL

(***************************************************************************)
(* Dijkstra's distances are those of the predecessors at every step, a     *)
(* higher level never makes a way longer, and the assertion that nothing   *)
(* extracted gets closer never fails.                                      *)
(***************************************************************************)
THEOREM DistancesTheorem == Spec => [](DistancesAddUp /\ AssertsHold)
<1>1. Inv => DistancesAddUp /\ AssertsHold
  BY DEF Inv, StepsInv, OutcomeInv, ComputeInv, LinkedPlaces, HigherNotFarther, DistancesAddUp, AssertsHold
<1>2. QED
  BY <1>1, Invariance, PTL

(***************************************************************************)
(* The table of every node holds, for each other node, a simple path over  *)
(* links of non-decreasing level that is as long as it says and than which *)
(* no other is shorter; and the process exits only when all paths to some  *)
(* node are too long.                                                      *)
(***************************************************************************)
LEMMA InvShortest ==
  ASSUME Inv
  PROVE  ShortestRoutes /\ ExitsWhenCutOff
<1>1. /\ GraphInv /\ src \in Node
      /\ pc = "table" => EntriesInv
      /\ pc = "exit" => ComputeInv /\ Unreached = {} /\ Unreachable # {} /\ LevelsFit
  BY DEF Inv, TablesInv, StepsInv, OutcomeInv, Levelled
<1>2. ShortestRoutes
  BY <1>1 DEF ShortestRoutes, EntriesInv, BestEntry
<1>3. ASSUME pc = "table", NEW d \in Node \ {src}
      PROVE  \E p \in Routes(d) : Length(p) < MAX_DIJKSTRA_DIST
  BY <1>1, <1>3 DEF EntriesInv, BestEntry
<1>4. ASSUME pc = "exit"
      PROVE  \E d \in Node \ {src} : \A p \in Routes(d) : Length(p) >= MAX_DIJKSTRA_DIST
  <2>1. PICK d \in Node \ {src} : \A l \in Level : dist[<<d, l>>] = MAX_DIJKSTRA_DIST
    BY <1>1, <1>4 DEF Unreachable
  <2>2. ASSUME NEW p \in Routes(d)
        PROVE  Length(p) >= MAX_DIJKSTRA_DIST
    <3>1. GoodPath(src, d, p) /\ Len(p) >= 2
      BY <1>1, RouteFacts
    <3>2. PICK l \in Level : dist[<<d, l>>] <= Length(p)
      BY <1>1, <1>4, <3>1, NoRouteShorter
    <3>3. \E sum : Sums(sum, p) /\ Length(p) = sum[Len(p)]
      BY <1>1, <1>4, <3>1, RouteLength DEF GoodPath, ComputeInv, ComputeTypes
    <3>4. Length(p) \in Nat
      BY <3>1, <3>3 DEF Sums, GoodPath
    <3>5. QED
      BY <2>1, <3>2, <3>4, DijkstraAssumption
  <2>3. QED
    BY <2>2
<1>5. QED
  BY <1>2, <1>3, <1>4 DEF ExitsWhenCutOff

(***************************************************************************)
(* A table that the search has finished holds a shortest path to every     *)
(* node, and the process exits only when there is no path that is short    *)
(* enough.                                                                 *)
(***************************************************************************)
THEOREM ShortestTheorem == Spec => [](ShortestRoutes /\ ExitsWhenCutOff)
<1>1. Inv => ShortestRoutes /\ ExitsWhenCutOff
  BY InvShortest
<1>2. QED
  BY <1>1, Invariance, PTL

(***************************************************************************)
(* The width of an entry is that of the narrowest link of its path, when   *)
(* no link is wider than MAX_DIJKSTRA_WIDTH: what calc_rt starts from.     *)
(***************************************************************************)
NarrowLinks ==
  \A t \in Types : \A g \in Graphs[t] : \A e \in DOMAIN g : g[e].width <= MAX_DIJKSTRA_WIDTH

LEMMA InvWidths ==
  ASSUME Inv, NarrowLinks
  PROVE  WidthOfPath
<1>1. SUFFICES ASSUME pc = "table", NEW d \in Node \ {src}
               PROVE  LET p  == rts[src][d].path
                          ws == {width(p[i], p[i + 1]) : i \in 1 .. Len(p) - 1}
                      IN  rts[src][d].width \in ws /\ \A w \in ws : rts[src][d].width <= w
  BY DEF WidthOfPath
<1>. DEFINE entry == rts[src][d]
            p == entry.path
            n == Len(p) - 1
            w(i) == width(p[i], p[i + 1])
<1>2. GraphInv /\ src \in Node /\ BestEntry(d, entry) /\ WideEntry(entry)
  BY <1>1 DEF Inv, TablesInv, StepsInv, EntriesInv
<1>. HIDE DEF entry
<1>3. /\ \A i \in 1 .. n : entry.width <= w(i) /\ w(i) \in Nat \ {0}
      /\ entry.width = MAX_DIJKSTRA_WIDTH \/ \E i \in 1 .. n : entry.width = w(i)
  BY <1>2 DEF WideEntry
<1>4. GoodPath(src, d, p) /\ n \in Nat /\ n >= 1
  <2>1. GoodPath(src, d, p) /\ Len(p) >= 2
    BY <1>2, RouteFacts DEF BestEntry
  <2>2. Len(p) \in Nat
    BY <2>1 DEF GoodPath
  <2>3. QED
    BY <2>1, <2>2
<1>5. w(1) <= MAX_DIJKSTRA_WIDTH
  <2>1. <<p[1], p[1 + 1]>> \in Both(Link)
    <3>1. IsRoute(p) /\ 1 \in 1 .. Len(p) - 1
      BY <1>4 DEF GoodPath
    <3>2. <<p[1], p[1 + 1]>> \in DOMAIN lev
      BY <3>1 DEF IsRoute, Hop
    <3>3. DOMAIN lev = Both(Link)
      BY <1>2 DEF GraphInv
    <3>4. QED
      BY <3>2, <3>3
  <2>2. PICK e \in Link : w(1) = conns[e].width
    BY <1>2, <2>1, WidthFacts
  <2>3. QED
    BY <1>2, <2>2 DEF NarrowLinks, GraphInv, Link
<1>6. 1 \in 1 .. n /\ MAX_DIJKSTRA_WIDTH \in Nat
  BY <1>4, DijkstraAssumption
<1>. HIDE DEF n
<1>7. entry.width = MAX_DIJKSTRA_WIDTH => entry.width = w(1)
  <2>. HIDE DEF w
  <2>1. w(1) \in Nat /\ entry.width <= w(1)
    BY <1>3, <1>6
  <2>2. QED
    BY <1>5, <1>6, <2>1
<1>8. \E i \in 1 .. n : entry.width = w(i)
  BY <1>3, <1>6, <1>7
<1>9. QED
  BY <1>3, <1>8 DEF n, entry

(***************************************************************************)
(* All that is to be said of the tables: they hold shortest paths and      *)
(* their widths, lead chunks to where they go, and the process exits only  *)
(* when there is no such path.                                             *)
(***************************************************************************)
THEOREM TablesTheorem ==
  ASSUME NarrowLinks
  PROVE  Spec => []TablesCorrect
<1>1. Inv => TablesCorrect
  <2>1. SUFFICES ASSUME Inv
                 PROVE  TablesCorrect
    OBVIOUS
  <2>2. ChunksArrive
    <3>1. SUFFICES ASSUME pc = "done"
                   PROVE  ChunksArrive
      BY DEF ChunksArrive
    <3>2. QED
      BY <2>1, <3>1, RoutesArrive DEF Inv, OutcomeInv
  <2>3. QED
    BY <2>1, <2>2, InvShortest, InvWidths DEF TablesCorrect
<1>2. QED
  BY <1>1, Invariance, PTL

-----------------------------------------------------------------------------
(***************************************************************************)
(* Routable, when there are two levels: first over those of level 0, then  *)
(* over those of level 1.                                                  *)
(***************************************************************************)
LEMMA TwoLevels ==
  ASSUME NEW E \in [Nat -> SUBSET Channel], NEW u \in Node
  PROVE  \E f \in [Nat -> SUBSET Node] :
           /\ f = [l \in Nat |-> IF l = 0 THEN {u} ELSE Reach(E[l - 1], f[l - 1])]
<1>. DEFINE r == [k \in Nat |-> k]
            p == [k \in Nat |-> k - 1]
            a == [k \in Nat |-> {u}]
            g == [z \in (SUBSET Node) \X Nat |-> IF z[2] = 0 THEN {u} ELSE Reach(E[z[2] - 1], z[1])]
<1>1. Descends(Nat, {0}, r, p)
  BY DEF Descends
<1>2. a \in [Nat -> SUBSET Node]
  OBVIOUS
<1>3. \A t \in SUBSET Node, y \in Nat : g[<<t, y>>] = IF y = 0 THEN {u} ELSE Reach(E[y - 1], t)
  OBVIOUS
<1>4. \A t \in SUBSET Node, y \in Nat : g[<<t, y>>] \in SUBSET Node
  <2>. SUFFICES ASSUME NEW t \in SUBSET Node, NEW y \in Nat, y # 0
                PROVE  Reach(E[y - 1], t) \in SUBSET Node
    BY <1>3
  <2>1. y - 1 \in Nat
    OBVIOUS
  <2>2. E[y - 1] \in SUBSET Channel
    BY <2>1
  <2>3. QED
    BY <2>2, ReachFacts
<1>5. PICK f \in [Nat -> SUBSET Node] : Recurs(f, Nat, {0}, p, a, g)
  <2>. HIDE DEF r, p, a, g
  <2>1. QED
    BY <1>1, <1>2, <1>4, Recursion
<1>6. \A k \in Nat : f[k] = IF k \in {0} THEN a[k] ELSE g[<<f[p[k]], k>>]
  <2>. HIDE DEF p, a, g
  <2>1. QED
    BY <1>5 DEF Recurs
<1>7. \A k \in Nat : k # 0 => p[k] = k - 1 /\ k - 1 \in Nat
  OBVIOUS
<1>8. \A k \in Nat : a[k] = {u}
  OBVIOUS
<1>. HIDE DEF p, a, g
<1>9. \A k \in Nat : k # 0 => f[k] = Reach(E[k - 1], f[k - 1])
  <2>. SUFFICES ASSUME NEW k \in Nat, k # 0
                PROVE  f[k] = Reach(E[k - 1], f[k - 1])
    OBVIOUS
  <2>1. f[k] = g[<<f[k - 1], k>>]
    BY <1>6, <1>7
  <2>2. f[k - 1] \in SUBSET Node
    BY <1>7
  <2>3. QED
    BY <1>3, <2>1, <2>2
<1>10. f[0] = {u}
  BY <1>6, <1>8
<1>11. \A k \in Nat : f[k] = IF k = 0 THEN {u} ELSE Reach(E[k - 1], f[k - 1])
  BY <1>9, <1>10
<1>12. f = [l \in Nat |-> IF l = 0 THEN {u} ELSE Reach(E[l - 1], f[l - 1])]
  BY <1>11
<1>13. QED
  BY <1>12

LEMMA RoutableTwo ==
  ASSUME GraphInv, level = 2, NEW u \in Node
  PROVE  Routable(u) = Reach(At(1), Reach(At(0), {u}))
<1>. DEFINE Over(f) == [l \in Nat |-> IF l = 0 THEN {u} ELSE Reach(At(l - 1), f[l - 1])]
            top == CHOOSE f : f = Over(f)
<1>1. PICK E \in [Nat -> SUBSET Channel] : \A l \in Nat : E[l] = At(l)
  <2>1. [l \in Nat |-> At(l)] \in [Nat -> SUBSET Channel]
    BY AtFacts
  <2>2. QED
    BY <2>1
<1>2. PICK f \in [Nat -> SUBSET Node] :
             f = [l \in Nat |-> IF l = 0 THEN {u} ELSE Reach(E[l - 1], f[l - 1])]
  BY TwoLevels
<1>3. f = Over(f)
  <2>1. \A l \in Nat : l # 0 => l - 1 \in Nat
    OBVIOUS
  <2>2. \A l \in Nat : l # 0 => E[l - 1] = At(l - 1)
    BY <1>1, <2>1
  <2>3. \A l \in Nat : f[l] = IF l = 0 THEN {u} ELSE Reach(At(l - 1), f[l - 1])
    BY <1>2, <2>2
  <2>4. QED
    BY <2>3
<1>4. top = Over(top)
  BY <1>3
<1>5. Routable(u) = top[2]
  BY DEF Routable
<1>. HIDE DEF top
<1>6. PICK g : g = Over(g) /\ g = top
  BY <1>4
<1>7. /\ g[0] = {u}
      /\ g[1] = Reach(At(0), g[0])
      /\ g[2] = Reach(At(1), g[1])
  <2>1. \A l \in Nat : g[l] = IF l = 0 THEN {u} ELSE Reach(At(l - 1), g[l - 1])
    BY <1>6
  <2>2. 0 \in Nat /\ 1 \in Nat /\ 2 \in Nat /\ 1 # 0 /\ 2 # 0 /\ 1 - 1 = 0 /\ 2 - 1 = 1
    OBVIOUS
  <2>3. g[0] = {u}
    BY <2>1, <2>2
  <2>4. g[1] = Reach(At(1 - 1), g[1 - 1])
    BY <2>1, <2>2, Zenon
  <2>5. g[2] = Reach(At(2 - 1), g[2 - 1])
    BY <2>1, <2>2, Zenon
  <2>6. QED
    BY <2>2, <2>3, <2>4, <2>5
<1>8. QED
  BY <1>5, <1>6, <1>7

-----------------------------------------------------------------------------
(***************************************************************************)
(* The numbering.  Every numbered node but the root has a numbered peer    *)
(* above it, and the peers of a numbered node are numbered, too, once the  *)
(* search has left it.                                                     *)
(***************************************************************************)
Numbered == {n \in Node : ids[n] # -1}

High(n) == IF rttype = "UPDOWN_DFS" THEN ids[n] ELSE depths[n]

OnTodo(n) == \E i \in DOMAIN todo : todo[i] = n

Numbering(root) ==
  /\ root \in Numbered /\ idc \in Nat
  /\ \A n \in Numbered : ids[n] < idc
  /\ \A n \in Numbered \ {root} : \E m \in Numbered : <<m, n>> \in Both(Link) /\ High(m) < High(n)
  /\ \A n \in Numbered : Peers(n) \subseteq Numbered \/ OnTodo(n)
  /\ \A i \in DOMAIN todo : todo[i] \in Numbered

(***************************************************************************)
(* The root can be reached from everywhere going up, and everything can be *)
(* reached from it going down.                                             *)
(***************************************************************************)
Centered ==
  \E root \in Node : \A n \in Node : root \in Reach(At(0), {n}) /\ n \in Reach(At(1), {root})

(***************************************************************************)
(* Up and down levels: what holds of the numbering while the search goes   *)
(* on, and of the levels that are assigned from it.                        *)
(***************************************************************************)
RoutableInv ==
  /\ pc \in {"visit", "assign"} => \E root \in Node : Numbering(root)
  /\ pc = "assign" => todo = <<>>
  /\ pc = "assert_ids" => ~Connected
  /\ pc \in Levelled /\ rttype \in UpDownTypes => level = 2 /\ (Connected => Centered)

(***************************************************************************)
(* Peers are joined by a channel, in the order the numbering asks for.     *)
(***************************************************************************)
LEMMA PeerLinks ==
  ASSUME GraphInv, NEW n, NEW m
  PROVE  m \in Peers(n) <=> <<n, m>> \in Both(Link)
<1>1. \A c \in Both(Link) : c = <<c[1], c[2]>>
  BY LinkFacts, GraphFacts DEF Channel
<1>2. QED
  BY <1>1 DEF Peers

(***************************************************************************)
(* The search begins with the root alone.                                  *)
(***************************************************************************)
LEMMA RootNumbered ==
  ASSUME GraphInv, UpDownInv, ChooseRoot
  PROVE  \E root \in Node : Numbering(root)'
<1>1. PICK root \in Node : todo' = <<root>> /\ ids' = [NoIds EXCEPT ![root] = 0] /\ idc' = 1
  BY DEF ChooseRoot
<1>2. ids'[root] = 0 /\ \A n \in Node : n # root => ids'[n] = -1
  BY <1>1 DEF NoIds
<1>3. Numbered' = {root}
  BY <1>2 DEF Numbered
<1>4. DOMAIN todo' = {1} /\ todo'[1] = root
  BY <1>1
<1>5. QED
  BY <1>1, <1>2, <1>3, <1>4 DEF Numbering, OnTodo

(***************************************************************************)
(* Breadth-first: the peers of the first node of the queue get numbers and *)
(* the next depth.                                                         *)
(***************************************************************************)
LEMMA BfsNumbered ==
  ASSUME GraphInv, UpDownInv, BfsVisit, NEW root \in Node, Numbering(root)
  PROVE  Numbering(root)'
<1>. DEFINE node == Head(todo)
            new == {n \in Peers(node) : ids[n] = -1}
<1>1. PICK order \in Arrangements(new) :
        /\ ids' = [n \in Node |-> IF n \in new THEN idc - 1 + CHOOSE i \in DOMAIN order : order[i] = n
                                  ELSE ids[n]]
        /\ depths' = [n \in Node |-> IF n \in new THEN depths[node] + 1 ELSE depths[n]]
        /\ idc' = idc + Cardinality(new)
        /\ todo' = Tail(todo) \o order
        /\ todo # <<>> /\ rttype = "UPDOWN_BFS" /\ UNCHANGED graph
  BY DEF BfsVisit
<1>2. new \subseteq Node /\ IsFiniteSet(new)
  BY PeersAreNodes, NodeAssumption, FS_Subset
<1>3. PICK s \in Seq(Node) : s = todo /\ s # <<>>
  BY <1>1 DEF UpDownInv
<1>4. /\ node = s[1] /\ node \in Node /\ 1 \in DOMAIN todo
      /\ Tail(s) \in Seq(Node) /\ Len(s) \in Nat \ {0} /\ Len(Tail(s)) = Len(s) - 1
      /\ \A i \in 1 .. Len(s) - 1 : Tail(s)[i] = s[i + 1]
  BY <1>3
<1>5. node \in Numbered
  BY <1>3, <1>4 DEF Numbering
<1>. HIDE DEF new, node
<1>6. /\ order \in Seq(new) /\ DOMAIN order = 1 .. Cardinality(new) /\ Cardinality(new) \in Nat
      /\ \A x \in new : \E i \in DOMAIN order : order[i] = x
  BY <1>2, ArrangementFacts
<1>7. \A n \in new : /\ ids'[n] \in Nat /\ ids'[n] < idc'
                     /\ depths'[n] = depths[node] + 1
  <2>. SUFFICES ASSUME NEW n \in new
                PROVE  ids'[n] \in Nat /\ ids'[n] < idc' /\ depths'[n] = depths[node] + 1
    OBVIOUS
  <2>1. PICK i : i = CHOOSE j \in DOMAIN order : order[j] = n
    OBVIOUS
  <2>2. i \in DOMAIN order
    BY <1>6, <2>1
  <2>3. ids'[n] = idc - 1 + i
    BY <1>1, <1>2, <2>1
  <2>4. idc \in Nat /\ i \in 1 .. Cardinality(new)
    BY <1>6, <2>2 DEF Numbering
  <2>5. idc - 1 + i \in Nat /\ idc - 1 + i < idc + Cardinality(new)
    BY <2>4, <1>6
  <2>6. QED
    BY <2>3, <2>5, <1>1, <1>2
<1>8. \A n \in Node : n \notin new => ids'[n] = ids[n] /\ depths'[n] = depths[n]
  BY <1>1
<1>9. Numbered' = Numbered \cup new /\ \A n \in new : n \notin Numbered
  <2>1. \A n \in new : ids'[n] # -1 /\ ids[n] = -1
    BY <1>7 DEF new
  <2>2. QED
    BY <2>1, <1>2, <1>8 DEF Numbered
<1>10. \A n \in Numbered' : ids'[n] < idc'
  <2>1. \A n \in Numbered : ids[n] < idc /\ ids[n] \in Int /\ n \in Node
    BY DEF Numbering, Numbered, UpDownInv
  <2>2. idc \in Nat /\ idc' \in Nat /\ idc <= idc'
    BY <1>1, <1>6 DEF Numbering
  <2>3. \A n \in Numbered : ids'[n] < idc'
    BY <2>1, <2>2, <1>8, <1>9
  <2>4. QED
    BY <2>3, <1>7, <1>9
<1>11. \A n \in Numbered' \ {root} :
         \E m \in Numbered' : <<m, n>> \in Both(Link) /\ depths'[m] < depths'[n]
  <2>1. CASE rttype = "UPDOWN_DFS"
    BY <2>1, <1>1
  <2>2. ASSUME NEW n \in Numbered \ {root}
        PROVE  \E m \in Numbered' : <<m, n>> \in Both(Link) /\ depths'[m] < depths'[n]
    <3>1. PICK m \in Numbered : <<m, n>> \in Both(Link) /\ High(m) < High(n)
      BY DEF Numbering
    <3>2. depths'[m] = depths[m] /\ depths'[n] = depths[n] /\ depths[m] < depths[n]
      BY <3>1, <1>1, <1>8, <1>9 DEF Numbered, High
    <3>3. QED
      BY <3>1, <3>2, <1>9
  <2>3. ASSUME NEW n \in new
        PROVE  \E m \in Numbered' : <<m, n>> \in Both(Link) /\ depths'[m] < depths'[n]
    <3>1. <<node, n>> \in Both(Link)
      BY PeerLinks DEF new
    <3>2. depths'[node] = depths[node] /\ depths[node] \in Int
      BY <1>4, <1>5, <1>8, <1>9, SMTT(30) DEF UpDownInv
    <3>3. depths'[node] < depths'[n]
      BY <3>2, <1>7
    <3>4. QED
      BY <3>1, <3>3, <1>5, <1>9
  <2>4. QED
    BY <2>2, <2>3, <1>9
<1>12. PICK q \in Seq(Node) : q = Tail(s) /\ Len(q) = Len(s) - 1
  BY <1>4
<1>13. /\ order \in Seq(Node) /\ todo' = q \o order /\ DOMAIN todo' = 1 .. Len(q) + Len(order)
       /\ \A i \in 1 .. Len(q) : todo'[i] = q[i]
       /\ \A i \in 1 .. Len(order) : todo'[Len(q) + i] = order[i]
       /\ Len(order) \in Nat /\ Len(q) \in Nat
  <2>1. order \in Seq(Node)
    BY <1>2, <1>6, SeqMonotonic
  <2>2. todo' = q \o order
    BY <1>1, <1>3, <1>12
  <2>3. QED
    BY <2>1, <2>2
<1>14. \A i \in DOMAIN s : s[i] # node => \E j \in DOMAIN todo' : todo'[j] = s[i]
  <2>. SUFFICES ASSUME NEW i \in DOMAIN s, s[i] # node
                PROVE  \E j \in DOMAIN todo' : todo'[j] = s[i]
    OBVIOUS
  <2>1. i \in 1 .. Len(s) /\ i # 1
    BY <1>4
  <2>2. i - 1 \in 1 .. Len(s) - 1 /\ (i - 1) + 1 = i
    BY <2>1, <1>4
  <2>3. i - 1 \in 1 .. Len(q) /\ q[i - 1] = s[i]
    BY <2>2, <1>4, <1>12
  <2>4. i - 1 \in 1 .. Len(q) + Len(order)
    BY <2>3, <1>13
  <2>5. QED
    BY <2>3, <2>4, <1>13
<1>15. \A j \in DOMAIN todo' : (\E i \in DOMAIN s : todo'[j] = s[i]) \/ todo'[j] \in new
  <2>. SUFFICES ASSUME NEW j \in 1 .. Len(q) + Len(order)
                PROVE  (\E i \in DOMAIN s : todo'[j] = s[i]) \/ todo'[j] \in new
    BY <1>13
  <2>1. CASE j <= Len(q)
    <3>1. j \in 1 .. Len(s) - 1 /\ j \in 1 .. Len(q)
      BY <2>1, <1>12, <1>13
    <3>2. todo'[j] = s[j + 1] /\ j + 1 \in 1 .. Len(s)
      BY <3>1, <1>4, <1>12, <1>13
    <3>3. QED
      BY <3>2
  <2>2. CASE ~ (j <= Len(q))
    <3>1. PICK i \in 1 .. Len(order) : j = Len(q) + i
      <4>1. j - Len(q) \in 1 .. Len(order) /\ j = Len(q) + (j - Len(q))
        BY <2>2, <1>13
      <4>2. QED
        BY <4>1
    <3>2. todo'[j] = order[i] /\ order[i] \in new
      BY <3>1, <1>6, <1>13
    <3>3. QED
      BY <3>2
  <2>3. QED
    BY <2>1, <2>2
<1>16. Link' = Link /\ rttype' = rttype /\ Both(Link)' = Both(Link) /\ \A n : Peers(n)' = Peers(n)
  BY <1>1 DEF graph, Link, Peers, Both
<1>17. \A n \in Numbered' : Peers(n)' \subseteq Numbered' \/ OnTodo(n)'
  <2>1. ASSUME NEW n \in new
        PROVE  OnTodo(n)'
    <3>1. PICK i \in 1 .. Len(order) : order[i] = n
      BY <1>6
    <3>2. Len(q) + i \in 1 .. Len(q) + Len(order) /\ todo'[Len(q) + i] = n
      BY <3>1, <1>13
    <3>3. QED
      BY <3>2, <1>13 DEF OnTodo
  <2>2. Peers(node) \subseteq Numbered'
    BY <1>9, PeersAreNodes DEF new, Numbered
  <2>3. ASSUME NEW n \in Numbered, n # node
        PROVE  Peers(n) \subseteq Numbered' \/ OnTodo(n)'
    <3>1. Peers(n) \subseteq Numbered \/ \E i \in DOMAIN s : s[i] = n
      BY <1>3 DEF Numbering, OnTodo
    <3>2. QED
      BY <3>1, <2>3, <1>9, <1>14 DEF OnTodo
  <2>4. QED
    BY <2>1, <2>2, <2>3, <1>9, <1>16
<1>18. \A j \in DOMAIN todo' : todo'[j] \in Numbered'
  BY <1>3, <1>9, <1>15 DEF Numbering
<1>19. \A n : High(n)' = depths'[n]
  BY <1>1, <1>16 DEF High
<1>20. root \in Numbered' /\ idc' \in Nat
  BY <1>1, <1>6, <1>9 DEF Numbering
<1>21. QED
  BY <1>10, <1>11, <1>16, <1>17, <1>18, <1>19, <1>20 DEF Numbering

(***************************************************************************)
(* Depth-first: the next number is larger than all before.                 *)
(***************************************************************************)
LEMMA DfsNumbered ==
  ASSUME GraphInv, UpDownInv, DfsVisit, NEW root \in Node, Numbering(root)
  PROVE  Numbering(root)'
<1>. DEFINE node == todo[Len(todo)]
            new == {n \in Peers(node) : ids[n] = -1}
<1>1. PICK s \in Seq(Node) : s = todo /\ s # <<>>
  BY DEF DfsVisit, UpDownInv
<1>2. /\ rttype = "UPDOWN_DFS" /\ UNCHANGED <<graph, depths>>
      /\ \/ new = {} /\ todo' = SubSeq(todo, 1, Len(todo) - 1) /\ UNCHANGED <<ids, idc>>
         \/ \E peer \in Nearest(node, new) : DfsNumber(node, peer, new) /\ todo' = Append(todo, peer)
  BY DEF DfsVisit
<1>3. Len(s) \in Nat \ {0} /\ Len(s) \in DOMAIN todo /\ node = s[Len(s)] /\ node \in Numbered
  BY <1>1 DEF Numbering
<1>. HIDE DEF new
<1>4. Link' = Link /\ rttype' = rttype /\ Both(Link)' = Both(Link) /\ \A n : Peers(n)' = Peers(n)
  BY <1>2 DEF graph, Link, Peers, Both
<1>5. \A n : High(n) = ids[n] /\ High(n)' = ids'[n]
  BY <1>2, <1>4 DEF High
<1>6. CASE new = {} /\ todo' = SubSeq(todo, 1, Len(todo) - 1) /\ UNCHANGED <<ids, idc>>
  <2>1. /\ DOMAIN todo' = 1 .. Len(s) - 1
        /\ \A i \in 1 .. Len(s) - 1 : todo'[i] = s[i]
    BY <1>1, <1>3, <1>6
  <2>2. Numbered' = Numbered
    BY <1>6 DEF Numbered
  <2>3. Peers(node) \subseteq Numbered
    BY <1>6, PeersAreNodes DEF new, Numbered
  <2>4. ASSUME NEW n \in Numbered, n # node
        PROVE  Peers(n) \subseteq Numbered \/ OnTodo(n)'
    <3>1. CASE Peers(n) \subseteq Numbered
      BY <3>1
    <3>2. CASE ~ (Peers(n) \subseteq Numbered)
      <4>1. PICK i \in 1 .. Len(s) : s[i] = n
        BY <3>2, <1>1 DEF Numbering, OnTodo
      <4>2. i # Len(s)
        BY <4>1, <2>4, <1>3
      <4>3. i \in 1 .. Len(s) - 1
        BY <4>2, <1>3
      <4>4. QED
        BY <4>1, <4>3, <2>1 DEF OnTodo
    <3>3. QED
      BY <3>1, <3>2
  <2>5. \A i \in DOMAIN todo' : i \in DOMAIN s /\ todo'[i] = s[i]
    BY <2>1, <1>3
  <2>6. \A i \in DOMAIN todo' : todo'[i] \in Numbered
    BY <2>5, <1>1 DEF Numbering
  <2>7. \A n \in Numbered : Peers(n) \subseteq Numbered \/ OnTodo(n)'
    BY <2>3, <2>4
  <2>8. QED
    BY <2>2, <2>6, <2>7, <1>4, <1>5, <1>6 DEF Numbering
<1>7. ASSUME NEW peer \in Nearest(node, new), DfsNumber(node, peer, new), todo' = Append(todo, peer)
      PROVE  Numbering(root)'
  <2>1. peer \in Node /\ peer \in Peers(node) /\ ids[peer] = -1
    BY PeersAreNodes DEF Nearest, new
  <2>2. ids' = [ids EXCEPT ![peer] = idc] /\ idc' = idc + 1 /\ idc \in Nat
    BY <1>7 DEF DfsNumber, Numbering
  <2>3. ids'[peer] = idc /\ \A n \in Node : n # peer => ids'[n] = ids[n]
    BY <2>1, <2>2 DEF UpDownInv
  <2>4. Numbered' = Numbered \cup {peer} /\ peer \notin Numbered
    BY <2>1, <2>2, <2>3 DEF Numbered
  <2>5. \A n \in Numbered : ids'[n] = ids[n] /\ ids[n] < idc /\ ids[n] \in Int
    BY <2>3, <2>4 DEF Numbering, Numbered, UpDownInv
  <2>6. \A n \in Numbered' : ids'[n] < idc'
    BY <2>2, <2>3, <2>4, <2>5
  <2>7. \A n \in Numbered' \ {root} :
          \E m \in Numbered' : <<m, n>> \in Both(Link) /\ ids'[m] < ids'[n]
    <3>1. ASSUME NEW n \in Numbered \ {root}
          PROVE  \E m \in Numbered' : <<m, n>> \in Both(Link) /\ ids'[m] < ids'[n]
      <4>1. PICK m \in Numbered : <<m, n>> \in Both(Link) /\ ids[m] < ids[n]
        BY <1>5 DEF Numbering
      <4>2. QED
        BY <4>1, <2>4, <2>5
    <3>2. <<node, peer>> \in Both(Link) /\ ids'[node] < ids'[peer]
      BY <2>1, <2>3, <2>5, <1>3, PeerLinks
    <3>3. QED
      BY <3>1, <3>2, <2>4, <1>3
  <2>8. /\ DOMAIN todo' = 1 .. Len(s) + 1
        /\ \A i \in 1 .. Len(s) : todo'[i] = s[i]
        /\ todo'[Len(s) + 1] = peer
    BY <1>1, <1>7, <2>1
  <2>9. \A n \in Numbered' : Peers(n) \subseteq Numbered' \/ OnTodo(n)'
    <3>1. OnTodo(peer)'
      BY <2>8, <1>3 DEF OnTodo
    <3>2. ASSUME NEW n \in Numbered
          PROVE  Peers(n) \subseteq Numbered \/ OnTodo(n)'
      <4>1. CASE Peers(n) \subseteq Numbered
        BY <4>1
      <4>2. CASE ~ (Peers(n) \subseteq Numbered)
        <5>1. PICK i \in 1 .. Len(s) : s[i] = n
          BY <4>2, <1>1 DEF Numbering, OnTodo
        <5>2. i \in 1 .. Len(s) + 1
          BY <1>3
        <5>3. QED
          BY <5>1, <5>2, <2>8 DEF OnTodo
      <4>3. QED
        BY <4>1, <4>2
    <3>3. QED
      BY <3>1, <3>2, <2>4
  <2>10. \A i \in DOMAIN todo' : todo'[i] \in Numbered'
    <3>1. \A i \in 1 .. Len(s) + 1 : i \in 1 .. Len(s) \/ i = Len(s) + 1
      BY <1>3
    <3>2. \A i \in 1 .. Len(s) : s[i] \in Numbered
      BY <1>1 DEF Numbering
    <3>3. QED
      BY <3>1, <3>2, <2>4, <2>8
  <2>11. root \in Numbered' /\ idc' \in Nat
    BY <2>2, <2>4 DEF Numbering
  <2>12. QED
    BY <2>6, <2>7, <2>9, <2>10, <2>11, <1>4, <1>5 DEF Numbering
<1>8. QED
  BY <1>2, <1>6, <1>7

(***************************************************************************)
(* When the search is over, what it has numbered is all that the root is   *)
(* connected with.                                                         *)
(***************************************************************************)
LEMMA AllNumbered ==
  ASSUME GraphInv, NEW root \in Node, Numbering(root), todo = <<>>
  PROVE  Connected => Numbered = Node
<1>1. PICK S : S = Numbered
  OBVIOUS
<1>2. PICK E \in SUBSET Channel : E = Both(Link)
  BY LinkFacts, GraphFacts
<1>3. {root} \subseteq S /\ S \subseteq Node
  BY <1>1 DEF Numbering, Numbered
<1>4. \A n : ~ OnTodo(n)
  BY DEF OnTodo
<1>5. \A n \in S : Peers(n) \subseteq S
  BY <1>1, <1>4 DEF Numbering
<1>6. Closed(E, S)
  BY <1>2, <1>5 DEF Closed, Peers
<1>7. Reach(E, {root}) \subseteq S
  BY <1>3, <1>6, ReachFacts
<1>8. Connected => Reach(E, {root}) = Node
  BY <1>2 DEF Connected
<1>9. QED
  BY <1>1, <1>3, <1>7, <1>8

(***************************************************************************)
(* Every node but the root has a peer above it, so the highest node that   *)
(* could not be reached going down from the root would be below one that   *)
(* can; going up is the same way back.                                     *)
(***************************************************************************)
LEMMA AssignCentered ==
  ASSUME GraphInv, UpDownInv, Assign, Connected, NEW root \in Node, Numbering(root), todo = <<>>
  PROVE  Centered'
<1>1. lev' = [c \in Both(Link) |-> LinkLevel(c)]
  BY DEF Assign
<1>2. PICK U \in SUBSET Channel, D \in SUBSET Channel : U = At(0)' /\ D = At(1)'
  <2>1. Both(Link) \subseteq Channel
    BY LinkFacts, GraphFacts
  <2>2. At(0)' \subseteq Channel /\ At(1)' \subseteq Channel
    BY <2>1, <1>1 DEF At
  <2>3. QED
    BY <2>2
<1>3. /\ \A c \in U : c \in Both(Link) /\ LinkLevel(c) = 0
      /\ \A c \in D : c \in Both(Link) /\ LinkLevel(c) = 1
      /\ \A c \in Both(Link) : LinkLevel(c) = 0 => c \in U
      /\ \A c \in Both(Link) : LinkLevel(c) = 1 => c \in D
  BY <1>1, <1>2 DEF At
<1>4. PICK h \in [Node -> Int], i \in [Node -> Int] :
        /\ \A n \in Node : h[n] = High(n) /\ i[n] = ids[n]
        /\ \A m, n \in Node : Above(m, n) <=> h[m] < h[n] \/ (h[m] = h[n] /\ i[m] < i[n])
  <2>. DEFINE high == IF rttype = "UPDOWN_DFS" THEN ids ELSE depths
  <2>1. high \in [Node -> Int] /\ ids \in [Node -> Int]
    BY DEF UpDownInv
  <2>2. \A n \in Node : high[n] = High(n)
    BY DEF High
  <2>3. \A m, n \in Node : Above(m, n) <=> high[m] < high[n] \/ (high[m] = high[n] /\ ids[m] < ids[n])
    <3>1. CASE rttype = "UPDOWN_DFS"
      BY <3>1, <2>1 DEF Above
    <3>2. CASE rttype # "UPDOWN_DFS"
      BY <3>2 DEF Above
    <3>3. QED
      BY <3>1, <3>2
  <2>. HIDE DEF high
  <2>4. QED
    BY <2>1, <2>2, <2>3
<1>5. \A m, n \in Node : Above(m, n) => ~ Above(n, m)
  BY <1>4
<1>6. \A c \in D : Back(c) \in U
  <2>. SUFFICES ASSUME NEW c \in D
                PROVE  Back(c) \in U
    OBVIOUS
  <2>1. /\ c \in Both(Link) /\ Back(c) \in Both(Link) /\ c[1] \in Node /\ c[2] \in Node
        /\ Above(c[1], c[2])
    BY <1>3, LinkFacts, GraphFacts DEF Channel, LinkLevel
  <2>2. Back(c)[1] = c[2] /\ Back(c)[2] = c[1]
    BY DEF Back
  <2>3. LinkLevel(Back(c)) = 0
    BY <2>1, <2>2, <1>5 DEF LinkLevel
  <2>4. QED
    BY <2>1, <2>3, <1>3
<1>7. \A n \in Node : n \in Reach(D, {root})
  <2>. DEFINE Bad == {n \in Node : n \notin Reach(D, {root})}
              f == [n \in Bad |-> 0 - h[n]]
  <2>. SUFFICES ASSUME Bad # {}
                PROVE  FALSE
    OBVIOUS
  <2>1. IsFiniteSet(Bad) /\ f \in [Bad -> Int]
    BY NodeAssumption, FS_Subset
  <2>2. PICK n \in Bad : \A m \in Bad : f[m] <= f[n]
    <3>. HIDE DEF Bad, f
    <3>1. QED
      BY <2>1, Greatest
  <2>3. \A m \in Bad : h[n] <= h[m]
    <3>. SUFFICES ASSUME NEW m \in Bad
                  PROVE  h[n] <= h[m]
      OBVIOUS
    <3>1. f[m] = 0 - h[m] /\ f[n] = 0 - h[n] /\ f[m] <= f[n]
      BY <2>2
    <3>2. h[m] \in Int /\ h[n] \in Int
      BY <1>4
    <3>3. QED
      BY <3>1, <3>2
  <2>4. {root} \subseteq Reach(D, {root}) /\ Closed(D, Reach(D, {root}))
    BY ReachFacts
  <2>5. n \in Numbered \ {root}
    BY <2>4, AllNumbered
  <2>6. PICK m \in Numbered : <<m, n>> \in Both(Link) /\ High(m) < High(n)
    BY <2>5 DEF Numbering
  <2>7. m \in Node /\ h[m] < h[n] /\ h[m] \in Int /\ h[n] \in Int
    BY <2>6, <1>4 DEF Numbered
  <2>8. m \in Reach(D, {root})
    <3>1. ~ (h[n] <= h[m])
      BY <2>7
    <3>2. m \notin Bad
      BY <2>3, <3>1
    <3>3. QED
      BY <2>7, <3>2
  <2>9. Above(m, n)
    BY <2>7, <1>4
  <2>10. LinkLevel(<<m, n>>) = 1
    BY <2>9 DEF LinkLevel
  <2>11. <<m, n>> \in D
    BY <2>6, <2>10, <1>3
  <2>12. n \in Reach(D, {root})
    BY <2>4, <2>8, <2>11 DEF Closed
  <2>13. QED
    BY <2>12
<1>8. \A n \in Node : root \in Reach(U, {n})
  BY <1>6, <1>7, ReachBack
<1>9. QED
  BY <1>2, <1>7, <1>8 DEF Centered

-----------------------------------------------------------------------------
(***************************************************************************)
(* Steps of the up and down search.                                        *)
(***************************************************************************)
LEMMA NumberingRoutable ==
  ASSUME Inv, RoutableInv, UpDownNext
  PROVE  RoutableInv'
<1>1. /\ GraphInv /\ KindInv /\ pc \in {"root", "visit", "assign"} /\ UpDownInv
      /\ UNCHANGED <<graph, level>> /\ level = 2
  BY DEF Inv, StepsInv, KindInv, UpDownNext, ChooseRoot, BfsVisit, BfsEnd, DfsVisit, DfsEnd, Assign
<1>2. rttype' = rttype /\ Connected' = Connected
  BY <1>1 DEF graph, Connected, Link, Both
<1>3. CASE ChooseRoot
  <2>1. pc' = "visit"
    BY <1>3 DEF ChooseRoot
  <2>2. QED
    BY <1>1, <1>3, <2>1, RootNumbered DEF RoutableInv, Levelled
<1>4. CASE BfsVisit \/ DfsVisit
  <2>1. pc = "visit" /\ pc' = "visit"
    BY <1>4 DEF BfsVisit, DfsVisit
  <2>2. PICK root \in Node : Numbering(root)
    BY <2>1 DEF RoutableInv
  <2>3. Numbering(root)'
    BY <1>1, <1>4, <2>2, BfsNumbered, DfsNumbered
  <2>4. QED
    BY <2>1, <2>3 DEF RoutableInv, Levelled
<1>5. CASE BfsEnd \/ DfsEnd
  <2>1. /\ pc = "visit" /\ todo = <<>> /\ UNCHANGED <<graph, updownvars>>
        /\ pc' = "assign" \/ pc' = "assert_ids"
        /\ pc' = "assert_ids" => \E n \in Node : ids[n] = -1
    BY <1>5 DEF BfsEnd, DfsEnd
  <2>2. PICK root \in Node : Numbering(root)
    BY <2>1 DEF RoutableInv
  <2>3. Numbering(root)'
    <3>1. UNCHANGED <<rttype, conns, todo, ids, depths, idc>>
      BY <2>1 DEF graph, updownvars
    <3>2. /\ Numbered' = Numbered /\ Both(Link)' = Both(Link)
          /\ \A n : High(n)' = High(n) /\ Peers(n)' = Peers(n) /\ OnTodo(n)' = OnTodo(n)
      BY <3>1 DEF Numbered, High, Peers, OnTodo, Link, Both
    <3>3. QED
      BY <2>2, <3>1, <3>2 DEF Numbering
  <2>4. pc' = "assert_ids" => ~Connected
    BY <1>1, <2>1, <2>2, AllNumbered DEF Numbered
  <2>5. todo' = <<>>
    BY <2>1 DEF updownvars
  <2>6. QED
    BY <1>2, <2>1, <2>3, <2>4, <2>5 DEF RoutableInv, Levelled
<1>6. CASE Assign
  <2>1. pc = "assign" /\ pc' = "labelled" /\ level' = 2
    BY <1>1, <1>6 DEF Assign
  <2>2. PICK root \in Node : Numbering(root)
    BY <2>1 DEF RoutableInv
  <2>3. Connected => Centered'
    BY <1>1, <1>6, <2>1, <2>2, AssignCentered DEF RoutableInv
  <2>4. QED
    BY <1>2, <2>1, <2>3 DEF RoutableInv
<1>7. QED
  BY <1>3, <1>4, <1>5, <1>6 DEF UpDownNext

(***************************************************************************)
(* Every step: levels stay as they were assigned.                          *)
(***************************************************************************)
LEMMA RoutableNext == Inv /\ RoutableInv /\ [Next]_vars => RoutableInv'
<1>. SUFFICES ASSUME Inv, RoutableInv, [Next]_vars
              PROVE  RoutableInv'
  OBVIOUS
<1>1. KindInv /\ rttype \in RouterTypes
  BY RouterAssumption DEF Inv, GraphInv
<1>2. CASE UpDownNext
  BY <1>2, NumberingRoutable
<1>3. ASSUME rttype' = rttype, rttype \notin UpDownTypes,
             pc' \notin {"visit", "assign", "assert_ids"}
      PROVE  RoutableInv'
  BY <1>3 DEF RoutableInv
<1>4. ASSUME UNCHANGED <<graph, lev, level>>, pc \in Levelled, pc' \notin {"visit", "assign", "assert_ids"}
      PROVE  RoutableInv'
  <2>1. UNCHANGED rttype /\ Connected' = Connected
    BY <1>4 DEF graph, Connected, Link, Both
  <2>2. Centered' = Centered
    BY <1>4 DEF Centered, At
  <2>3. QED
    BY <1>4, <2>1, <2>2 DEF RoutableInv
<1>5. CASE Start
  <2>1. /\ rttype' = rttype
        /\ pc' \in {"sort", "root", "labelled"}
        /\ pc' = "labelled" => rttype \notin UpDownTypes
    BY <1>5 DEF Start, MakeLinks, graph, UpDownTypes
  <2>2. QED
    BY <2>1 DEF RoutableInv, Levelled
<1>6. CASE ExchangeDistances \/ NextTable \/ Finish
  <2>1. /\ UNCHANGED <<graph, lev, level>> /\ pc \in Levelled
        /\ pc' \in {"sort_nodes", "labelled", "done"}
    BY <1>6 DEF ExchangeDistances, NextTable, Finish, levelvars, Levelled
  <2>2. QED
    BY <2>1, <1>4
<1>7. CASE TreesNext
  <2>1. rttype \in Ordered /\ rttype' = rttype /\ pc' \in {"choose", "labelled"}
    BY <1>1, <1>7 DEF KindInv, TreesNext, Sort, choose_sp_tree_links, NextTree, graph
  <2>2. QED
    BY <2>1, <1>3 DEF Ordered, UpDownTypes
<1>8. CASE BfsNext
  <2>1. rttype = "ORDERED_BFS" /\ rttype' = rttype /\ pc' \in {"search", "labelled"}
    BY <1>1, <1>8 DEF KindInv, BfsNext, router_bfs_node_sort, StartSearch,
                      router_graph_do_bfs_search, EndSearch, EndSearches, graph
  <2>2. QED
    BY <2>1, <1>3 DEF UpDownTypes
<1>9. CASE DijkstraNext
  <2>1. /\ UNCHANGED <<graph, lev, level>> /\ pc \in Levelled
        /\ pc' \notin {"visit", "assign", "assert_ids"}
    BY <1>9 DEF DijkstraNext, leveled_dijkstra_create, setup, compute, calc_rt, levelvars, Levelled
  <2>2. QED
    BY <2>1, <1>4
<1>10. CASE UNCHANGED vars
  <2>1. UNCHANGED <<rttype, conns, lev, level, pc, todo, ids, depths, idc>>
    BY <1>10 DEF vars, graph, levelvars, updownvars
  <2>2. /\ Numbered' = Numbered /\ Both(Link)' = Both(Link) /\ Connected' = Connected
        /\ \A n : High(n)' = High(n) /\ Peers(n)' = Peers(n) /\ OnTodo(n)' = OnTodo(n)
    BY <2>1 DEF Numbered, High, Peers, OnTodo, Link, Both, Connected
  <2>3. \A root : Numbering(root)' = Numbering(root)
    BY <2>1, <2>2 DEF Numbering
  <2>4. Centered' = Centered
    BY <2>1 DEF Centered, At
  <2>5. QED
    BY <2>1, <2>2, <2>3, <2>4 DEF RoutableInv
<1>11. QED
  BY <1>2, <1>5, <1>6, <1>7, <1>8, <1>9, <1>10 DEF Next

(***************************************************************************)
(* Up and down levels: no turns of one direction follow each other in a    *)
(* circle, any node can be reached from any other going up and then down   *)
(* if the graph is connected, and the assertion on the numbers fails only  *)
(* if it is not.                                                           *)
(***************************************************************************)
THEOREM UpDownTheorem == Spec => []UpDownLevels
<1>1. Init => RoutableInv
  BY DEF Init, RoutableInv, Levelled
<1>2. Inv /\ RoutableInv => UpDownLevels
  <2>. SUFFICES ASSUME Inv, RoutableInv
                PROVE  UpAndDownAcyclic /\ AllRoutable
    BY DEF UpDownLevels
  <2>1. UpAndDownAcyclic
    BY SoundLevelsAcyclic DEF UpAndDownAcyclic, UpDownTypes, Inv, OutcomeInv, Levelled, Proper
  <2>2. ASSUME rttype \in UpDownTypes, pc = "labelled", Connected, NEW n \in Node
        PROVE  Routable(n) = Node
    <3>1. level = 2 /\ Centered /\ GraphInv
      BY <2>2 DEF RoutableInv, Levelled, Inv
    <3>2. PICK U \in SUBSET Channel, D \in SUBSET Channel : U = At(0) /\ D = At(1)
      BY <3>1, AtFacts
    <3>3. PICK root \in Node : \A m \in Node : root \in Reach(U, {m}) /\ m \in Reach(D, {root})
      BY <3>1, <3>2 DEF Centered
    <3>4. PICK V \in SUBSET Node : V = Reach(U, {n})
      BY ReachFacts
    <3>5. root \in V /\ V \subseteq Reach(D, V) /\ Closed(D, Reach(D, V)) /\ Reach(D, V) \subseteq Node
      BY <3>3, <3>4, ReachFacts
    <3>6. Reach(D, {root}) \subseteq Reach(D, V)
      BY <3>5, ReachFacts
    <3>7. Reach(D, V) = Node
      BY <3>3, <3>5, <3>6
    <3>8. QED
      BY <3>1, <3>2, <3>4, <3>7, RoutableTwo
  <2>3. pc = "assert_ids" => ~Connected
    BY DEF RoutableInv
  <2>4. QED
    BY <2>1, <2>2, <2>3 DEF AllRoutable
<1>3. QED
  BY <1>1, <1>2, Invariance, RoutableNext, PTL DEF Spec

-----------------------------------------------------------------------------
(***************************************************************************)
(* Sorted links: each once, and none before a better one.                  *)
(***************************************************************************)
Among(s) == {s[i] : i \in DOMAIN s}

Distinct(s) == \A i, j \in DOMAIN s : s[i] = s[j] => i = j

Sorted(s) == \A i, j \in DOMAIN s : i < j => ~Better(s[j], s[i])

Order(s, E) == s \in Seq(Link) /\ Among(s) = E /\ Distinct(s) /\ Sorted(s)

(***************************************************************************)
(* A link that no other is better than comes before the others in order.   *)
(***************************************************************************)
LEMMA Prepended ==
  ASSUME NEW e \in Link, NEW E \in SUBSET Link, e \in E, NEW q, Order(q, E \ {e}),
         \A h \in E : ~Better(h, e)
  PROVE  Order(<<e>> \o q, E)
<1>1. PICK s : s = <<e>> \o q
  OBVIOUS
<1>2. <<e>> \in Seq(Link) /\ q \in Seq(Link) /\ Len(<<e>>) = 1 /\ Len(q) \in Nat
  BY DEF Order
<1>3. s \in Seq(Link) /\ Len(s) = 1 + Len(q)
  BY <1>1, <1>2, ConcatProperties
<1>4. s[1] = e /\ \A i \in 1 .. Len(q) : s[i + 1] = q[i]
  BY <1>1, <1>2
<1>5. DOMAIN s = 1 .. Len(q) + 1 /\ DOMAIN q = 1 .. Len(q)
  BY <1>2, <1>3
<1>6. \A i \in DOMAIN s : i # 1 => i - 1 \in DOMAIN q /\ s[i] = q[i - 1]
  <2>. SUFFICES ASSUME NEW i \in DOMAIN s, i # 1
                PROVE  i - 1 \in DOMAIN q /\ s[i] = q[i - 1]
    OBVIOUS
  <2>1. i - 1 \in 1 .. Len(q) /\ (i - 1) + 1 = i
    BY <1>2, <1>5
  <2>2. QED
    BY <1>4, <1>5, <2>1
<1>7. \A i \in DOMAIN q : q[i] \in E /\ q[i] # e
  BY DEF Order, Among
<1>8. Among(s) = E
  <2>1. ASSUME NEW i \in DOMAIN s
        PROVE  s[i] \in E
    BY <1>4, <1>6, <1>7
  <2>2. ASSUME NEW x \in E
        PROVE  \E i \in DOMAIN s : s[i] = x
    <3>1. CASE x = e
      <4>1. 1 \in DOMAIN s
        BY <1>2, <1>5
      <4>2. QED
        BY <1>4, <3>1, <4>1
    <3>2. CASE x # e
      <4>1. PICK i \in DOMAIN q : q[i] = x
        BY <3>2 DEF Order, Among
      <4>2. i + 1 \in DOMAIN s /\ s[i + 1] = x
        BY <1>2, <1>4, <1>5, <4>1
      <4>3. QED
        BY <4>2
    <3>3. QED
      BY <3>1, <3>2
  <2>3. QED
    BY <2>1, <2>2 DEF Among
<1>9. Distinct(s)
  <2>. SUFFICES ASSUME NEW i \in DOMAIN s, NEW j \in DOMAIN s, s[i] = s[j]
                PROVE  i = j
    BY DEF Distinct
  <2>1. CASE i = 1 \/ j = 1
    BY <1>4, <1>6, <1>7, <2>1
  <2>2. CASE i # 1 /\ j # 1
    <3>1. i - 1 = j - 1
      BY <1>6, <2>2 DEF Order, Distinct
    <3>2. i \in Int /\ j \in Int
      BY <1>2, <1>5
    <3>3. QED
      BY <3>1, <3>2
  <2>3. QED
    BY <2>1, <2>2
<1>10. Sorted(s)
  <2>. SUFFICES ASSUME NEW i \in DOMAIN s, NEW j \in DOMAIN s, i < j
                PROVE  ~Better(s[j], s[i])
    BY DEF Sorted
  <2>1. i \in 1 .. Len(q) + 1 /\ j \in 1 .. Len(q) + 1 /\ j # 1
    BY <1>2, <1>5
  <2>2. j - 1 \in DOMAIN q /\ s[j] = q[j - 1] /\ s[j] \in E
    BY <1>6, <1>7, <2>1
  <2>3. CASE i = 1
    BY <1>4, <2>2, <2>3
  <2>4. CASE i # 1
    <3>1. i - 1 \in DOMAIN q /\ s[i] = q[i - 1]
      BY <1>6, <2>4
    <3>2. i - 1 < j - 1
      BY <1>2, <2>1
    <3>3. ~Better(q[j - 1], q[i - 1])
      BY <2>2, <3>1, <3>2 DEF Order, Sorted
    <3>4. QED
      BY <2>2, <3>1, <3>3
  <2>5. QED
    BY <2>3, <2>4
<1>11. QED
  BY <1>1, <1>3, <1>8, <1>9, <1>10 DEF Order

(***************************************************************************)
(* Sort leaves the links sorted: a set of links with an order that is not  *)
(* has no fewer links than any other such set, hence is empty.             *)
(***************************************************************************)
LEMMA OrdersSorted ==
  ASSUME Link \subseteq Channel
  PROVE  \A s \in Orders : Order(s, Link)
<1>. DEFINE o == CHOOSE f : f = [E \in SUBSET Link |-> OrdersOf(f, E)]
            Good(D) == \A s \in o[D] : Order(s, D)
            Bad == {Cardinality(E) : E \in {D \in SUBSET Link : ~Good(D)}}
<1>1. o = [E \in SUBSET Link |-> OrdersOf(o, E)]
  BY OrdersRecurs
<1>2. Orders = o[Link]
  BY DEF Orders, OrdersOf
<1>. HIDE DEF o
<1>3. IsFiniteSet(Link)
  BY GraphFacts, FS_Subset
<1>4. Bad = {}
  <2>1. SUFFICES ASSUME Bad # {}
                 PROVE  FALSE
    OBVIOUS
  <2>2. PICK k \in Bad : \A j \in Bad : k <= j
    <3>1. Bad \in SUBSET Nat
      BY <1>3, FS_Subset, FS_CardinalityType
    <3>. HIDE DEF Bad
    <3>2. QED
      BY <2>1, <3>1, Least
  <2>3. PICK E \in SUBSET Link : Cardinality(E) = k /\ ~Good(E)
    BY <2>2
  <2>4. ASSUME NEW e \in E
        PROVE  Good(E \ {e})
    <3>1. IsFiniteSet(E) /\ Cardinality(E) \in Nat /\ Cardinality(E \ {e}) = Cardinality(E) - 1
      BY <1>3, FS_Subset, FS_CardinalityType, FS_RemoveElement
    <3>2. Cardinality(E \ {e}) \notin Bad
      <4>. HIDE DEF Bad
      <4>1. QED
        BY <2>2, <2>3, <3>1
    <3>. HIDE DEF Good
    <3>3. QED
      BY <3>2
  <2>5. PICK s \in o[E] : ~Order(s, E)
    BY <2>3
  <2>6. o[E] = OrdersOf(o, E)
    BY <1>1
  <2>7. CASE E = {}
    <3>1. s = <<>>
      BY <2>5, <2>6, <2>7 DEF OrdersOf
    <3>2. Order(s, E)
      BY <2>7, <3>1, EmptySeq DEF Order, Among, Distinct, Sorted
    <3>3. QED
      BY <2>5, <3>2
  <2>8. CASE E # {}
    <3>1. PICK e \in E : /\ \A h \in E : ~Better(h, e)
                         /\ \E q \in o[E \ {e}] : s = <<e>> \o q
      <4>. DEFINE First == {f \in E : \A h \in E : ~Better(h, f)}
                  StartingWith(e) == {<<e>> \o q : q \in o[E \ {e}]}
      <4>1. o[E] = UNION {StartingWith(e) : e \in First}
        BY <2>6, <2>8 DEF OrdersOf
      <4>2. PICK e \in First : s \in StartingWith(e)
        <5>. HIDE DEF First, StartingWith
        <5>1. QED
          BY <2>5, <4>1
      <4>3. e \in E /\ \A h \in E : ~Better(h, e)
        BY <4>2
      <4>4. \E q \in o[E \ {e}] : s = <<e>> \o q
        BY <4>2
      <4>5. QED
        BY <4>3, <4>4
    <3>2. PICK q \in o[E \ {e}] : s = <<e>> \o q
      BY <3>1
    <3>3. Order(q, E \ {e})
      BY <2>4, <3>2
    <3>4. Order(s, E)
      BY <3>1, <3>2, <3>3, Prepended
    <3>5. QED
      BY <2>5, <3>4
  <2>9. QED
    BY <2>7, <2>8
<1>5. Good(Link)
  <2>1. Cardinality(Link) \notin Bad
    BY <1>4
  <2>. HIDE DEF Good
  <2>2. QED
    BY <2>1
<1>6. QED
  BY <1>2, <1>5
(***************************************************************************)
(* What a list of links holds after its first is taken off.                *)
(***************************************************************************)
LEMMA HeadTaken ==
  ASSUME NEW s \in Seq(Link), s # <<>>, Distinct(s)
  PROVE  /\ Head(s) \in Link /\ Tail(s) \in Seq(Link)
         /\ Among(s) = Among(Tail(s)) \cup {Head(s)} /\ Head(s) \notin Among(Tail(s))
         /\ Distinct(Tail(s))
         /\ Sorted(s) => Sorted(Tail(s)) /\ \A h \in Among(Tail(s)) : ~Better(h, Head(s))
<1>1. /\ Len(s) \in Nat \ {0} /\ DOMAIN s = 1 .. Len(s) /\ Head(s) = s[1] /\ Tail(s) \in Seq(Link)
      /\ Len(Tail(s)) = Len(s) - 1 /\ DOMAIN Tail(s) = 1 .. Len(Tail(s))
      /\ \A i \in 1 .. Len(Tail(s)) : Tail(s)[i] = s[i + 1]
  BY SMTT(30)
<1>2. PICK t \in Seq(Link), n \in Nat \ {0} : t = Tail(s) /\ n = Len(s)
  BY <1>1
<1>3. /\ DOMAIN s = 1 .. n /\ DOMAIN t = 1 .. n - 1 /\ \A i \in 1 .. n - 1 : t[i] = s[i + 1]
  BY <1>1, <1>2
<1>4. \A i \in 1 .. n - 1 : i + 1 \in 1 .. n /\ i + 1 # 1 /\ i \in Int
  OBVIOUS
<1>5. \A i \in 1 .. n : i # 1 => i - 1 \in 1 .. n - 1 /\ (i - 1) + 1 = i
  OBVIOUS
<1>6. 1 \in 1 .. n
  OBVIOUS
<1>7. s[1] \in Link
  BY <1>3, <1>6
<1>8. Among(s) = Among(t) \cup {s[1]}
  <2>1. \A i \in DOMAIN t : t[i] \in Among(s)
    BY <1>3, <1>4 DEF Among
  <2>2. \A i \in DOMAIN s : s[i] = s[1] \/ s[i] \in Among(t)
    <3>. SUFFICES ASSUME NEW i \in DOMAIN s, i # 1
                  PROVE  s[i] \in Among(t)
      OBVIOUS
    <3>1. i - 1 \in 1 .. n - 1 /\ (i - 1) + 1 = i
      BY <1>3, <1>5
    <3>2. t[i - 1] = s[i]
      BY <1>3, <3>1
    <3>3. QED
      BY <1>3, <3>1, <3>2 DEF Among
  <2>3. s[1] \in Among(s)
    BY <1>3, <1>6 DEF Among
  <2>4. Among(t) \subseteq Among(s)
    BY <2>1 DEF Among
  <2>5. \A x \in Among(s) : x = s[1] \/ x \in Among(t)
    BY <2>2 DEF Among
  <2>6. QED
    BY <2>3, <2>4, <2>5
<1>9. s[1] \notin Among(t)
  <2>. SUFFICES ASSUME NEW i \in DOMAIN t, t[i] = s[1]
                PROVE  FALSE
    BY DEF Among
  <2>1. s[i + 1] = s[1] /\ i + 1 \in DOMAIN s /\ i + 1 # 1 /\ 1 \in DOMAIN s
    BY <1>3, <1>4, <1>6
  <2>2. QED
    BY <2>1 DEF Distinct
<1>10. Distinct(t)
  <2>. SUFFICES ASSUME NEW i \in DOMAIN t, NEW j \in DOMAIN t, t[i] = t[j]
                PROVE  i = j
    BY DEF Distinct
  <2>1. s[i + 1] = s[j + 1] /\ i + 1 \in DOMAIN s /\ j + 1 \in DOMAIN s /\ i \in Int /\ j \in Int
    BY <1>3, <1>4
  <2>2. i + 1 = j + 1
    BY <2>1 DEF Distinct
  <2>3. QED
    BY <2>1, <2>2
<1>11. ASSUME Sorted(s)
       PROVE  Sorted(t) /\ \A h \in Among(t) : ~Better(h, s[1])
  <2>1. ASSUME NEW i \in DOMAIN t, NEW j \in DOMAIN t, i < j
        PROVE  ~Better(t[j], t[i])
    <3>1. i + 1 \in DOMAIN s /\ j + 1 \in DOMAIN s /\ t[i] = s[i + 1] /\ t[j] = s[j + 1]
      BY <1>3, <1>4
    <3>2. i + 1 < j + 1
      BY <1>3, <1>4, <2>1
    <3>3. QED
      BY <1>11, <3>1, <3>2 DEF Sorted
  <2>2. ASSUME NEW i \in DOMAIN t
        PROVE  ~Better(t[i], s[1])
    <3>1. i + 1 \in DOMAIN s /\ 1 \in DOMAIN s /\ t[i] = s[i + 1]
      BY <1>3, <1>4, <1>6
    <3>2. 1 < i + 1
      BY <1>3
    <3>3. QED
      BY <1>11, <3>1, <3>2 DEF Sorted
  <2>3. QED
    BY <2>1, <2>2 DEF Sorted, Among
<1>12. QED
  BY <1>1, <1>2, <1>7, <1>8, <1>9, <1>10, <1>11

(***************************************************************************)
(* What a list of links holds after one is added.                          *)
(***************************************************************************)
LEMMA Appended ==
  ASSUME NEW s \in Seq(Link), Distinct(s), NEW e \in Link, e \notin Among(s)
  PROVE  /\ Append(s, e) \in Seq(Link) /\ Among(Append(s, e)) = Among(s) \cup {e}
         /\ Distinct(Append(s, e))
<1>1. PICK t \in Seq(Link), n \in Nat : t = Append(s, e) /\ n = Len(s)
  <2>1. Append(s, e) \in Seq(Link) /\ Len(s) \in Nat
    OBVIOUS
  <2>2. QED
    BY <2>1
<1>2. DOMAIN s = 1 .. n /\ DOMAIN t = 1 .. n + 1 /\ t[n + 1] = e /\ \A i \in 1 .. n : t[i] = s[i]
  BY <1>1
<1>3. \A i \in 1 .. n + 1 : i \in 1 .. n \/ i = n + 1
  OBVIOUS
<1>4. \A i \in 1 .. n : i \in 1 .. n + 1
  OBVIOUS
<1>5. n + 1 \in 1 .. n + 1
  OBVIOUS
<1>6. Among(t) = Among(s) \cup {e}
  <2>1. \A x \in Among(t) : x \in Among(s) \cup {e}
    BY <1>2, <1>3 DEF Among
  <2>2. \A x \in Among(s) : x \in Among(t)
    BY <1>2, <1>4 DEF Among
  <2>3. e \in Among(t)
    BY <1>2, <1>5 DEF Among
  <2>4. QED
    BY <2>1, <2>2, <2>3
<1>7. Distinct(t)
  <2>. SUFFICES ASSUME NEW i \in DOMAIN t, NEW j \in DOMAIN t, t[i] = t[j]
                PROVE  i = j
    BY DEF Distinct
  <2>1. \A k \in 1 .. n : t[k] = s[k] /\ t[k] # e
    BY <1>2 DEF Among
  <2>2. QED
    BY <1>2, <1>3, <2>1 DEF Distinct
<1>8. QED
  BY <1>1, <1>6, <1>7
-----------------------------------------------------------------------------
(***************************************************************************)
(* Those of the links T that are no worse than f join its ends.            *)
(***************************************************************************)
Joins(T, f) == f[2] \in Reach(Both({g \in T : ~Better(f, g)}), {f[1]})

(***************************************************************************)
(* The comparators look at the graph only.                                 *)
(***************************************************************************)
LEMMA BetterKept ==
  ASSUME UNCHANGED graph
  PROVE  \A e, f : Better(e, f)' <=> Better(e, f)
<1>1. rttype' = rttype /\ conns' = conns /\ Link' = Link
  BY DEF graph, Link
<1>2. \A n : degree(n)' = degree(n)
  BY <1>1 DEF degree
<1>3. \A e : overlay_edge_degree(e)' = overlay_edge_degree(e)
  BY <1>2 DEF overlay_edge_degree
<1>4. QED
  BY <1>1, <1>3 DEF Better

(***************************************************************************)
(* Both directions of some links.                                          *)
(***************************************************************************)
LEMMA BothChannels ==
  ASSUME GraphInv, NEW T \in SUBSET Link
  PROVE  Both(T) \in SUBSET Channel /\ TwoWay(Both(T))
<1>1. T \subseteq Channel
  BY LinkFacts
<1>2. \A e \in T : e[1] \in Node /\ e[2] \in Node /\ e[1] # e[2] /\ e = <<e[1], e[2]>>
  BY <1>1 DEF Channel
<1>3. Both(T) \subseteq Channel
  BY <1>1, <1>2 DEF Both, Back, Channel
<1>4. \A e \in T : Back(Back(e)) = e
  BY <1>2 DEF Back
<1>5. TwoWay(Both(T))
  BY <1>4 DEF TwoWay, Both
<1>6. QED
  BY <1>3, <1>5

(***************************************************************************)
(* More links join no less, and links that are all no worse join what they *)
(* connect.                                                                *)
(***************************************************************************)
LEMMA JoinsMore ==
  ASSUME GraphInv, NEW T \in SUBSET Link, NEW S \in SUBSET T, NEW f \in Link, Joins(S, f)
  PROVE  Joins(T, f)
<1>. DEFINE A == {g \in S : ~Better(f, g)}
            B == {g \in T : ~Better(f, g)}
<1>1. A \subseteq B /\ B \subseteq Link
  OBVIOUS
<1>2. Both(A) \subseteq Both(B)
  BY <1>1 DEF Both
<1>3. Both(B) \in SUBSET Channel
  BY <1>1, BothChannels
<1>4. f[1] \in Node
  BY LinkFacts DEF Channel
<1>5. f[2] \in Reach(Both(A), {f[1]})
  BY DEF Joins
<1>. HIDE DEF A, B
<1>6. f[2] \in Reach(Both(B), {f[1]})
  BY <1>2, <1>3, <1>4, <1>5, ReachMore
<1>7. QED
  BY <1>6 DEF Joins, B

LEMMA JoinsLast ==
  ASSUME NEW T, NEW f, \A g \in T : ~Better(f, g), f[2] \in Reach(Both(T), {f[1]})
  PROVE  Joins(T, f)
<1>1. {g \in T : ~Better(f, g)} = T
  OBVIOUS
<1>2. QED
  BY <1>1 DEF Joins

(***************************************************************************)
(* No link is better than itself.                                          *)
(***************************************************************************)
LEMMA NoneBetter ==
  ASSUME GraphInv, NEW f \in Link
  PROVE  ~Better(f, f)
<1>1. conns[f].width \in Nat /\ conns[f].len \in Nat
  BY LinkFacts
<1>2. overlay_edge_degree(f) \in Int
  <2>1. IsFiniteSet(Link)
    BY LinkFacts, GraphFacts, FS_Subset
  <2>2. \A n : degree(n) \in Nat
    BY <2>1, FS_Subset, FS_CardinalityType DEF degree
  <2>3. QED
    BY <2>2 DEF overlay_edge_degree
<1>3. QED
  BY <1>1, <1>2 DEF Better

-----------------------------------------------------------------------------
(***************************************************************************)
(* What holds of the levels: both directions of a link have the same, each *)
(* level is a forest, the forest of a lower one joins the ends of every    *)
(* link it left, and no level is empty.                                    *)
(***************************************************************************)
ForestsGood ==
  /\ \A e \in Link : lev[Back(e)] = lev[e]
  /\ \A l \in Nat : Bridges(At(l))
  /\ \A e \in Link : \A l \in Nat :
       l < level /\ (lev[e] = -1 \/ l < lev[e]) => e[2] \in Reach(At(l), {e[1]})
  /\ \A l \in Nat : l < level => \E e \in Link : lev[e] = l

(***************************************************************************)
(* While a tree grows: the links without level are those listed; the sets  *)
(* are what the tree connects, among them the ends of the links put aside; *)
(* the first tree is made of the links in their order.                     *)
(***************************************************************************)
Growing ==
  /\ ForestsGood
  /\ Distinct(pool) /\ Distinct(remain) /\ Among(pool) \cap Among(remain) = {}
  /\ \A e \in Link : lev[e] = -1 <=> e \in Among(pool) \cup Among(remain)
  /\ \A u, v \in Node : Find(parent)[u] = Find(parent)[v] <=> v \in Reach(At(level), {u})
  /\ \A e \in Among(remain) : e[2] \in Reach(At(level), {e[1]})
  /\ At(level) = {} /\ Link # {} => pool # <<>>
  /\ level = 0 => /\ Sorted(pool)
                  /\ \A f \in Link \ Among(pool) : /\ Joins(Tree(0), f)
                                                   /\ \A h \in Among(pool) : ~Better(h, f)
  /\ level > 0 => \A f \in Link : Joins(Tree(0), f)

Grown ==
  /\ ForestsGood
  /\ \A e \in Link : lev[e] # -1
  /\ \A f \in Link : Joins(Tree(0), f)

ForestInv ==
  /\ pc \in {"start", "sort"} => /\ lev = Unlevelled /\ level = 0
                                 /\ parent = NoParents /\ remain = <<>>
  /\ pc = "choose" => Growing
  /\ pc \in Levelled /\ rttype \in Ordered => Grown

(***************************************************************************)
(* The channels of a level are both directions of its links.               *)
(***************************************************************************)
LEMMA AtBoth ==
  ASSUME GraphInv, \A e \in Link : lev[Back(e)] = lev[e], NEW l
  PROVE  /\ At(l) = Both(Tree(l)) /\ Tree(l) \in SUBSET Link
         /\ At(l) \in SUBSET Channel /\ TwoWay(At(l))
<1>1. DOMAIN lev = Both(Link)
  BY DEF GraphInv
<1>2. \A c \in Both(Link) : c \in Link \/ \E e \in Link : c = Back(e)
  BY DEF Both
<1>3. \A e \in Link : e \in Both(Link) /\ Back(e) \in Both(Link) /\ lev[Back(e)] = lev[e]
  BY DEF Both
<1>4. At(l) \subseteq Both(Tree(l))
  BY <1>1, <1>2, <1>3 DEF At, Tree, Both
<1>5. Both(Tree(l)) \subseteq At(l)
  BY <1>1, <1>3 DEF At, Tree, Both
<1>6. At(l) = Both(Tree(l)) /\ Tree(l) \in SUBSET Link
  BY <1>4, <1>5 DEF Tree
<1>7. QED
  BY <1>6, BothChannels

LEMMA AtTree ==
  ASSUME GraphInv, ForestsGood, NEW l
  PROVE  At(l) = Both(Tree(l)) /\ Tree(l) \in SUBSET Link
BY AtBoth DEF ForestsGood

(***************************************************************************)
(* At first every node is alone.                                           *)
(***************************************************************************)
LEMMA Alone ==
  ASSUME NEW par, par = NoParents
  PROVE  \A u, v \in Node : Find(par)[u] = Find(par)[v] <=> v \in Reach({}, {u})
<1>1. UnionSet(par, NoHeights)
  BY NewForest
<1>2. PICK F \in [Node -> Node] : F = Find(par) /\ Finds(F, par)
  BY <1>1, Found
<1>3. \A n \in Node : par[n] = NoNode
  BY DEF NoParents
<1>4. \A n \in Node : F[n] = n
  BY <1>2, <1>3 DEF Finds
<1>5. ASSUME NEW u \in Node
      PROVE  Reach({}, {u}) = {u}
  <2>1. {} \in SUBSET Channel /\ {u} \in SUBSET Node /\ Closed({}, {u})
    BY DEF Closed
  <2>2. {u} \subseteq Reach({}, {u}) /\ Reach({}, {u}) \subseteq {u}
    BY <2>1, ReachFacts
  <2>3. QED
    BY <2>2
<1>6. QED
  BY <1>2, <1>4, <1>5

(***************************************************************************)
(* The first tree begins with sorted links.                                *)
(***************************************************************************)
LEMMA SortGrowing ==
  ASSUME GraphInv, TreesInv, Sort, lev = Unlevelled, level = 0, parent = NoParents, remain = <<>>
  PROVE  Growing'
<1>1. UNCHANGED <<graph, lev, level, remain, parent, height>> /\ pool' \in Orders
  BY DEF Sort
<1>2. Link' = Link /\ lev' = lev /\ level' = 0 /\ parent' = NoParents /\ remain' = <<>>
      /\ \A e, f : Better(e, f)' <=> Better(e, f)
  BY <1>1, BetterKept DEF graph, Link
<1>3. Order(pool', Link)
  BY <1>1, LinkFacts, OrdersSorted
<1>4. \A c \in Both(Link) : lev[c] = -1
  BY DEF Unlevelled
<1>5. DOMAIN lev = Both(Link) /\ \A e \in Link : e \in Both(Link) /\ Back(e) \in Both(Link)
  BY DEF GraphInv, Both
<1>6. \A l \in Nat : At(l)' = {}
  BY <1>2, <1>4, <1>5 DEF At
<1>7. ForestsGood'
  BY <1>2, <1>4, <1>5, <1>6 DEF ForestsGood, Bridges
<1>8. Among(remain') = {} /\ Distinct(remain')
  BY <1>2 DEF Among, Distinct
<1>9. Distinct(pool') /\ Among(pool') = Link /\ (Link # {} => pool' # <<>>)
  BY <1>3 DEF Order, Among
<1>10. Sorted(pool)'
  BY <1>2, <1>3 DEF Order, Sorted
<1>11. \A u, v \in Node : Find(parent')[u] = Find(parent')[v] <=> v \in Reach({}, {u})
  BY <1>2, Alone
<1>12. At(level)' = {}
  BY <1>2, <1>6
<1>13. (\A u, v \in Node : Find(parent)[u] = Find(parent)[v] <=> v \in Reach(At(level), {u}))'
  BY <1>11, <1>12
<1>14. (\A e \in Link : lev[e] = -1 <=> e \in Among(pool) \cup Among(remain))'
  BY <1>2, <1>4, <1>5, <1>9
<1>15. (\A e \in Among(remain) : e[2] \in Reach(At(level), {e[1]}))'
  BY <1>8
<1>16. (At(level) = {} /\ Link # {} => pool # <<>>)'
  BY <1>2, <1>9
<1>17. (level = 0 => /\ Sorted(pool)
                     /\ \A f \in Link \ Among(pool) : /\ Joins(Tree(0), f)
                                                      /\ \A h \in Among(pool) : ~Better(h, f))'
  BY <1>2, <1>9, <1>10
<1>18. (level > 0 => \A f \in Link : Joins(Tree(0), f))'
  BY <1>2
<1>19. QED
  BY <1>7, <1>8, <1>9, <1>13, <1>14, <1>15, <1>16, <1>17, <1>18 DEF Growing
(***************************************************************************)
(* A link whose ends the tree connects already is put aside.               *)
(***************************************************************************)
LEMMA PutAside ==
  ASSUME GraphInv, TreesInv, Growing, choose_sp_tree_links, UNCHANGED <<lev, parent, height>>
  PROVE  Growing'
<1>. DEFINE link == Head(pool)
<1>1. /\ pool # <<>> /\ pool' = Tail(pool) /\ UNCHANGED <<graph, level, lev, parent>>
      /\ union_set_is_same_set(link[1], link[2]) /\ remain' = Append(remain, link)
  <2>1. CASE union_set_is_same_set(link[1], link[2])
    BY <2>1 DEF choose_sp_tree_links
  <2>2. CASE ~union_set_is_same_set(link[1], link[2])
    <3>1. lev' = [lev EXCEPT ![link] = level, ![Back(link)] = level]
      BY <2>2 DEF choose_sp_tree_links
    <3>2. link \in Link /\ link \in Among(pool) /\ link \in Both(Link) /\ Back(link) \in Both(Link)
      <4>1. pool # <<>> /\ pool \in Seq(Link) /\ Distinct(pool)
        BY DEF choose_sp_tree_links, TreesInv, Growing
      <4>2. QED
        BY <4>1, HeadTaken DEF Both
    <3>3. lev[link] = -1 /\ lev'[link] = level
      BY <3>1, <3>2 DEF Growing, GraphInv
    <3>4. QED
      BY <3>3 DEF GraphInv
  <2>3. QED
    BY <2>1, <2>2
<1>2. Link' = Link /\ \A e, f : Better(e, f)' <=> Better(e, f)
  BY <1>1, BetterKept DEF graph, Link
<1>3. /\ \A l : At(l)' = At(l) /\ Tree(l)' = Tree(l)
      /\ lev' = lev /\ level' = level /\ parent' = parent
  BY <1>1, <1>2 DEF At, Tree
<1>4. /\ link \in Link /\ pool' \in Seq(Link) /\ Distinct(pool')
      /\ Among(pool) = Among(pool') \cup {link} /\ link \notin Among(pool')
      /\ Sorted(pool) => Sorted(Tail(pool)) /\ \A h \in Among(pool') : ~Better(h, link)
  BY <1>1, HeadTaken DEF TreesInv, Growing
<1>5. Distinct(remain') /\ Among(remain') = Among(remain) \cup {link}
  BY <1>1, <1>4, Appended DEF TreesInv, Growing
<1>6. link[1] \in Node /\ link[2] \in Node /\ link[1] # link[2]
  BY <1>4, LinkFacts DEF Channel
<1>. HIDE DEF link
<1>7. link[2] \in Reach(At(level), {link[1]})
  BY <1>1, <1>6, FindIsTop DEF union_set_is_same_set, Growing
<1>8. ForestsGood'
  BY <1>2, <1>3 DEF Growing, ForestsGood
<1>9. \A f : Joins(Tree(0), f)' <=> Joins(Tree(0), f)
  BY <1>2, <1>3 DEF Joins
<1>10. (\A u, v \in Node : Find(parent)[u] = Find(parent)[v] <=> v \in Reach(At(level), {u}))'
  BY <1>3 DEF Growing
<1>11. (\A e \in Link : lev[e] = -1 <=> e \in Among(pool) \cup Among(remain))'
  BY <1>2, <1>3, <1>4, <1>5 DEF Growing
<1>12. (\A e \in Among(remain) : e[2] \in Reach(At(level), {e[1]}))'
  BY <1>3, <1>5, <1>7 DEF Growing
<1>13. (At(level) = {} /\ Link # {} => pool # <<>>)'
  <2>1. At(level) # {}
    <3>1. {} \in SUBSET Channel /\ Closed({}, {link[1]}) /\ {link[1]} \in SUBSET Node
      BY <1>6 DEF Closed
    <3>2. Reach({}, {link[1]}) \subseteq {link[1]}
      BY <3>1, ReachFacts
    <3>3. QED
      BY <1>6, <1>7, <3>2
  <2>2. QED
    BY <1>3, <2>1
<1>14. ASSUME level = 0
       PROVE  /\ Sorted(pool)'
              /\ \A f \in Link \ Among(pool') : Joins(Tree(0), f) /\ \A h \in Among(pool') : ~Better(h, f)
  <2>1. Sorted(pool) /\ \A f \in Link \ Among(pool) : Joins(Tree(0), f) /\ \A h \in Among(pool) : ~Better(h, f)
    BY <1>14 DEF Growing
  <2>2. Sorted(pool)'
    BY <1>1, <1>2, <1>4, <2>1 DEF Sorted
  <2>3. Joins(Tree(0), link)
    <3>1. \A g \in Tree(0) : g \in Link \ Among(pool)
      BY DEF Tree, Growing
    <3>2. \A g \in Tree(0) : ~Better(link, g)
      BY <1>4, <2>1, <3>1
    <3>3. link[2] \in Reach(Both(Tree(0)), {link[1]})
      BY <1>7, <1>14, AtTree DEF Growing
    <3>4. QED
      BY <3>2, <3>3, JoinsLast
  <2>4. \A f \in Link \ Among(pool') : f = link \/ f \in Link \ Among(pool)
    BY <1>4
  <2>5. \A h \in Among(pool') : h \in Among(pool) /\ ~Better(h, link)
    BY <1>4, <2>1
  <2>6. QED
    BY <2>1, <2>2, <2>3, <2>4, <2>5
<1>15. (level = 0 => /\ Sorted(pool)
                     /\ \A f \in Link \ Among(pool) : /\ Joins(Tree(0), f)
                                                      /\ \A h \in Among(pool) : ~Better(h, f))'
  BY <1>2, <1>3, <1>9, <1>14
<1>16. (level > 0 => \A f \in Link : Joins(Tree(0), f))'
  BY <1>2, <1>3, <1>9 DEF Growing
<1>17. Among(pool') \cap Among(remain') = {}
  BY <1>4, <1>5 DEF Growing
<1>18. QED
  BY <1>4, <1>5, <1>8, <1>10, <1>11, <1>12, <1>13, <1>15, <1>16, <1>17 DEF Growing
(***************************************************************************)
(* A link taken into the tree joins what its ends connect.                 *)
(***************************************************************************)
LEMMA Taken ==
  ASSUME GraphInv, TreesInv, Growing, choose_sp_tree_links,
         NEW link, link = Head(pool), NEW u, u = link[1], NEW v, v = link[2],
         ~union_set_is_same_set(u, v)
  PROVE  Growing'
<1>. DEFINE new == {<<u, v>>, <<v, u>>}
<1>1. /\ pool # <<>> /\ pool' = Tail(pool) /\ UNCHANGED <<graph, level, remain>>
      /\ union_set_merge_set(u, v)
      /\ lev' = [lev EXCEPT ![link] = level, ![Back(link)] = level]
  BY DEF choose_sp_tree_links
<1>2. Link' = Link /\ level' = level /\ remain' = remain /\ \A e, f : Better(e, f)' <=> Better(e, f)
  BY <1>1, BetterKept DEF graph, Link
<1>3. /\ link \in Link /\ pool' \in Seq(Link) /\ Distinct(pool')
      /\ Among(pool) = Among(pool') \cup {link} /\ link \notin Among(pool')
      /\ Sorted(pool) => Sorted(Tail(pool)) /\ \A h \in Among(pool') : ~Better(h, link)
  BY <1>1, HeadTaken DEF TreesInv, Growing
<1>4. u \in Node /\ v \in Node /\ u # v /\ link = <<u, v>> /\ Back(link) = <<v, u>>
      /\ link \in Both(Link) /\ Back(link) \in Both(Link) /\ Back(link) \notin Link
  BY <1>3, LinkFacts, GraphFacts DEF Back
<1>5. v \notin Reach(At(level), {u})
  <2>1. Find(parent)[u] # Find(parent)[v]
    BY FindIsTop DEF union_set_is_same_set
  <2>2. QED
    BY <1>4, <2>1 DEF Growing
<1>6. lev[link] = -1 /\ lev[Back(link)] = -1
  BY <1>3 DEF Growing, ForestsGood
<1>7. /\ lev' \in [Both(Link) -> Nat \cup {-1}]
      /\ \A c \in Both(Link) : lev'[c] = IF c \in new THEN level ELSE lev[c]
      /\ level \in Nat /\ DOMAIN lev = Both(Link)
  BY <1>1, <1>4 DEF GraphInv
<1>8. new \subseteq Both(Link) /\ \A c \in new : lev[c] = -1
  BY <1>4, <1>6
<1>. HIDE DEF new
<1>9. PICK A, B : /\ A = At(level) /\ B = A \cup new
                   /\ At(level)' = B /\ \A l \in Nat : l = level => At(l)' = B
  <2>1. At(level)' = At(level) \cup new
    BY <1>2, <1>7, <1>8 DEF At
  <2>2. \A l \in Nat : l = level => At(l)' = At(level)'
    BY <1>2 DEF At
  <2>3. QED
    BY <2>1, <2>2
<1>10. \A l \in Nat : l # level => At(l)' = At(l)
  BY <1>2, <1>7, <1>8 DEF At
<1>11. \A e \in Link : e \in Both(Link) /\ Back(e) \in Both(Link) /\ (e \in new <=> Back(e) \in new)
                       /\ (e \in new <=> e = link)
  BY <1>4, LinkFacts, GraphFacts DEF new, Back
<1>12. A \in SUBSET Channel /\ TwoWay(A) /\ Bridges(A)
  <2>1. At(level) = Both(Tree(level)) /\ Tree(level) \in SUBSET Link
    BY AtTree DEF Growing
  <2>2. QED
    BY <1>7, <1>9, <2>1, BothChannels DEF Growing, ForestsGood
<1>13. B \in SUBSET Channel /\ TwoWay(B) /\ Bridges(B)
  <2>1. v \notin Reach(A, {u})
    BY <1>5, <1>9
  <2>2. B = A \cup {<<u, v>>, <<v, u>>}
    BY <1>9 DEF new
  <2>3. /\ A \cup {<<u, v>>, <<v, u>>} \in SUBSET Channel
        /\ TwoWay(A \cup {<<u, v>>, <<v, u>>})
        /\ Bridges(A \cup {<<u, v>>, <<v, u>>})
    BY <1>4, <1>12, <2>1, BridgesGrow
  <2>4. QED
    BY <2>2, <2>3
<1>14. \A x \in Node : Reach(A, {x}) \subseteq Reach(B, {x})
  <2>1. A \in SUBSET B
    BY <1>9
  <2>2. QED
    BY <1>13, <2>1, ReachMore
<1>15. \A e \in Link : e[1] \in Node /\ e[2] \in Node
  BY LinkFacts DEF Channel
<1>16. ForestsGood'
  <2>1. (\A e \in Link : lev[Back(e)] = lev[e])'
    BY <1>2, <1>7, <1>11 DEF Growing, ForestsGood
  <2>2. ASSUME NEW l \in Nat
        PROVE  Bridges(At(l)')
    <3>1. CASE l = level
      BY <1>9, <1>13, <3>1
    <3>2. CASE l # level
      <4>1. At(l)' = At(l)
        BY <1>10, <3>2
      <4>2. Bridges(At(l))
        BY DEF Growing, ForestsGood
      <4>3. QED
        BY <4>1, <4>2
    <3>3. QED
      BY <3>1, <3>2
  <2>3. (\A l \in Nat : Bridges(At(l)))'
    BY <2>2 DEF Bridges
  <2>4. ASSUME NEW e \in Link, NEW l \in Nat, l < level, lev'[e] = -1 \/ l < lev'[e]
        PROVE  e[2] \in Reach(At(l)', {e[1]})
    <3>1. lev[e] = -1 \/ l < lev[e]
      BY <1>6, <1>7, <1>11, <2>4
    <3>2. e[2] \in Reach(At(l), {e[1]})
      BY <2>4, <3>1 DEF Growing, ForestsGood
    <3>3. At(l)' = At(l)
      BY <1>10, <2>4
    <3>4. QED
      BY <3>2, <3>3
  <2>5. ASSUME NEW l \in Nat, l < level
        PROVE  \E e \in Link : lev'[e] = l
    <3>1. PICK e \in Link : lev[e] = l
      BY <2>5 DEF Growing, ForestsGood
    <3>2. lev'[e] = l
      BY <1>6, <1>7, <1>11, <3>1
    <3>3. QED
      BY <3>2
  <2>6. QED
    BY <1>2, <2>1, <2>3, <2>4, <2>5 DEF ForestsGood
<1>17. \A m, n \in Node : Find(parent')[m] = Find(parent')[n] <=> n \in Reach(B, {m})
  <2>1. PICK F, G : F = Find(parent) /\ G = Find(parent')
    OBVIOUS
  <2>2. \A m, n \in Node : G[m] = G[n] <=> F[m] = F[n] \/ {F[m], F[n]} = {F[u], F[v]}
    <3>1. UnionSet(parent, height)
      BY DEF TreesInv
    <3>2. u \in Node /\ v \in Node /\ ~union_set_is_same_set(u, v) /\ union_set_merge_set(u, v)
      BY <1>1, <1>4
    <3>3. /\ UnionSet(parent', height')
          /\ \A m, n \in Node : Find(parent')[m] = Find(parent')[n] <=>
               \/ Find(parent)[m] = Find(parent)[n]
               \/ {Find(parent)[m], Find(parent)[n]} = {Find(parent)[u], Find(parent)[v]}
      BY <3>1, <3>2, MergeStep
    <3>4. QED
      BY <2>1, <3>3
  <2>3. \A m, n \in Node : F[m] = F[n] <=> n \in Reach(A, {m})
    BY <1>9, <2>1 DEF Growing
  <2>4. \A m, n \in Node : {F[m], F[n]} = {F[u], F[v]} <=>
          (F[m] = F[u] /\ F[v] = F[n]) \/ (F[m] = F[v] /\ F[u] = F[n])
    OBVIOUS
  <2>5. ASSUME NEW m \in Node, NEW n \in Node
        PROVE  n \in Reach(B, {m}) <=> \/ n \in Reach(A, {m})
                                       \/ u \in Reach(A, {m}) /\ n \in Reach(A, {v})
                                       \/ v \in Reach(A, {m}) /\ n \in Reach(A, {u})
    <3>0. A \in SUBSET Channel /\ u \in Node /\ v \in Node /\ u # v
      BY <1>4, <1>12
    <3>1. n \in Reach(A \cup {<<u, v>>, <<v, u>>}, {m}) <=>
            \/ n \in Reach(A, {m})
            \/ u \in Reach(A, {m}) /\ n \in Reach(A, {v})
            \/ v \in Reach(A, {m}) /\ n \in Reach(A, {u})
      BY <3>0, ReachJoin, ZenonT(90)
    <3>2. B = A \cup {<<u, v>>, <<v, u>>}
      BY <1>9 DEF new
    <3>3. QED
      BY <3>1, <3>2
  <2>6. ASSUME NEW m \in Node, NEW n \in Node
        PROVE  {F[m], F[n]} = {F[u], F[v]} <=>
                 \/ u \in Reach(A, {m}) /\ n \in Reach(A, {v})
                 \/ v \in Reach(A, {m}) /\ n \in Reach(A, {u})
    <3>1. /\ F[m] = F[u] <=> u \in Reach(A, {m})
          /\ F[v] = F[n] <=> n \in Reach(A, {v})
          /\ F[m] = F[v] <=> v \in Reach(A, {m})
          /\ F[u] = F[n] <=> n \in Reach(A, {u})
      BY <1>4, <2>3
    <3>2. QED
      BY <2>4, <3>1
  <2>7. ASSUME NEW m \in Node, NEW n \in Node
        PROVE  G[m] = G[n] <=> n \in Reach(B, {m})
    <3>1. G[m] = G[n] <=> F[m] = F[n] \/ {F[m], F[n]} = {F[u], F[v]}
      BY <2>2
    <3>2. F[m] = F[n] <=> n \in Reach(A, {m})
      BY <2>3
    <3>3. QED
      BY <3>1, <3>2, <2>5, <2>6
  <2>8. QED
    BY <2>1, <2>7
<1>18. (\A m, n \in Node : Find(parent)[m] = Find(parent)[n] <=> n \in Reach(At(level), {m}))'
  BY <1>9, <1>17
<1>19. (\A e \in Link : lev[e] = -1 <=> e \in Among(pool) \cup Among(remain))'
  <2>1. ASSUME NEW e \in Link
        PROVE  lev'[e] = -1 <=> e \in Among(pool') \cup Among(remain)
    <3>1. CASE e = link
      <4>1. lev'[e] = level /\ level # -1
        BY <1>7, <1>11, <3>1
      <4>2. link \notin Among(remain)
        BY <1>3 DEF Growing
      <4>3. QED
        BY <1>3, <3>1, <4>1, <4>2
    <3>2. CASE e # link
      <4>1. lev'[e] = lev[e]
        BY <1>7, <1>11, <3>2
      <4>2. QED
        BY <1>3, <3>2, <4>1 DEF Growing
    <3>3. QED
      BY <3>1, <3>2
  <2>2. QED
    BY <1>2, <2>1
<1>20. (\A e \in Among(remain) : e[2] \in Reach(At(level), {e[1]}))'
  <2>1. Among(remain) \subseteq Link
    BY DEF TreesInv, Among
  <2>2. \A e \in Among(remain) : e[2] \in Reach(A, {e[1]}) /\ e[1] \in Node
    BY <1>9, <1>15, <2>1 DEF Growing
  <2>3. \A e \in Among(remain) : e[2] \in Reach(B, {e[1]})
    BY <1>14, <2>2
  <2>4. QED
    BY <1>2, <1>9, <2>3
<1>21. (At(level) = {} /\ Link # {} => pool # <<>>)'
  BY <1>9 DEF new
<1>22. \A f \in Link : Joins(Tree(0), f) => Joins(Tree(0), f)'
  <2>1. Tree(0)' \in SUBSET Link /\ Tree(0) \in SUBSET (Tree(0)')
    BY <1>2, <1>6, <1>7, <1>11 DEF Tree
  <2>2. PICK T \in SUBSET Link : T = Tree(0)'
    BY <2>1
  <2>3. \A f \in Link : Joins(Tree(0), f) => Joins(T, f)
    BY <2>1, <2>2, JoinsMore
  <2>4. \A f : Joins(Tree(0), f)' <=> Joins(T, f)
    BY <1>2, <2>2 DEF Joins
  <2>5. QED
    BY <2>3, <2>4
<1>23. ASSUME level = 0
       PROVE  /\ Sorted(pool)'
              /\ \A f \in Link \ Among(pool') : Joins(Tree(0), f)' /\ \A h \in Among(pool') : ~Better(h, f)
  <2>1. Sorted(pool) /\ \A f \in Link \ Among(pool) : Joins(Tree(0), f) /\ \A h \in Among(pool) : ~Better(h, f)
    BY <1>23 DEF Growing
  <2>2. Sorted(pool)'
    BY <1>1, <1>2, <1>3, <2>1 DEF Sorted
  <2>3. Joins(Tree(0), link)'
    <3>1. PICK T \in SUBSET Link : T = Tree(0)'
      BY <1>2 DEF Tree
    <3>2. \A g \in T : g = link \/ g \in Link \ Among(pool)
      <4>1. \A g \in T : lev'[g] = 0
        BY <3>1 DEF Tree
      <4>2. \A g \in T : g # link => lev[g] = 0
        BY <1>7, <1>11, <4>1
      <4>3. QED
        BY <4>2 DEF Growing
    <3>3. link \in Among(pool) /\ ~Better(link, link)
      BY <1>3, NoneBetter
    <3>4. \A g \in T : ~Better(link, g)
      BY <2>1, <3>2, <3>3
    <3>5. link \in T
      BY <1>3, <1>7, <1>11, <1>2, <1>23, <3>1 DEF Tree
    <3>6. link \in Both(T) /\ Both(T) \in SUBSET Channel
      BY <3>5, BothChannels DEF Both
    <3>7. link[2] \in Reach(Both(T), {link[1]})
      BY <3>6, ReachOne
    <3>8. Joins(T, link)
      BY <3>4, <3>7, JoinsLast
    <3>9. QED
      BY <1>2, <3>1, <3>8 DEF Joins
  <2>4. \A f \in Link \ Among(pool') : f = link \/ f \in Link \ Among(pool)
    BY <1>3
  <2>5. \A h \in Among(pool') : h \in Among(pool) /\ ~Better(h, link)
    BY <1>3, <2>1
  <2>6. QED
    BY <1>22, <2>1, <2>2, <2>3, <2>4, <2>5
<1>24. (level = 0 => /\ Sorted(pool)
                     /\ \A f \in Link \ Among(pool) : /\ Joins(Tree(0), f)
                                                      /\ \A h \in Among(pool) : ~Better(h, f))'
  BY <1>2, <1>23
<1>25. (level > 0 => \A f \in Link : Joins(Tree(0), f))'
  BY <1>2, <1>22 DEF Growing
<1>26. Distinct(remain)' /\ Among(pool') \cap Among(remain') = {}
  BY <1>2, <1>3 DEF Growing
<1>27. QED
  BY <1>3, <1>16, <1>18, <1>19, <1>20, <1>21, <1>24, <1>25, <1>26 DEF Growing
(***************************************************************************)
(* The next tree: the links put aside are joined by the last one.          *)
(***************************************************************************)
LEMMA NextTreeGrowing ==
  ASSUME GraphInv, TreesInv, Growing, NextTree
  PROVE  (pc' = "choose" => Growing') /\ (pc' = "labelled" => Grown')
<1>1. /\ pool = <<>> /\ pool' = remain /\ remain' = <<>> /\ parent' = NoParents
      /\ level' = IF Link = {} THEN level ELSE level + 1
      /\ pc' = IF remain = <<>> THEN "labelled" ELSE "choose"
      /\ UNCHANGED <<graph, lev>>
  BY DEF NextTree
<1>2. Link' = Link /\ lev' = lev /\ \A e, f : Better(e, f)' <=> Better(e, f)
  BY <1>1, BetterKept DEF graph, Link
<1>3. \A l : At(l)' = At(l) /\ Tree(l)' = Tree(l)
  BY <1>1, <1>2 DEF At, Tree
<1>4. /\ level \in Nat /\ DOMAIN lev = Both(Link)
      /\ \A c \in Both(Link) : lev[c] \in Int /\ lev[c] <= level
      /\ \A e \in Link : e \in Both(Link) /\ Back(e) \in Both(Link)
  BY DEF GraphInv, TreesInv, LowerSound, Both
<1>5. Among(pool) = {} /\ Among(remain') = {} /\ Distinct(remain')
  BY <1>1 DEF Among, Distinct
<1>6. ForestsGood'
  <2>1. ASSUME NEW e \in Link, NEW l \in Nat, l < level', lev[e] = -1 \/ l < lev[e]
        PROVE  e[2] \in Reach(At(l), {e[1]})
    <3>1. level' = level + 1 /\ (l < level \/ l = level)
      BY <1>1, <1>4, <2>1
    <3>2. CASE l < level
      BY <2>1, <3>2 DEF Growing, ForestsGood
    <3>3. CASE l = level
      <4>1. lev[e] = -1
        BY <1>4, <2>1, <3>3
      <4>2. e \in Among(remain)
        BY <1>5, <4>1 DEF Growing
      <4>3. QED
        BY <3>3, <4>2 DEF Growing
    <3>4. QED
      BY <3>1, <3>2, <3>3
  <2>2. ASSUME NEW l \in Nat, l < level'
        PROVE  \E e \in Link : lev[e] = l
    <3>1. CASE l < level
      BY <3>1 DEF Growing, ForestsGood
    <3>2. CASE ~(l < level)
      <4>1. Link # {} /\ l = level
        BY <1>1, <1>4, <2>2, <3>2
      <4>2. At(level) # {}
        BY <1>1, <4>1 DEF Growing
      <4>3. PICK c \in Both(Link) : lev[c] = level
        BY <1>4, <4>2 DEF At
      <4>4. c \in Link \/ \E e \in Link : c = Back(e)
        BY DEF Both
      <4>5. \A e \in Link : lev[Back(e)] = lev[e]
        BY DEF Growing, ForestsGood
      <4>6. QED
        BY <4>1, <4>3, <4>4, <4>5
    <3>3. QED
      BY <3>1, <3>2
  <2>3. \A l \in Nat : Bridges(At(l)')
    BY <1>3 DEF Growing, ForestsGood
  <2>4. (\A l \in Nat : Bridges(At(l)))'
    BY <2>3 DEF Bridges
  <2>5. (\A e \in Link : lev[Back(e)] = lev[e])'
    BY <1>2 DEF Growing, ForestsGood
  <2>6. (\A e \in Link : \A l \in Nat :
           l < level /\ (lev[e] = -1 \/ l < lev[e]) => e[2] \in Reach(At(l), {e[1]}))'
    BY <1>2, <1>3, <2>1
  <2>7. (\A l \in Nat : l < level => \E e \in Link : lev[e] = l)'
    BY <1>2, <2>2
  <2>8. QED
    BY <2>4, <2>5, <2>6, <2>7 DEF ForestsGood
<1>7. (\A f \in Link : Joins(Tree(0), f))'
  <2>1. \A f \in Link : Joins(Tree(0), f)
    <3>1. CASE level = 0
      BY <1>5, <3>1 DEF Growing
    <3>2. CASE level # 0
      BY <1>4, <3>2 DEF Growing
    <3>3. QED
      BY <3>1, <3>2
  <2>2. \A f : Joins(Tree(0), f)' <=> Joins(Tree(0), f)
    BY <1>2, <1>3 DEF Joins
  <2>3. QED
    BY <1>2, <2>1, <2>2
<1>8. (\A e \in Link : lev[e] = -1 <=> e \in Among(pool) \cup Among(remain))'
  BY <1>1, <1>2, <1>5 DEF Growing
<1>9. CASE remain = <<>>
  <2>1. Among(remain) = {}
    BY <1>9 DEF Among
  <2>2. (\A e \in Link : lev[e] # -1)'
    BY <1>1, <1>5, <1>8, <2>1
  <2>3. pc' = "labelled" /\ "labelled" # "choose"
    BY <1>1, <1>9
  <2>4. QED
    BY <1>6, <1>7, <2>2, <2>3 DEF Grown
<1>10. CASE remain # <<>>
  <2>1. pc' = "choose" /\ "labelled" # "choose"
    BY <1>1, <1>10
  <2>2. Link # {}
    BY <1>10 DEF TreesInv
  <2>3. level' = level + 1 /\ level' > 0 /\ level' # 0
    BY <1>1, <1>4, <2>2
  <2>4. At(level)' = {}
    BY <1>2, <1>4, <2>3 DEF At
  <2>5. \A u, v \in Node : Find(parent')[u] = Find(parent')[v] <=> v \in Reach({}, {u})
    BY <1>1, Alone
  <2>6. (\A u, v \in Node : Find(parent)[u] = Find(parent)[v] <=> v \in Reach(At(level), {u}))'
    BY <2>4, <2>5
  <2>7. (\A e \in Among(remain) : e[2] \in Reach(At(level), {e[1]}))'
    BY <1>5
  <2>8. (At(level) = {} /\ Link # {} => pool # <<>>)'
    BY <1>1, <1>10
  <2>9. Distinct(pool)' /\ Distinct(remain)' /\ Among(pool') \cap Among(remain') = {}
    BY <1>1, <1>5 DEF Growing, Distinct
  <2>10. Growing'
    BY <1>6, <1>7, <1>8, <2>3, <2>6, <2>7, <2>8, <2>9 DEF Growing
  <2>11. QED
    BY <2>1, <2>10
<1>11. QED
  BY <1>9, <1>10
(***************************************************************************)
(* The graph and the levels stay: so do the trees.                         *)
(***************************************************************************)
LEMMA GrownKept ==
  ASSUME Grown, UNCHANGED <<graph, lev, level>>
  PROVE  Grown'
<1>1. /\ Link' = Link /\ lev' = lev /\ level' = level
      /\ \A l : At(l)' = At(l) /\ Tree(l)' = Tree(l)
      /\ \A e, f : Better(e, f)' <=> Better(e, f)
  BY BetterKept DEF graph, Link, At, Tree
<1>2. ForestsGood'
  BY <1>1 DEF Grown, ForestsGood
<1>3. \A f : Joins(Tree(0), f)' <=> Joins(Tree(0), f)
  BY <1>1 DEF Joins
<1>4. QED
  BY <1>1, <1>2, <1>3 DEF Grown

LEMMA GrowingKept ==
  ASSUME Growing, UNCHANGED <<graph, lev, level, pool, remain, parent>>
  PROVE  Growing'
<1>1. /\ Link' = Link /\ lev' = lev /\ level' = level /\ pool' = pool /\ remain' = remain
      /\ parent' = parent
      /\ \A l : At(l)' = At(l) /\ Tree(l)' = Tree(l)
      /\ \A e, f : Better(e, f)' <=> Better(e, f)
  BY BetterKept DEF graph, Link, At, Tree
<1>2. ForestsGood'
  BY <1>1 DEF Growing, ForestsGood
<1>3. \A f : Joins(Tree(0), f)' <=> Joins(Tree(0), f)
  BY <1>1 DEF Joins
<1>4. At(level)' = At(level)
  BY <1>1 DEF At
<1>5. (level = 0 => /\ Sorted(pool)
                    /\ \A f \in Link \ Among(pool) : /\ Joins(Tree(0), f)
                                                     /\ \A h \in Among(pool) : ~Better(h, f))'
  BY <1>1, <1>3 DEF Growing, Sorted
<1>6. QED
  BY <1>1, <1>2, <1>3, <1>4, <1>5 DEF Growing

(***************************************************************************)
(* Every step keeps what holds of the trees.                               *)
(***************************************************************************)
LEMMA ForestNext ==
  ASSUME Inv, ForestInv, [Next]_vars
  PROVE  ForestInv'
<1>1. GraphInv /\ KindInv /\ (pc \in {"start", "sort", "choose"} => TreesInv)
  BY DEF Inv, StepsInv
<1>2. ASSUME rttype' = rttype, rttype \notin Ordered, pc' \notin {"start", "sort", "choose"}
      PROVE  ForestInv'
  BY <1>2 DEF ForestInv
<1>3. ASSUME UNCHANGED <<graph, lev, level>>, pc \in Levelled, pc' \notin {"start", "sort", "choose"}
      PROVE  ForestInv'
  <2>1. rttype' = rttype
    BY <1>3 DEF graph
  <2>2. QED
    BY <1>3, <2>1, GrownKept DEF ForestInv
<1>4. CASE Start
  <2>1. rttype' = rttype /\ pc' \in {"sort", "root", "labelled"}
        /\ (pc' = "sort" => UNCHANGED <<lev, level, parent, remain>>)
        /\ (pc' # "sort" => rttype \notin Ordered)
    BY <1>4 DEF Start, MakeLinks, graph, levelvars, treevars, UpDownTypes, Ordered
  <2>2. CASE pc' = "sort"
    <3>1. pc = "start" /\ Link' = Link
      BY <1>4 DEF Start, graph, Link
    <3>2. Unlevelled' = Unlevelled
      BY <3>1 DEF Unlevelled
    <3>3. (lev = Unlevelled /\ level = 0 /\ parent = NoParents /\ remain = <<>>)'
      BY <2>1, <2>2, <3>1, <3>2 DEF ForestInv
    <3>4. QED
      BY <2>2, <3>3 DEF ForestInv, Levelled
  <2>3. CASE pc' # "sort"
    BY <1>2, <2>1, <2>3
  <2>4. QED
    BY <2>2, <2>3
<1>5. CASE ExchangeDistances \/ NextTable \/ Finish
  <2>1. /\ UNCHANGED <<graph, lev, level>> /\ pc \in Levelled
        /\ pc' \in {"sort_nodes", "labelled", "done"}
    BY <1>5 DEF ExchangeDistances, NextTable, Finish, levelvars, Levelled
  <2>2. QED
    BY <2>1, <1>3
<1>6. CASE Sort
  <2>1. pc = "sort" /\ pc' = "choose"
    BY <1>6 DEF Sort
  <2>2. Growing'
    BY <1>1, <1>6, <2>1, SortGrowing DEF ForestInv
  <2>3. QED
    BY <2>1, <2>2 DEF ForestInv, Levelled
<1>7. CASE choose_sp_tree_links
  <2>1. pc = "choose" /\ pc' = "choose"
    BY <1>7 DEF choose_sp_tree_links
  <2>2. Growing /\ TreesInv
    BY <1>1, <2>1 DEF ForestInv
  <2>3. PICK link, u, v : link = Head(pool) /\ u = link[1] /\ v = link[2]
    OBVIOUS
  <2>4. link \in Link
    BY <1>7, <2>2, <2>3, HeadTaken DEF TreesInv, Growing, choose_sp_tree_links
  <2>5. CASE ~union_set_is_same_set(u, v)
    BY <1>1, <1>7, <2>1, <2>2, <2>3, <2>4, <2>5, Taken DEF ForestInv, Levelled
  <2>6. CASE union_set_is_same_set(u, v)
    <3>1. UNCHANGED <<lev, parent, height>>
      BY <1>7, <2>3, <2>6 DEF choose_sp_tree_links
    <3>2. Growing'
      BY <1>1, <1>7, <2>2, <3>1, PutAside
    <3>3. QED
      BY <2>1, <3>2 DEF ForestInv, Levelled
  <2>7. QED
    BY <2>5, <2>6
<1>8. CASE NextTree
  <2>1. pc = "choose" /\ pc' \in {"choose", "labelled"}
    BY <1>8 DEF NextTree
  <2>2. (pc' = "choose" => Growing') /\ (pc' = "labelled" => Grown')
    BY <1>1, <1>8, <2>1, NextTreeGrowing DEF ForestInv
  <2>3. QED
    BY <2>1, <2>2 DEF ForestInv, Levelled
<1>9. CASE UpDownNext
  <2>1. rttype \in UpDownTypes /\ rttype' = rttype /\ pc' \notin {"start", "sort", "choose"}
    BY <1>1, <1>9 DEF KindInv, UpDownNext, ChooseRoot, BfsVisit, BfsEnd, DfsVisit, DfsEnd, Assign, graph
  <2>2. QED
    BY <2>1, <1>2 DEF Ordered, UpDownTypes
<1>10. CASE BfsNext
  <2>1. rttype = "ORDERED_BFS" /\ rttype' = rttype /\ pc' \in {"search", "labelled"}
    BY <1>1, <1>10 DEF KindInv, BfsNext, router_bfs_node_sort, StartSearch,
                       router_graph_do_bfs_search, EndSearch, EndSearches, graph
  <2>2. QED
    BY <2>1, <1>2 DEF Ordered
<1>11. CASE DijkstraNext
  <2>1. /\ UNCHANGED <<graph, lev, level>> /\ pc \in Levelled
        /\ pc' \notin {"start", "sort", "choose"}
    BY <1>11 DEF DijkstraNext, leveled_dijkstra_create, setup, compute, calc_rt, levelvars, Levelled
  <2>2. QED
    BY <2>1, <1>3
<1>12. CASE UNCHANGED vars
  <2>1. /\ UNCHANGED <<graph, lev, level, pool, remain, parent>> /\ pc' = pc /\ rttype' = rttype
        /\ Unlevelled' = Unlevelled
    BY <1>12 DEF vars, levelvars, treevars, graph, Unlevelled, Link
  <2>2. CASE pc = "choose"
    <3>1. Growing'
      BY <2>1, <2>2, GrowingKept DEF ForestInv
    <3>2. QED
      BY <2>1, <2>2, <3>1 DEF ForestInv, Levelled
  <2>3. CASE pc \in Levelled
    BY <2>1, <2>3, <1>3 DEF Levelled
  <2>4. CASE pc \notin Levelled \cup {"choose"}
    BY <2>1, <2>4 DEF ForestInv
  <2>5. QED
    BY <2>2, <2>3, <2>4
<1>13. QED
  BY <1>4, <1>5, <1>6, <1>7, <1>8, <1>9, <1>10, <1>11, <1>12 DEF Next, TreesNext

-----------------------------------------------------------------------------
(***************************************************************************)
(* A set of links that holds the no worse ones of the first tree.          *)
(***************************************************************************)
LEMMA TreeBest ==
  ASSUME GraphInv, \A f \in Link : Joins(Tree(0), f), NEW good \in SUBSET Link,
         \A f \in good : \A g \in Link : ~Better(f, g) => g \in good
  PROVE  FirstTreeBest(good)
<1>1. SUFFICES ASSUME NEW f \in good
               PROVE  f[2] \in Reach(Both(good \cap Tree(0)), {f[1]})
  BY DEF FirstTreeBest, Connects
<1>. DEFINE S == {g \in Tree(0) : ~Better(f, g)}
            T == good \cap Tree(0)
<1>2. S \subseteq T /\ T \subseteq Link
  BY DEF Tree
<1>3. Both(S) \subseteq Both(T)
  BY <1>2 DEF Both
<1>4. Both(T) \in SUBSET Channel
  BY <1>2, BothChannels
<1>5. f[1] \in Node
  BY LinkFacts DEF Channel
<1>6. f[2] \in Reach(Both(S), {f[1]})
  BY DEF Joins
<1>. HIDE DEF S, T
<1>7. f[2] \in Reach(Both(T), {f[1]})
  BY <1>3, <1>4, <1>5, <1>6, ReachMore
<1>8. QED
  BY <1>7 DEF T

(***************************************************************************)
(* The first tree is best by width or length, whichever the links were     *)
(* sorted by.                                                              *)
(***************************************************************************)
LEMMA FirstBest ==
  ASSUME GraphInv, \A f \in Link : Joins(Tree(0), f)
  PROVE  WidestOrShortestFirst
<1>1. \A f \in Link : conns[f].width \in Nat /\ conns[f].len \in Nat
  BY LinkFacts
<1>2. ASSUME NEW e \in Link, rttype = "ORDERED_BAND"
      PROVE  FirstTreeBest({f \in Link : conns[f].width >= conns[e].width})
  <2>. DEFINE good == {f \in Link : conns[f].width >= conns[e].width}
  <2>1. \A f, g \in Link : ~Better(f, g) => conns[g].width >= conns[f].width
    BY <1>1, <1>2 DEF Better
  <2>2. \A f \in good : \A g \in Link : ~Better(f, g) => g \in good
    BY <1>1, <2>1
  <2>3. QED
    BY <2>2, TreeBest
<1>3. ASSUME NEW e \in Link, rttype = "ORDERED_HOPS"
      PROVE  FirstTreeBest({f \in Link : conns[f].len <= conns[e].len})
  <2>. DEFINE good == {f \in Link : conns[f].len <= conns[e].len}
  <2>1. \A f, g \in Link : ~Better(f, g) => conns[g].len <= conns[f].len
    BY <1>1, <1>3 DEF Better
  <2>2. \A f \in good : \A g \in Link : ~Better(f, g) => g \in good
    BY <1>1, <2>1
  <2>3. QED
    BY <2>2, TreeBest
<1>4. QED
  BY <1>2, <1>3 DEF WidestOrShortestFirst

(***************************************************************************)
(* With the invariant of the router: the properties of the levels.         *)
(***************************************************************************)
LEMMA InvForests ==
  ASSUME Inv, ForestInv
  PROVE  ForestLevels
<1>1. GraphInv
  BY DEF Inv
<1>2. ASSUME rttype \in Ordered, pc \in {"choose", "labelled"}
      PROVE  /\ ForestsGood /\ LevelsAcyclic
             /\ \A c \in Both(Link) : lev[c] \in Int /\ lev[c] <= level
             /\ pc = "labelled" => Grown /\ \A c \in Both(Link) : lev[c] < level
  <2>1. ForestsGood
    BY <1>2 DEF ForestInv, Growing, Grown, Levelled
  <2>2. LevelsSound
    BY <1>1, <1>2, TreesSound DEF Inv, StepsInv, OutcomeInv, Levelled, Proper, Ordered
  <2>3. level \in Nat /\ \A c \in Both(Link) : lev[c] \in Int
    BY <1>1 DEF GraphInv
  <2>4. pc = "choose" => \A c \in Both(Link) : lev[c] <= level
    BY DEF Inv, StepsInv, TreesInv, LowerSound
  <2>5. pc = "labelled" => \A c \in Both(Link) : lev[c] < level
    BY DEF Inv, OutcomeInv, LevelsFit, Levelled
  <2>6. pc = "labelled" => Grown
    BY <1>2 DEF ForestInv, Levelled
  <2>7. LevelsAcyclic
    BY <1>1, <2>2, SoundLevelsAcyclic
  <2>8. \A c \in Both(Link) : lev[c] <= level
    BY <1>2, <2>3, <2>4, <2>5
  <2>9. QED
    BY <2>1, <2>3, <2>5, <2>6, <2>7, <2>8
<1>3. LevelsAreForests
  <2>. SUFFICES ASSUME rttype \in Ordered, pc \in {"choose", "labelled"}, NEW e \in Link, lev[e] >= 0
                PROVE  ~Connects(Both(Tree(lev[e]) \ {e}), e[1], e[2])
    BY <1>2 DEF LevelsAreForests
  <2>1. PICK l \in Nat : l = lev[e]
    BY <1>1 DEF GraphInv, Both
  <2>2. PICK A, T : /\ T \in SUBSET Link /\ A = At(l) /\ T = Tree(l)
                    /\ A = Both(T) /\ Bridges(A)
    BY <1>1, <1>2, AtTree DEF ForestsGood
  <2>3. e \in T /\ e \in A
    BY <2>1, <2>2 DEF Tree, Both
  <2>4. e[2] \notin Reach(A \ {e, Back(e)}, {e[1]})
    BY <2>2, <2>3 DEF Bridges
  <2>5. \A g \in Link : Back(g) \notin Link /\ g = <<g[1], g[2]>>
    BY <1>1, LinkFacts, GraphFacts
  <2>6. \A g \in Link : Back(g) = Back(e) => g = e
    BY <2>5 DEF Back
  <2>7. Both(T \ {e}) \subseteq A \ {e, Back(e)}
    BY <2>2, <2>3, <2>5, <2>6 DEF Both
  <2>8. A \ {e, Back(e)} \in SUBSET Channel /\ e[1] \in Node
    BY <1>1, <2>2, BothChannels, LinkFacts DEF Channel
  <2>9. Reach(Both(T \ {e}), {e[1]}) \subseteq Reach(A \ {e, Back(e)}, {e[1]})
    BY <2>7, <2>8, ReachMore
  <2>10. QED
    BY <2>1, <2>2, <2>4, <2>9 DEF Connects
<1>4. LowerLevelsSpan
  <2>. SUFFICES ASSUME rttype \in Ordered, pc \in {"choose", "labelled"},
                       NEW e \in Link, NEW l \in 0 .. lev[e] - 1
                PROVE  Connects(Both(Tree(l)), e[1], e[2])
    BY DEF LowerLevelsSpan
  <2>1. e \in Both(Link)
    BY DEF Both
  <2>2. lev[e] \in Int /\ lev[e] <= level /\ level \in Nat
    BY <1>1, <1>2, <2>1 DEF GraphInv
  <2>3. l \in Nat /\ l < lev[e] /\ l < level
    BY <2>2
  <2>4. e[2] \in Reach(At(l), {e[1]})
    BY <1>2, <2>3 DEF ForestsGood
  <2>5. At(l) = Both(Tree(l))
    BY <1>1, <1>2, AtTree
  <2>6. QED
    BY <2>4, <2>5 DEF Connects
<1>5. LevelsCounted
  <2>. SUFFICES ASSUME rttype \in Ordered, pc = "labelled"
                PROVE  {lev[e] : e \in Link} = 0 .. level - 1
    BY DEF LevelsCounted
  <2>1. level \in Nat /\ Grown /\ ForestsGood
    BY <1>1, <1>2 DEF GraphInv
  <2>2. ASSUME NEW e \in Link
        PROVE  lev[e] \in 0 .. level - 1
    <3>1. e \in Both(Link)
      BY DEF Both
    <3>2. lev[e] \in Nat \cup {-1} /\ lev[e] # -1 /\ lev[e] < level
      BY <1>1, <1>2, <2>1, <3>1 DEF GraphInv, Grown
    <3>3. QED
      BY <2>1, <3>2
  <2>3. ASSUME NEW l \in 0 .. level - 1
        PROVE  \E e \in Link : lev[e] = l
    <3>1. l \in Nat /\ l < level
      BY <2>1
    <3>2. QED
      BY <2>1, <3>1 DEF ForestsGood
  <2>4. QED
    BY <2>2, <2>3
<1>6. WidestOrShortestFirst
  <2>1. CASE rttype \in Ordered /\ pc = "labelled"
    BY <1>1, <1>2, <2>1, FirstBest DEF Grown
  <2>2. CASE ~(rttype \in Ordered /\ pc = "labelled")
    BY <2>2 DEF WidestOrShortestFirst, Ordered
  <2>3. QED
    BY <2>1, <2>2
<1>7. QED
  BY <1>3, <1>4, <1>5, <1>6 DEF ForestLevels

LEMMA ForestInvariance == Spec => []ForestInv
<1>1. Init => ForestInv
  BY DEF Init, ForestInv, TreesInit, Levelled
<1>2. Inv /\ ForestInv /\ [Next]_vars => ForestInv'
  BY ForestNext
<1>3. QED
  BY <1>1, <1>2, Invariance, PTL DEF Spec

(***************************************************************************)
(* The levels of the ordered routers, whatever the graph and in whichever  *)
(* order links that compare equal are sorted: each level is a forest, it   *)
(* joins what the levels after it join, none is empty, and with BAND and   *)
(* HOPS the first holds a widest or a shortest way between any two nodes.  *)
(***************************************************************************)
THEOREM ForestTheorem == Spec => []ForestLevels
<1>1. Inv /\ ForestInv => ForestLevels
  BY InvForests
<1>2. QED
  BY <1>1, Invariance, ForestInvariance, PTL

(***************************************************************************)
(* union_set_is_same_set tells at every step whether the current tree      *)
(* connects two nodes.                                                     *)
(***************************************************************************)
THEOREM SetsTheorem == Spec => []UnionSetMatches
<1>1. Inv /\ ForestInv => UnionSetMatches
  <2>. SUFFICES ASSUME Inv, ForestInv, pc = "choose", NEW u \in Node, NEW v \in Node
                PROVE  union_set_is_same_set(u, v) <=> Connects(Both(Tree(level)), u, v)
    BY DEF UnionSetMatches
  <2>1. GraphInv /\ Growing
    BY DEF Inv, ForestInv
  <2>2. At(level) = Both(Tree(level))
    BY <2>1, AtTree DEF Growing
  <2>3. Find(parent)[u] = Find(parent)[v] <=> v \in Reach(At(level), {u})
    BY <2>1 DEF Growing
  <2>4. QED
    BY <2>2, <2>3, FindIsTop DEF union_set_is_same_set, Connects
<1>2. QED
  BY <1>1, Invariance, ForestInvariance, PTL

-----------------------------------------------------------------------------
(***************************************************************************)
(* A queue whose first is taken off and to which others are added.         *)
(***************************************************************************)
LEMMA QueueGrows ==
  ASSUME NEW S, NEW T, NEW q \in Seq(S), q # <<>>, NEW o \in Seq(T)
  PROVE  /\ \A x \in Among(q) : x = Head(q) \/ x \in Among(Tail(q) \o o)
         /\ Among(o) \subseteq Among(Tail(q) \o o)
         /\ \E k \in Nat : \A i \in DOMAIN (Tail(q) \o o) :
              \/ i <= k /\ i + 1 \in DOMAIN q /\ (Tail(q) \o o)[i] = q[i + 1]
              \/ i > k /\ (Tail(q) \o o)[i] \in T
<1>1. /\ Len(q) \in Nat \ {0} /\ DOMAIN q = 1 .. Len(q) /\ Head(q) = q[1] /\ Tail(q) \in Seq(S)
      /\ Len(Tail(q)) = Len(q) - 1 /\ \A i \in 1 .. Len(Tail(q)) : Tail(q)[i] = q[i + 1]
  OBVIOUS
<1>2. PICK t, k, n : t = Tail(q) /\ k = Len(q) - 1 /\ n = Len(o)
  OBVIOUS
<1>3. t \in Seq(S) /\ k \in Nat /\ n \in Nat /\ Len(t) = k /\ DOMAIN q = 1 .. k + 1
  BY <1>1, <1>2
<1>4. PICK r : r = t \o o
  OBVIOUS
<1>5. /\ DOMAIN r = 1 .. k + n
      /\ \A i \in 1 .. k + n : r[i] = IF i <= k THEN t[i] ELSE o[i - k]
  BY <1>2, <1>3, <1>4
<1>6. \A i \in 1 .. k : t[i] = q[i + 1]
  BY <1>1, <1>2
<1>7. \A j \in 1 .. n : o[j] \in T
  BY <1>2
<1>8. DOMAIN o = 1 .. n
  BY <1>2
<1>9. \A i \in DOMAIN r : \/ i <= k /\ i + 1 \in DOMAIN q /\ r[i] = q[i + 1]
                          \/ i > k /\ r[i] \in T
  <2>. SUFFICES ASSUME NEW i \in 1 .. k + n
                PROVE  \/ i <= k /\ i + 1 \in 1 .. k + 1 /\ r[i] = q[i + 1]
                       \/ i > k /\ r[i] \in T
    BY <1>3, <1>5
  <2>1. CASE i <= k
    <3>1. i \in 1 .. k /\ i + 1 \in 1 .. k + 1
      BY <1>3, <2>1
    <3>2. QED
      BY <1>5, <1>6, <2>1, <3>1
  <2>2. CASE ~ (i <= k)
    <3>1. i > k /\ i - k \in 1 .. n
      BY <1>3, <2>2
    <3>2. QED
      BY <1>5, <1>7, <2>2, <3>1
  <2>3. QED
    BY <2>1, <2>2
<1>10. \A x \in Among(q) : x = q[1] \/ x \in Among(r)
  <2>. SUFFICES ASSUME NEW i \in 1 .. k + 1, i # 1
                PROVE  q[i] \in Among(r)
    BY <1>3 DEF Among
  <2>1. i - 1 \in 1 .. k /\ i - 1 \in 1 .. k + n /\ i - 1 <= k /\ (i - 1) + 1 = i
    BY <1>3
  <2>2. r[i - 1] = q[i]
    BY <1>5, <1>6, <2>1
  <2>3. QED
    BY <1>5, <2>1, <2>2 DEF Among
<1>11. Among(o) \subseteq Among(r)
  <2>. SUFFICES ASSUME NEW j \in 1 .. n
                PROVE  o[j] \in Among(r)
    BY <1>8 DEF Among
  <2>1. k + j \in 1 .. k + n /\ ~ (k + j <= k) /\ (k + j) - k = j
    BY <1>3
  <2>2. r[k + j] = o[j]
    BY <1>5, <2>1
  <2>3. QED
    BY <1>5, <2>1, <2>2 DEF Among
<1>12. QED
  BY <1>1, <1>2, <1>3, <1>4, <1>9, <1>10, <1>11

(***************************************************************************)
(* A breadth-first search from a root, with the nodes D visited, of them q *)
(* queued, over the channels F, of which it has taken E: d is the distance *)
(* of the visited from the root, those queued come in its order, none of   *)
(* them more than one nearer than any other, and a node that has left the  *)
(* queue has no unvisited neighbour.                                       *)
(***************************************************************************)
BreadthFirst(root, D, q, d, E, F) ==
  /\ root \in D /\ D \in SUBSET Node /\ d \in [Node -> Nat] /\ d[root] = 0
  /\ \A m \in D \ {root} : \E p \in D : <<p, m>> \in E /\ d[m] = d[p] + 1
  /\ \A c \in F : c[1] \in D \ Among(q) => c[2] \in D /\ d[c[2]] <= d[c[1]] + 1
  /\ \A i, j \in DOMAIN q : i < j => d[q[i]] <= d[q[j]]
  /\ \A i \in DOMAIN q : \A m \in D : d[m] <= d[q[i]] + 1

(***************************************************************************)
(* The first of the queue is searched from: the nodes N are new, the rest  *)
(* has been visited.                                                       *)
(***************************************************************************)
Deeper(d, n, N) == [m \in Node |-> IF m \in N THEN d[n] + 1 ELSE d[m]]

LEMMA BreadthGrows ==
  ASSUME NEW root, NEW D, NEW q \in Seq(D), q # <<>>, NEW d, NEW E, NEW F,
         BreadthFirst(root, D, q, d, E, F),
         NEW N \in SUBSET Node, N \cap D = {}, NEW o \in Seq(N), N \subseteq Among(o),
         NEW G, E \subseteq G, \A m \in N : <<Head(q), m>> \in G,
         \A c \in F : c[1] = Head(q) => c[2] \in D \cup N
  PROVE  BreadthFirst(root, D \cup N, Tail(q) \o o, Deeper(d, Head(q), N), G, F)
<1>1. PICK n, r : n = Head(q) /\ r = Tail(q) \o o
  OBVIOUS
<1>2. /\ \A x \in Among(q) : x = n \/ x \in Among(r)
      /\ Among(o) \subseteq Among(r)
  BY <1>1, QueueGrows
<1>3. PICK k \in Nat : \A i \in DOMAIN r : \/ i <= k /\ i + 1 \in DOMAIN q /\ r[i] = q[i + 1]
                                           \/ i > k /\ r[i] \in N
  BY <1>1, QueueGrows
<1>4. n \in D /\ n = q[1] /\ 1 \in DOMAIN q /\ DOMAIN q = 1 .. Len(q) /\ Len(q) \in Nat
  BY <1>1
<1>5. DOMAIN r \subseteq Int /\ \A i \in DOMAIN r : i >= 1
  <2>1. Tail(q) \in Seq(D) /\ o \in Seq(D \cup N) /\ Tail(q) \in Seq(D \cup N)
    BY SeqMonotonic
  <2>2. r \in Seq(D \cup N)
    BY <1>1, <2>1, ConcatProperties
  <2>3. DOMAIN r = 1 .. Len(r) /\ Len(r) \in Nat
    BY <2>2
  <2>4. QED
    BY <2>3
<1>6. /\ root \in D /\ D \in SUBSET Node /\ d \in [Node -> Nat] /\ d[root] = 0
      /\ n \in Node /\ d[n] \in Nat
  BY <1>4 DEF BreadthFirst
<1>7. PICK d2 : d2 = Deeper(d, n, N)
  OBVIOUS
<1>8. /\ d2 \in [Node -> Nat]
      /\ \A m \in N : d2[m] = d[n] + 1
      /\ \A m \in D : d2[m] = d[m] /\ d[m] \in Nat
  BY <1>6, <1>7 DEF Deeper
<1>9. \A m \in D : d[m] <= d[n] + 1
  BY <1>4 DEF BreadthFirst
<1>10. \A m \in (D \cup N) \ {root} : \E p \in D \cup N : <<p, m>> \in G /\ d2[m] = d2[p] + 1
  <2>1. ASSUME NEW m \in D \ {root}
        PROVE  \E p \in D \cup N : <<p, m>> \in G /\ d2[m] = d2[p] + 1
    <3>1. PICK p \in D : <<p, m>> \in E /\ d[m] = d[p] + 1
      BY DEF BreadthFirst
    <3>2. d2[m] = d2[p] + 1
      BY <1>8, <3>1
    <3>3. QED
      BY <3>1, <3>2
  <2>2. ASSUME NEW m \in N
        PROVE  \E p \in D \cup N : <<p, m>> \in G /\ d2[m] = d2[p] + 1
    <3>1. <<n, m>> \in G
      BY <1>1
    <3>2. d2[m] = d2[n] + 1
      BY <1>4, <1>8
    <3>3. QED
      BY <1>4, <3>1, <3>2
  <2>3. QED
    BY <2>1, <2>2
<1>11. ASSUME NEW c \in F, c[1] \in (D \cup N) \ Among(r)
       PROVE  c[2] \in D \cup N /\ d2[c[2]] <= d2[c[1]] + 1
  <2>1. c[1] \in D
    BY <1>2, <1>11
  <2>2. CASE c[1] = n
    <3>1. c[2] \in D \cup N
      BY <1>1, <2>2
    <3>2. d2[c[1]] = d[n]
      BY <1>8, <2>1, <2>2
    <3>3. d2[c[2]] <= d[n] + 1
      BY <1>6, <1>8, <1>9, <3>1
    <3>4. QED
      BY <3>1, <3>2, <3>3
  <2>3. CASE c[1] # n
    <3>1. c[1] \in D \ Among(q)
      BY <1>2, <1>11, <2>1, <2>3
    <3>2. c[2] \in D /\ d[c[2]] <= d[c[1]] + 1
      BY <3>1 DEF BreadthFirst
    <3>3. QED
      BY <1>8, <2>1, <3>2
  <2>4. QED
    BY <2>2, <2>3
<1>12. \A i \in DOMAIN r : \/ i <= k /\ i + 1 \in DOMAIN q /\ r[i] \in D /\ d2[r[i]] = d[q[i + 1]]
                           \/ i > k /\ r[i] \in N /\ d2[r[i]] = d[n] + 1
  <2>. SUFFICES ASSUME NEW i \in DOMAIN r
                PROVE  \/ i <= k /\ i + 1 \in DOMAIN q /\ r[i] \in D /\ d2[r[i]] = d[q[i + 1]]
                       \/ i > k /\ r[i] \in N /\ d2[r[i]] = d[n] + 1
    OBVIOUS
  <2>1. CASE i <= k /\ i + 1 \in DOMAIN q /\ r[i] = q[i + 1]
    <3>1. q[i + 1] \in D
      BY <2>1
    <3>2. QED
      BY <1>8, <2>1, <3>1
  <2>2. CASE i > k /\ r[i] \in N
    BY <1>8, <2>2
  <2>3. QED
    BY <1>3, <2>1, <2>2
<1>13. ASSUME NEW i \in DOMAIN r, NEW j \in DOMAIN r, i < j
       PROVE  d2[r[i]] <= d2[r[j]]
  <2>1. i \in Int /\ j \in Int
    BY <1>5
  <2>2. CASE i <= k /\ i + 1 \in DOMAIN q /\ r[i] \in D /\ d2[r[i]] = d[q[i + 1]]
    <3>1. CASE j <= k /\ j + 1 \in DOMAIN q /\ r[j] \in D /\ d2[r[j]] = d[q[j + 1]]
      <4>1. i + 1 < j + 1
        BY <1>13, <2>1
      <4>2. QED
        BY <2>2, <3>1, <4>1 DEF BreadthFirst
    <3>2. CASE j > k /\ r[j] \in N /\ d2[r[j]] = d[n] + 1
      <4>1. d2[r[i]] = d[r[i]] /\ d[r[i]] <= d[n] + 1
        BY <1>8, <1>9, <2>2
      <4>2. QED
        BY <3>2, <4>1
    <3>3. QED
      BY <1>12, <3>1, <3>2
  <2>3. CASE i > k /\ r[i] \in N /\ d2[r[i]] = d[n] + 1
    <3>1. ~ (j <= k)
      BY <1>13, <2>1, <2>3
    <3>2. d2[r[j]] = d[n] + 1
      BY <1>12, <3>1
    <3>3. QED
      BY <1>6, <2>3, <3>2
  <2>4. QED
    BY <1>12, <2>2, <2>3
<1>14. ASSUME NEW i \in DOMAIN r, NEW m \in D \cup N
       PROVE  d2[m] <= d2[r[i]] + 1
  <2>1. d2[m] \in Nat /\ d2[m] <= d[n] + 1
    BY <1>6, <1>8, <1>9
  <2>2. CASE i <= k /\ i + 1 \in DOMAIN q /\ r[i] \in D /\ d2[r[i]] = d[q[i + 1]]
    <3>1. i \in Int /\ i >= 1
      BY <1>5
    <3>2. 1 < i + 1
      BY <3>1
    <3>3. d[q[1]] <= d[q[i + 1]]
      BY <1>4, <2>2, <3>2 DEF BreadthFirst
    <3>4. d2[r[i]] \in Nat /\ d[n] <= d2[r[i]]
      BY <1>4, <1>8, <2>2, <3>3
    <3>5. QED
      BY <1>6, <2>1, <3>4
  <2>3. CASE i > k /\ r[i] \in N /\ d2[r[i]] = d[n] + 1
    BY <1>6, <2>1, <2>3
  <2>4. QED
    BY <1>12, <2>2, <2>3
<1>15. BreadthFirst(root, D \cup N, r, d2, G, F)
  <2>1. root \in D \cup N /\ D \cup N \in SUBSET Node /\ d2[root] = 0
    BY <1>6, <1>8
  <2>2. QED
    BY <1>8, <1>10, <1>11, <1>13, <1>14, <2>1 DEF BreadthFirst
<1>16. QED
  BY <1>1, <1>7, <1>15

-----------------------------------------------------------------------------
(***************************************************************************)
(* A tree: any channel leads on to any other, and the ends of a link are   *)
(* not connected without it.                                               *)
(***************************************************************************)
Treelike(E) == Bridges(E) /\ \A c, d \in E : d[1] \in Reach(E, {c[1]})

(***************************************************************************)
(* Both directions of a link have the same level, and the levels below the *)
(* current one are trees, none of them empty.                              *)
(***************************************************************************)
TreesGood ==
  /\ \A e \in Link : lev[Back(e)] = lev[e]
  /\ \A l \in Nat : l < level => At(l) # {} /\ Treelike(At(l))

(***************************************************************************)
(* The first tree has, from its root, the distances in the whole graph.    *)
(***************************************************************************)
FirstDone == \E root, D, d : Distances(root, D, d, At(0), Both(Link))

(***************************************************************************)
(* While a search goes on, its tree reaches all it has visited from the    *)
(* root, whose links it has taken first.  Links left over are between      *)
(* nodes that are still to be searched from.                               *)
(***************************************************************************)
SearchedFrom(root) ==
  /\ root \in visited
  /\ visited \subseteq Reach(At(level), {root})
  /\ link_labeled => At(level) # {}
  /\ \/ node_queue = <<root>> /\ visited = {root}
     \/ \A e \in Link : root \in {e[1], e[2]} => lev[e] # -1
  /\ level = 0 => \E d : BreadthFirst(root, visited, node_queue, d, At(0), Both(Link))

TreesFound ==
  /\ TreesGood
  /\ visited # {} => SearchedFrom(Head(roots))
  /\ \A e \in Link : lev[e] = -1 => e[1] \in Among(roots) /\ e[2] \in Among(roots)
  /\ level > 0 => FirstDone

TreesComplete ==
  /\ TreesGood
  /\ \A e \in Link : lev[e] # -1
  /\ level > 0 => FirstDone

TreeInv ==
  /\ avgdist # NoMap => rttype = "ORDERED_BFS" /\ Node # {}
  /\ pc = "search" => TreesFound
  /\ pc \in Levelled /\ avgdist # NoMap => TreesComplete

(***************************************************************************)
(* What the current search has taken is a tree.                            *)
(***************************************************************************)
LEMMA TreeNow ==
  ASSUME GraphInv, SearchInv, TreesGood, visited # {} => SearchedFrom(Head(roots))
  PROVE  Treelike(At(level))
<1>1. PICK E \in SUBSET Channel : E = At(level) /\ TwoWay(E)
  BY AtBoth DEF TreesGood
<1>2. PICK depth \in [Node -> Nat] : Rooted(E, depth)
  BY <1>1 DEF SearchInv
<1>3. Bridges(E)
  BY <1>1, <1>2, RootedBridges
<1>4. ASSUME NEW c \in E, NEW d \in E
      PROVE  d[1] \in Reach(E, {c[1]})
  <2>1. c[1] \in visited /\ d[1] \in visited /\ visited \subseteq Node
    BY <1>1 DEF SearchInv
  <2>2. PICK root \in visited : visited \subseteq Reach(E, {root})
    BY <1>1, <2>1 DEF SearchedFrom
  <2>3. root \in Node /\ c[1] \in Node
    BY <2>1
  <2>4. root \in Reach(E, {c[1]})
    BY <1>1, <2>1, <2>2, <2>3, ReachSym
  <2>5. QED
    BY <2>1, <2>2, <2>3, <2>4, ReachTrans
<1>5. QED
  BY <1>1, <1>3, <1>4 DEF Treelike

(***************************************************************************)
(* At first no link has a level, and all nodes with links are roots.       *)
(***************************************************************************)
LEMMA NodesSorted ==
  ASSUME GraphInv, IdleInv, router_bfs_node_sort
  PROVE  TreesFound'
<1>1. /\ roots' \in Arrangements(Ends(Link)) /\ lev' = Unlevelled /\ level' = 0
      /\ UNCHANGED <<graph, visited>> /\ visited = {}
  BY DEF router_bfs_node_sort, IdleInv
<1>2. Ends(Link) \subseteq Node /\ IsFiniteSet(Ends(Link)) /\ Link' = Link
  BY <1>1, LinkFacts, GraphFacts, NodeAssumption, FS_Subset DEF graph, Link
<1>3. \A e \in Link : lev'[e] = -1 /\ lev'[Back(e)] = -1
  BY <1>1 DEF Unlevelled, Both
<1>4. TreesGood'
  BY <1>1, <1>2, <1>3 DEF TreesGood
<1>5. \A x \in Ends(Link) : \E i \in DOMAIN roots' : roots'[i] = x
  BY <1>1, <1>2, ArrangementFacts
<1>6. \A e \in Link : e[1] \in Ends(Link) /\ e[2] \in Ends(Link)
  BY DEF Ends
<1>7. \A e \in Link : e[1] \in Among(roots') /\ e[2] \in Among(roots')
  BY <1>5, <1>6 DEF Among
<1>8. QED
  BY <1>1, <1>2, <1>4, <1>7 DEF TreesFound

(***************************************************************************)
(* A search starts with its root alone.                                    *)
(***************************************************************************)
LEMMA SearchStarted ==
  ASSUME GraphInv, SearchInv, TreesFound, StartSearch
  PROVE  TreesFound'
<1>1. /\ roots # <<>> /\ visited = {} /\ node_queue' = <<Head(roots)>> /\ visited' = {Head(roots)}
      /\ link_labeled' = FALSE /\ UNCHANGED <<graph, lev, level, roots>>
  BY DEF StartSearch, Marked
<1>2. PICK root \in Node : root = Head(roots)
  BY <1>1, HeadTailProperties DEF SearchInv
<1>3. Link' = Link /\ Both(Link)' = Both(Link) /\ (\A l : At(l)' = At(l)) /\ At(level)' = At(level)
      /\ Head(roots)' = root /\ Among(roots)' = Among(roots)
  BY <1>1, <1>2 DEF graph, Link, At, Both
<1>4. TreesGood'
  BY <1>1, <1>3 DEF TreesFound, TreesGood
<1>5. level > 0 => FirstDone'
  BY <1>3 DEF TreesFound, FirstDone
<1>6. {root} \subseteq Reach(At(level), {root})
  BY AtBoth, ReachFacts DEF TreesFound, TreesGood
<1>7. \E d : BreadthFirst(root, {root}, <<root>>, d, At(0), Both(Link))
  <2>1. PICK d \in [Node -> Nat] : d = [n \in Node |-> 0]
    OBVIOUS
  <2>2. DOMAIN <<root>> = {1} /\ Among(<<root>>) = {root} /\ <<root>>[1] = root
    BY DEF Among
  <2>3. BreadthFirst(root, {root}, <<root>>, d, At(0), Both(Link))
    BY <2>1, <2>2 DEF BreadthFirst
  <2>4. QED
    BY <2>3
<1>8. SearchedFrom(root)'
  <2>1. (level = 0 => \E d : BreadthFirst(root, visited, node_queue, d, At(0), Both(Link)))'
    BY <1>1, <1>2, <1>3, <1>7
  <2>2. QED
    BY <1>1, <1>2, <1>3, <1>6, <2>1 DEF SearchedFrom
<1>9. QED
  BY <1>1, <1>2, <1>3, <1>4, <1>5, <1>8 DEF TreesFound

(***************************************************************************)
(* One step of a search, seen from the levels: the channels B, of which    *)
(* none had a level, get that of the search; they lead from the first of   *)
(* the queue to the nodes N that are new.                                  *)
(***************************************************************************)
Takes(n, N, B) ==
  /\ n \in visited /\ n \in Node /\ N \in SUBSET Node /\ N \cap visited = {}
  /\ B \subseteq Both(Link) /\ TwoWay(B)
  /\ \A m \in N : <<n, m>> \in B
  /\ \A c \in B : lev[c] = -1
  /\ \A c \in Both(Link) : c[1] = n => c[2] \in visited \cup N \/ lev[c] # -1
  /\ \A e \in Link : n \in {e[1], e[2]} => e \in B \/ OtherEnd(e, n) \in visited \/ lev[e] # -1

LEMMA SearchTakes ==
  ASSUME GraphInv, SearchInv, TreesGood, router_graph_do_bfs_search
  PROVE  \E N, B : /\ Takes(Head(node_queue), N, B)
                   /\ lev' = [c \in Both(Link) |-> IF c \in B THEN level ELSE lev[c]]
                   /\ link_labeled' = (link_labeled \/ B # {})
                   /\ visited' = visited \cup N
                   /\ \E o \in Seq(N) : N \subseteq Among(o) /\ node_queue' = Tail(node_queue) \o o
<1>. DEFINE n == Head(node_queue)
            taken == {e \in Usable(n) : OtherEnd(e, n) \notin visited}
            new == {OtherEnd(e, n) : e \in taken}
<1>1. /\ node_queue # <<>>
      /\ lev' = [c \in Both(Link) |-> IF c \in Both(taken) THEN level ELSE lev[c]]
      /\ link_labeled' = (link_labeled \/ taken # {})
      /\ visited' = visited \cup new
      /\ \E order \in Arrangements(new) : node_queue' = Tail(node_queue) \o order
  BY DEF router_graph_do_bfs_search, Push
<1>2. n \in visited /\ n \in Node
  BY <1>1, HeadTailProperties DEF SearchInv
<1>3. \A e \in Link : e[1] \in Node /\ e[2] \in Node /\ e = <<e[1], e[2]>> /\ e[1] # e[2]
                      /\ lev[Back(e)] = lev[e] /\ Back(e) = <<e[2], e[1]>> /\ Back(Back(e)) = e
  BY LinkFacts, GraphFacts DEF Back, TreesGood
<1>4. ASSUME NEW e \in taken
      PROVE  /\ e \in Link /\ n \in {e[1], e[2]} /\ lev[e] = -1
             /\ OtherEnd(e, n) \in Node /\ OtherEnd(e, n) \notin visited
             /\ e = <<n, OtherEnd(e, n)>> \/ Back(e) = <<n, OtherEnd(e, n)>>
  <2>1. e \in Link /\ n \in {e[1], e[2]} /\ lev[e] = -1 /\ OtherEnd(e, n) \notin visited
    BY DEF Usable
  <2>2. QED
    BY <1>3, <2>1 DEF OtherEnd
<1>5. \A e \in Link : n \in {e[1], e[2]} => e \in taken \/ OtherEnd(e, n) \in visited \/ lev[e] # -1
  BY DEF Usable
<1>6. \A e \in taken : OtherEnd(e, n) \in new
  OBVIOUS
<1>7. \A m \in new : \E e \in taken : m = OtherEnd(e, n)
  OBVIOUS
<1>8. PICK B : B = Both(taken)
  OBVIOUS
<1>9. PICK N : N = new
  OBVIOUS
<1>. HIDE DEF n, taken, new
<1>10. N \in SUBSET Node /\ N \cap visited = {}
  BY <1>4, <1>7, <1>9
<1>11. B \subseteq Both(Link) /\ TwoWay(B) /\ (B # {} <=> taken # {})
  <2>1. \A e \in taken : e \in Link /\ Back(Back(e)) = e
    BY <1>3, <1>4
  <2>2. QED
    BY <1>8, <2>1 DEF Both, TwoWay
<1>12. \A m \in N : <<n, m>> \in B
  <2>. SUFFICES ASSUME NEW m \in N
                PROVE  <<n, m>> \in B
    OBVIOUS
  <2>1. PICK e \in taken : m = OtherEnd(e, n)
    BY <1>7, <1>9
  <2>2. e = <<n, m>> \/ Back(e) = <<n, m>>
    BY <1>4, <2>1
  <2>3. e \in B /\ Back(e) \in B
    BY <1>8 DEF Both
  <2>4. QED
    BY <2>2, <2>3
<1>13. \A c \in B : lev[c] = -1
  <2>1. \A e \in taken : lev[e] = -1 /\ lev[Back(e)] = -1
    BY <1>3, <1>4
  <2>2. QED
    BY <1>8, <2>1 DEF Both
<1>14. \A e \in Link : n \in {e[1], e[2]} => e \in B \/ OtherEnd(e, n) \in visited \/ lev[e] # -1
  BY <1>5, <1>8 DEF Both
<1>15. \A c \in Both(Link) : c[1] = n => c[2] \in visited \cup N \/ lev[c] # -1
  <2>. SUFFICES ASSUME NEW c \in Both(Link), c[1] = n, c[2] \notin visited, lev[c] = -1
                PROVE  c[2] \in N
    OBVIOUS
  <2>1. PICK e \in Link : c = e \/ c = Back(e)
    BY DEF Both
  <2>2. lev[e] = -1 /\ n \in {e[1], e[2]} /\ OtherEnd(e, n) = c[2]
    BY <1>3, <2>1 DEF OtherEnd
  <2>3. e \in taken
    BY <1>5, <2>2
  <2>4. QED
    BY <1>6, <1>9, <2>2, <2>3
<1>16. Takes(n, N, B)
  BY <1>2, <1>10, <1>11, <1>12, <1>13, <1>14, <1>15 DEF Takes
<1>17. \E o \in Seq(N) : N \subseteq Among(o) /\ node_queue' = Tail(node_queue) \o o
  <2>1. PICK o \in Arrangements(N) : node_queue' = Tail(node_queue) \o o
    BY <1>1, <1>9
  <2>2. IsFiniteSet(N)
    BY <1>10, NodeAssumption, FS_Subset
  <2>3. o \in Seq(N) /\ N \subseteq Among(o)
    BY <2>1, <2>2, ArrangementFacts DEF Among
  <2>4. QED
    BY <2>1, <2>3
<1>18. /\ lev' = [c \in Both(Link) |-> IF c \in B THEN level ELSE lev[c]]
       /\ link_labeled' = (link_labeled \/ B # {})
       /\ visited' = visited \cup N
  BY <1>1, <1>8, <1>9, <1>11
<1>19. Takes(Head(node_queue), N, B)
  BY <1>16 DEF n
<1>20. QED
  BY <1>17, <1>18, <1>19

(***************************************************************************)
(* A node of the queue: the tree grows by the channels it takes.           *)
(***************************************************************************)
LEMMA Searches ==
  ASSUME GraphInv, SearchInv, TreesFound, router_graph_do_bfs_search
  PROVE  TreesFound'
<1>1. PICK N, B : /\ Takes(Head(node_queue), N, B)
                  /\ lev' = [c \in Both(Link) |-> IF c \in B THEN level ELSE lev[c]]
                  /\ link_labeled' = (link_labeled \/ B # {})
                  /\ visited' = visited \cup N
                  /\ \E o \in Seq(N) : N \subseteq Among(o) /\ node_queue' = Tail(node_queue) \o o
  BY SearchTakes DEF TreesFound
<1>2. PICK o \in Seq(N) : N \subseteq Among(o) /\ node_queue' = Tail(node_queue) \o o
  BY <1>1
<1>3. PICK n : n = Head(node_queue)
  OBVIOUS
<1>4. node_queue # <<>> /\ UNCHANGED <<graph, level, roots>>
  BY DEF router_graph_do_bfs_search
<1>5. /\ n \in visited /\ n \in Node /\ N \in SUBSET Node /\ N \cap visited = {}
      /\ B \subseteq Both(Link) /\ TwoWay(B)
      /\ \A m \in N : <<n, m>> \in B
      /\ \A c \in B : lev[c] = -1
      /\ \A c \in Both(Link) : c[1] = n => c[2] \in visited \cup N \/ lev[c] # -1
      /\ \A e \in Link : n \in {e[1], e[2]} => e \in B \/ OtherEnd(e, n) \in visited \/ lev[e] # -1
  BY <1>1, <1>3 DEF Takes
<1>6. /\ Link' = Link /\ Both(Link)' = Both(Link) /\ level' = level /\ level \in Nat
      /\ DOMAIN lev = Both(Link) /\ DOMAIN lev' = Both(Link)
  BY <1>1, <1>4 DEF graph, Link, Both, GraphInv
<1>7. \A c \in Both(Link) : /\ c \in B => lev'[c] = level
                            /\ c \notin B => lev'[c] = lev[c]
  BY <1>1
<1>8. \A l \in Nat : At(l)' = IF l = level THEN At(l) \cup B ELSE At(l)
  <2>. SUFFICES ASSUME NEW l \in Nat
                PROVE  At(l)' = IF l = level THEN At(l) \cup B ELSE At(l)
    OBVIOUS
  <2>1. l # -1
    OBVIOUS
  <2>2. QED
    BY <1>5, <1>6, <1>7, <2>1 DEF At
<1>9. PICK E, G : E = At(level) /\ At(level)' = G /\ G = E \cup B
  <2>1. \A l : l = level => At(level)' = At(l)'
    BY <1>6 DEF At
  <2>2. QED
    BY <1>6, <1>8, <2>1
<1>10. E \in SUBSET Channel /\ TwoWay(E) /\ G \in SUBSET Channel
  <2>1. Both(Link) \subseteq Channel
    BY LinkFacts, GraphFacts
  <2>2. QED
    BY <1>5, <1>9, <2>1, AtBoth DEF TreesFound, TreesGood
<1>11. (\A e \in Link : lev[Back(e)] = lev[e])'
  <2>. SUFFICES ASSUME NEW e \in Link
                PROVE  lev'[Back(e)] = lev'[e]
    BY <1>6
  <2>1. e \in Both(Link) /\ Back(e) \in Both(Link) /\ lev[Back(e)] = lev[e] /\ Back(Back(e)) = e
    BY LinkFacts, GraphFacts DEF Both, Back, TreesFound, TreesGood
  <2>2. e \in B <=> Back(e) \in B
    BY <1>5, <2>1 DEF TwoWay
  <2>3. QED
    BY <1>7, <2>1, <2>2
<1>12. TreesGood'
  <2>1. ASSUME NEW l \in Nat, l < level
        PROVE  At(l)' # {} /\ Treelike(At(l)')
    <3>1. At(l)' = At(l)
      BY <1>6, <1>8, <2>1
    <3>2. QED
      BY <2>1, <3>1 DEF TreesFound, TreesGood
  <2>2. (\A l \in Nat : l < level => At(l) # {} /\ Treelike(At(l)))'
    BY <1>6, <2>1 DEF Treelike, Bridges
  <2>3. QED
    BY <1>11, <2>2 DEF TreesGood
<1>13. level > 0 => FirstDone'
  <2>. SUFFICES ASSUME level > 0
                PROVE  FirstDone'
    OBVIOUS
  <2>1. At(0)' = At(0)
    BY <1>6, <1>8
  <2>2. QED
    BY <1>6, <2>1 DEF TreesFound, FirstDone
<1>14. \A e \in Link : lev'[e] = -1 => e[1] \in Among(roots) /\ e[2] \in Among(roots)
  <2>1. \A e \in Link : e \in Both(Link)
    BY DEF Both
  <2>2. \A e \in Link : lev'[e] = -1 => lev[e] = -1
    BY <1>6, <1>7, <2>1
  <2>3. QED
    BY <2>2 DEF TreesFound
<1>15. PICK root : root = Head(roots) /\ SearchedFrom(root)
  BY <1>5 DEF TreesFound
<1>16. root \in visited /\ visited \subseteq Node /\ node_queue \in Seq(visited)
  BY <1>15 DEF SearchedFrom, SearchInv
<1>17. visited \cup N \subseteq Reach(G, {root})
  <2>1. root \in Node
    BY <1>16
  <2>2. Reach(E, {root}) \subseteq Reach(G, {root})
    BY <1>9, <1>10, <2>1, ReachMore
  <2>3. visited \subseteq Reach(G, {root})
    BY <1>9, <1>15, <2>2 DEF SearchedFrom
  <2>4. ASSUME NEW m \in N
        PROVE  m \in Reach(G, {root})
    <3>1. <<n, m>> \in G
      BY <1>5, <1>9
    <3>2. <<n, m>>[1] = n /\ <<n, m>>[2] = m
      OBVIOUS
    <3>3. m \in Reach(G, {n})
      BY <1>10, <3>1, <3>2, ReachOne
    <3>4. QED
      BY <1>5, <1>10, <2>1, <2>3, <3>3, ReachTrans
  <2>5. QED
    BY <2>3, <2>4
<1>18. link_labeled' => G # {}
  BY <1>1, <1>9, <1>15 DEF SearchedFrom
<1>19. \A e \in Link : root \in {e[1], e[2]} => lev'[e] # -1
  <2>. SUFFICES ASSUME NEW e \in Link, root \in {e[1], e[2]}
                PROVE  lev'[e] # -1
    OBVIOUS
  <2>1. e \in Both(Link) /\ e[1] # e[2] /\ level # -1
    BY <1>6, LinkFacts, GraphFacts DEF Both
  <2>2. CASE node_queue = <<root>> /\ visited = {root}
    <3>1. n = root
      BY <1>3, <2>2
    <3>2. OtherEnd(e, n) # n
      BY <2>1, <3>1 DEF OtherEnd
    <3>3. e \in B \/ lev[e] # -1
      BY <1>5, <2>2, <3>1, <3>2
    <3>4. QED
      BY <1>7, <2>1, <3>3
  <2>3. CASE \A f \in Link : root \in {f[1], f[2]} => lev[f] # -1
    BY <1>7, <2>1, <2>3
  <2>4. QED
    BY <1>15, <2>2, <2>3 DEF SearchedFrom
<1>20. level = 0 => \E d : BreadthFirst(root, visited \cup N, node_queue', d, At(0)', Both(Link))
  <2>. SUFFICES ASSUME level = 0
                PROVE  \E d : BreadthFirst(root, visited \cup N, node_queue', d, At(0)', Both(Link))
    OBVIOUS
  <2>1. PICK d : BreadthFirst(root, visited, node_queue, d, At(0), Both(Link))
    BY <1>15 DEF SearchedFrom
  <2>2. At(0)' = At(0) \cup B
    BY <1>8
  <2>3. PICK G0 : G0 = At(0) \cup B
    OBVIOUS
  <2>4. \A c \in Both(Link) : c[1] = Head(node_queue) => c[2] \in visited \cup N
    <3>. SUFFICES ASSUME NEW c \in Both(Link), c[1] = n, lev[c] # -1
                  PROVE  c[2] \in visited \cup N
      BY <1>3, <1>5
    <3>1. lev[c] \in Nat \cup {-1} /\ lev[c] <= 0
      BY DEF GraphInv, SearchInv, LowerSound
    <3>2. lev[c] = level
      BY <3>1
    <3>3. c \in At(level)
      BY <1>6, <3>2 DEF At
    <3>4. QED
      BY <3>3 DEF SearchInv
  <2>5. At(0) \subseteq G0 /\ \A m \in N : <<Head(node_queue), m>> \in G0
    BY <1>3, <1>5, <2>3
  <2>6. BreadthFirst(root, visited \cup N, Tail(node_queue) \o o, Deeper(d, Head(node_queue), N), G0, Both(Link))
    BY <1>2, <1>4, <1>5, <1>16, <2>1, <2>4, <2>5, BreadthGrows
  <2>7. QED
    BY <1>2, <2>2, <2>3, <2>6
<1>21. SearchedFrom(root)'
  <2>1. (level = 0 => \E d : BreadthFirst(root, visited, node_queue, d, At(0), Both(Link)))'
    BY <1>1, <1>6, <1>20
  <2>2. (visited \subseteq Reach(At(level), {root}))'
    BY <1>1, <1>9, <1>17
  <2>3. (link_labeled => At(level) # {})'
    BY <1>9, <1>18
  <2>4. QED
    BY <1>1, <1>6, <1>16, <1>19, <2>1, <2>2, <2>3 DEF SearchedFrom
<1>22. SearchedFrom(Head(roots))'
  BY <1>4, <1>15, <1>21
<1>23. QED
  BY <1>4, <1>6, <1>12, <1>13, <1>14, <1>22 DEF TreesFound

(***************************************************************************)
(* At the end of a search its root has no link left, and level 0 has the   *)
(* distances.                                                              *)
(***************************************************************************)
LEMMA SearchEnded ==
  ASSUME GraphInv, SearchInv, TreesFound, EndSearch
  PROVE  TreesFound'
<1>1. /\ roots # <<>> /\ roots' = Tail(roots) /\ visited # {} /\ visited' = {}
      /\ node_queue = <<>> /\ level' = NextLevel /\ UNCHANGED <<graph, lev>>
  BY DEF EndSearch
<1>2. Link' = Link /\ Both(Link)' = Both(Link) /\ lev' = lev /\ (\A l : At(l)' = At(l)) /\ level \in Nat
  BY <1>1 DEF graph, Link, At, Both, GraphInv
<1>3. PICK root : root = Head(roots) /\ SearchedFrom(root)
  BY <1>1 DEF TreesFound
<1>4. Treelike(At(level))
  BY TreeNow DEF TreesFound
<1>5. ASSUME link_labeled
      PROVE  TreesGood' /\ (level > 0 => FirstDone)'
  <2>1. level' = level + 1 /\ At(level) # {}
    BY <1>1, <1>3, <1>5 DEF NextLevel, SearchedFrom
  <2>2. \A l \in Nat : l < level + 1 => l < level \/ l = level
    BY <1>2
  <2>3. \A l \in Nat : l < level => At(l) # {} /\ Treelike(At(l))
    BY DEF TreesFound, TreesGood
  <2>4. \A l \in Nat : l = level => At(l) = At(level)
    OBVIOUS
  <2>5. \A l \in Nat : l < level + 1 => At(l) # {} /\ Treelike(At(l))
    BY <1>4, <2>1, <2>2, <2>3
  <2>6. TreesGood'
    BY <1>2, <2>1, <2>5 DEF TreesFound, TreesGood, Treelike, Bridges
  <2>7. FirstDone
    <3>1. CASE level = 0
      <4>1. PICK d : BreadthFirst(root, visited, node_queue, d, At(0), Both(Link))
        BY <1>3, <3>1 DEF SearchedFrom
      <4>2. Among(node_queue) = {}
        BY <1>1 DEF Among
      <4>3. Distances(root, visited, d, At(0), Both(Link))
        BY <4>1, <4>2 DEF BreadthFirst, Distances
      <4>4. QED
        BY <4>3 DEF FirstDone
    <3>2. CASE level # 0
      BY <1>2, <3>2 DEF TreesFound
    <3>3. QED
      BY <3>1, <3>2
  <2>8. FirstDone'
    BY <1>2, <2>7 DEF FirstDone
  <2>9. QED
    BY <2>6, <2>8
<1>6. ASSUME ~link_labeled
      PROVE  TreesGood' /\ (level > 0 => FirstDone)'
  <2>1. level' = level
    BY <1>1, <1>6 DEF NextLevel
  <2>2. TreesGood'
    BY <1>2, <2>1 DEF TreesFound, TreesGood, Treelike, Bridges
  <2>3. (level > 0 => FirstDone)'
    BY <1>2, <2>1 DEF TreesFound, FirstDone
  <2>4. QED
    BY <2>2, <2>3
<1>7. ASSUME NEW e \in Link, lev[e] = -1
      PROVE  e[1] \in Among(Tail(roots)) /\ e[2] \in Among(Tail(roots))
  <2>1. node_queue # <<root>>
    BY <1>1
  <2>2. e[1] # root /\ e[2] # root
    BY <1>3, <1>7, <2>1 DEF SearchedFrom
  <2>3. e[1] \in Among(roots) /\ e[2] \in Among(roots)
    BY <1>7 DEF TreesFound
  <2>4. roots \in Seq(Node) /\ <<>> \in Seq(Node)
    BY DEF SearchInv
  <2>5. \A x \in Among(roots) : x = Head(roots) \/ x \in Among(Tail(roots) \o <<>>)
    BY <1>1, <2>4, QueueGrows
  <2>6. Tail(roots) \in Seq(Node)
    BY <1>1, <2>4
  <2>7. Tail(roots) \o <<>> = Tail(roots)
    BY <2>6
  <2>8. QED
    BY <1>3, <2>2, <2>3, <2>5, <2>7
<1>8. TreesGood' /\ (level > 0 => FirstDone)'
  BY <1>5, <1>6
<1>9. (\A e \in Link : lev[e] = -1 => e[1] \in Among(roots) /\ e[2] \in Among(roots))'
  BY <1>1, <1>2, <1>7
<1>10. QED
  BY <1>1, <1>8, <1>9 DEF TreesFound

(***************************************************************************)
(* Without roots there are no links without level.                         *)
(***************************************************************************)
LEMMA SearchesEnded ==
  ASSUME GraphInv, SearchInv, TreesFound, EndSearches
  PROVE  TreesComplete'
<1>1. roots = <<>> /\ UNCHANGED <<graph, lev, level>>
  BY DEF EndSearches
<1>2. Link' = Link /\ Both(Link)' = Both(Link) /\ (\A l : At(l)' = At(l))
  BY <1>1 DEF graph, Link, At, Both
<1>3. Among(roots) = {}
  BY <1>1 DEF Among
<1>4. \A e \in Link : lev[e] # -1
  BY <1>3 DEF TreesFound
<1>5. TreesGood'
  BY <1>1, <1>2 DEF TreesFound, TreesGood, Treelike, Bridges
<1>6. (level > 0 => FirstDone)'
  BY <1>1, <1>2 DEF TreesFound, FirstDone
<1>7. QED
  BY <1>1, <1>2, <1>4, <1>5, <1>6 DEF TreesComplete

(***************************************************************************)
(* What looks neither at the searches nor changes levels.                  *)
(***************************************************************************)
LEMMA TreesKept ==
  ASSUME UNCHANGED <<graph, lev, level>>
  PROVE  /\ TreesComplete => TreesComplete'
         /\ TreesFound /\ UNCHANGED searchvars => TreesFound'
<1>1. /\ Link' = Link /\ Both(Link)' = Both(Link) /\ lev' = lev /\ level' = level
      /\ (\A l : At(l)' = At(l)) /\ At(level)' = At(level)
  BY DEF graph, Link, At, Both
<1>2. TreesGood => TreesGood'
  BY <1>1 DEF TreesGood, Treelike, Bridges
<1>3. FirstDone => FirstDone'
  BY <1>1 DEF FirstDone
<1>4. TreesComplete => TreesComplete'
  BY <1>1, <1>2, <1>3 DEF TreesComplete
<1>5. ASSUME TreesFound, UNCHANGED searchvars
      PROVE  TreesFound'
  <2>1. UNCHANGED <<roots, visited, node_queue, link_labeled>>
    BY <1>5 DEF searchvars
  <2>2. (visited # {} => SearchedFrom(Head(roots)))'
    BY <1>1, <1>5, <2>1 DEF TreesFound, SearchedFrom
  <2>3. QED
    BY <1>1, <1>2, <1>3, <1>5, <2>1, <2>2 DEF TreesFound
<1>6. QED
  BY <1>4, <1>5

(***************************************************************************)
(* Every step keeps what holds of the searches.                            *)
(***************************************************************************)
LEMMA TreeNext ==
  ASSUME Inv, TreeInv, [Next]_vars
  PROVE  TreeInv'
<1>1. /\ GraphInv /\ KindInv /\ TablesInv
      /\ pc = "search" => SearchInv
      /\ pc # "search" => IdleInv
  BY DEF Inv, StepsInv
<1>2. NoMap' = NoMap
  BY DEF NoMap
<1>3. ASSUME rttype' = rttype, avgdist' = avgdist, avgdist = NoMap, pc' # "search"
      PROVE  TreeInv'
  BY <1>2, <1>3 DEF TreeInv
<1>4. ASSUME UNCHANGED <<graph, lev, level, avgdist>>, pc \in Levelled, pc' # "search"
      PROVE  TreeInv'
  <2>1. rttype' = rttype
    BY <1>4 DEF graph
  <2>2. avgdist # NoMap => TreesComplete'
    BY <1>4, TreesKept DEF TreeInv
  <2>3. QED
    BY <1>2, <1>4, <2>1, <2>2 DEF TreeInv
<1>5. CASE Start
  <2>1. rttype' = rttype /\ avgdist' = avgdist /\ pc = "start" /\ pc' # "search"
    BY <1>5 DEF Start, MakeLinks, graph, bfsvars
  <2>2. QED
    BY <1>1, <1>3, <2>1 DEF KindInv
<1>6. CASE ExchangeDistances
  <2>1. rttype' = rttype /\ rttype = "ORDERED_BFS" /\ pc' = "sort_nodes"
    BY <1>6 DEF ExchangeDistances, graph
  <2>2. Node # {}
    BY <1>1, <1>6 DEF TablesInv, ExchangeDistances
  <2>3. QED
    BY <2>1, <2>2 DEF TreeInv, Levelled
<1>7. CASE NextTable \/ Finish
  <2>1. /\ UNCHANGED <<graph, lev, level, avgdist>> /\ pc = "table" /\ pc' # "search"
    BY <1>7 DEF NextTable, Finish, levelvars, bfsvars
  <2>2. QED
    BY <1>4, <2>1 DEF Levelled
<1>8. CASE TreesNext /\ UNCHANGED bfsvars
  <2>1. rttype' = rttype /\ avgdist' = avgdist /\ pc \in {"sort", "choose"} /\ pc' # "search"
    BY <1>8 DEF TreesNext, Sort, choose_sp_tree_links, NextTree, graph, bfsvars
  <2>2. rttype \in Ordered
    BY <1>1, <2>1 DEF KindInv
  <2>3. avgdist = NoMap
    BY <2>2 DEF TreeInv, Ordered
  <2>4. QED
    BY <1>3, <2>1, <2>3
<1>9. CASE UpDownNext /\ UNCHANGED bfsvars
  <2>1. rttype' = rttype /\ avgdist' = avgdist /\ pc \in {"root", "visit", "assign"} /\ pc' # "search"
    BY <1>9 DEF UpDownNext, ChooseRoot, BfsVisit, BfsEnd, DfsVisit, DfsEnd, Assign, graph, bfsvars
  <2>2. rttype \in UpDownTypes
    BY <1>1, <2>1 DEF KindInv
  <2>3. avgdist = NoMap
    BY <2>2 DEF TreeInv, UpDownTypes
  <2>4. QED
    BY <1>3, <2>1, <2>3
<1>10. CASE BfsNext
  <2>1. /\ rttype' = rttype /\ avgdist' = avgdist /\ pc \in {"sort_nodes", "search"}
        /\ pc' = IF EndSearches THEN "labelled" ELSE "search"
        /\ pc = IF router_bfs_node_sort THEN "sort_nodes" ELSE "search"
    BY <1>10 DEF BfsNext, router_bfs_node_sort, StartSearch, router_graph_do_bfs_search,
                 EndSearch, EndSearches, graph
  <2>2. (avgdist # NoMap => rttype = "ORDERED_BFS" /\ Node # {})'
    BY <1>2, <2>1 DEF TreeInv
  <2>3. CASE router_bfs_node_sort
    <3>1. ~EndSearches /\ TreesFound'
      BY <1>1, <2>1, <2>3, NodesSorted DEF EndSearches
    <3>2. QED
      BY <2>1, <2>2, <3>1 DEF TreeInv, Levelled
  <2>4. CASE EndSearches
    <3>1. pc = "search"
      BY <2>4 DEF EndSearches
    <3>2. TreesComplete'
      BY <1>1, <2>4, <3>1, SearchesEnded DEF TreeInv
    <3>3. QED
      BY <2>1, <2>2, <2>4, <3>2 DEF TreeInv
  <2>5. CASE ~router_bfs_node_sort /\ ~EndSearches
    <3>1. pc = "search" /\ pc' = "search" /\ SearchInv /\ TreesFound
      BY <1>1, <2>1, <2>5 DEF TreeInv
    <3>2. TreesFound'
      BY <1>1, <1>10, <2>5, <3>1, SearchStarted, Searches, SearchEnded DEF BfsNext
    <3>3. QED
      BY <2>2, <3>1, <3>2 DEF TreeInv, Levelled
  <2>6. QED
    BY <2>3, <2>4, <2>5
<1>11. CASE DijkstraNext /\ UNCHANGED bfsvars
  <2>1. /\ UNCHANGED <<graph, lev, level, avgdist>> /\ pc \in Levelled /\ pc' # "search"
    BY <1>11 DEF DijkstraNext, leveled_dijkstra_create, setup, compute, calc_rt, levelvars, bfsvars, Levelled
  <2>2. QED
    BY <1>4, <2>1
<1>12. CASE UNCHANGED vars
  <2>1. /\ UNCHANGED <<graph, lev, level, avgdist>> /\ pc' = pc /\ UNCHANGED searchvars /\ rttype' = rttype
    BY <1>12 DEF vars, levelvars, bfsvars, graph
  <2>2. QED
    BY <1>2, <2>1, TreesKept DEF TreeInv
<1>13. QED
  BY <1>5, <1>6, <1>7, <1>8, <1>9, <1>10, <1>11, <1>12 DEF Next

(***************************************************************************)
(* Every state of the router satisfies it.                                 *)
(***************************************************************************)
LEMMA TreeInvariance == Spec => []TreeInv
<1>1. Init => TreeInv
  BY DEF Init, BfsInit, TreeInv, Levelled
<1>2. Inv /\ TreeInv /\ [Next]_vars => TreeInv'
  BY TreeNext
<1>3. QED
  BY <1>1, <1>2, Invariance, PTL DEF Spec

-----------------------------------------------------------------------------
(***************************************************************************)
(* A tree of channels is one of links.                                     *)
(***************************************************************************)
LEMMA TreeOfLinks ==
  ASSUME GraphInv, TreesGood, NEW l \in Nat, Treelike(At(l))
  PROVE  /\ \A n \in Ends(Tree(l)) : Reach(Both(Tree(l)), {n}) = Ends(Tree(l))
         /\ \A e \in Tree(l) : ~Connects(Both(Tree(l) \ {e}), e[1], e[2])
<1>1. PICK E \in SUBSET Channel, T \in SUBSET Link :
        E = At(l) /\ T = Tree(l) /\ E = Both(T) /\ TwoWay(E) /\ Treelike(E)
  BY AtBoth DEF TreesGood
<1>2. \A g \in Link : /\ Back(g) \notin Link /\ g = <<g[1], g[2]>> /\ g[1] \in Node /\ g[2] \in Node
                      /\ Back(g)[1] = g[2] /\ Back(g)[2] = g[1]
  BY LinkFacts, GraphFacts DEF Back
<1>3. /\ \A x \in Ends(T) : x \in Node /\ \E c \in E : c[1] = x
      /\ \A c \in E : c[1] \in Ends(T) /\ c[2] \in Ends(T)
  <2>1. \A x \in Ends(T) : \E g \in T : x = g[1] \/ x = g[2]
    BY DEF Ends
  <2>2. \A g \in T : g \in E /\ Back(g) \in E /\ g[1] \in Ends(T) /\ g[2] \in Ends(T)
    BY <1>1 DEF Both, Ends
  <2>3. \A c \in E : c \in T \/ \E g \in T : c = Back(g)
    BY <1>1 DEF Both
  <2>4. \A x \in Ends(T) : x \in Node /\ \E c \in E : c[1] = x
    BY <1>2, <2>1, <2>2
  <2>5. \A c \in E : c[1] \in Ends(T) /\ c[2] \in Ends(T)
    BY <1>2, <2>2, <2>3
  <2>6. QED
    BY <2>4, <2>5
<1>4. ASSUME NEW n \in Ends(T)
      PROVE  Reach(E, {n}) = Ends(T)
  <2>1. PICK c \in E : c[1] = n
    BY <1>3
  <2>2. \A x \in Ends(T) : x \in Reach(E, {n})
    BY <1>1, <1>3, <2>1 DEF Treelike
  <2>3. {n} \subseteq Ends(T) /\ Closed(E, Ends(T)) /\ n \in Node
    BY <1>3 DEF Closed
  <2>4. Reach(E, {n}) \subseteq Ends(T)
    BY <2>3, ReachFacts
  <2>5. QED
    BY <2>2, <2>4
<1>5. ASSUME NEW e \in T
      PROVE  ~Connects(Both(T \ {e}), e[1], e[2])
  <2>1. e \in E
    BY <1>1 DEF Both
  <2>2. e[2] \notin Reach(E \ {e, Back(e)}, {e[1]})
    BY <1>1, <2>1 DEF Treelike, Bridges
  <2>3. \A g \in Link : Back(g) = Back(e) => g = e
    BY <1>2 DEF Back
  <2>4. Both(T \ {e}) \subseteq E \ {e, Back(e)}
    BY <1>1, <1>2, <2>3 DEF Both
  <2>5. E \ {e, Back(e)} \in SUBSET Channel /\ e[1] \in Node
    BY <1>2
  <2>6. Reach(Both(T \ {e}), {e[1]}) \subseteq Reach(E \ {e, Back(e)}, {e[1]})
    BY <2>4, <2>5, ReachMore
  <2>7. QED
    BY <2>2, <2>6 DEF Connects
<1>6. QED
  BY <1>1, <1>4, <1>5

(***************************************************************************)
(* ReachIn goes the steps it says.                                         *)
(***************************************************************************)
LEMMA ReachInSteps ==
  ASSUME NEW E \in SUBSET Channel, NEW u \in Node, NEW k \in Nat
  PROVE  \E step : Spreads(step, E, {u}) /\ ReachIn(E, k, u) = step[k]
<1>. DEFINE top == CHOOSE step : Spreads(step, E, {u})
<1>1. Spreads(top, E, {u})
  BY Spread
<1>2. ReachIn(E, k, u) = top[k]
  BY DEF ReachIn, Spreads
<1>3. QED
  BY <1>1, <1>2

(***************************************************************************)
(* With the invariant of the router: the properties of the trees.          *)
(***************************************************************************)
LEMMA InvTrees ==
  ASSUME Inv, TreeInv
  PROVE  TreeLevels
<1>1. GraphInv /\ level \in Nat /\ \A e \in Link : e \in Both(Link) /\ lev[e] \in Nat \cup {-1}
  BY DEF Inv, GraphInv, Both
<1>2. Searched => TreesComplete /\ \A c \in Both(Link) : lev[c] < level
  BY DEF Searched, TreeInv, Inv, OutcomeInv, LevelsFit, Levelled
<1>3. Searching => TreesFound /\ SearchInv
  BY DEF Searching, TreeInv, Inv, StepsInv
<1>4. LevelsAreTrees
  <2>. SUFFICES ASSUME Searching \/ Searched, NEW l \in 0 .. level, Tree(l) # {}
                PROVE  /\ \A n \in Ends(Tree(l)) : Reach(Both(Tree(l)), {n}) = Ends(Tree(l))
                       /\ \A e \in Tree(l) : ~Connects(Both(Tree(l) \ {e}), e[1], e[2])
    BY DEF LevelsAreTrees
  <2>1. l \in Nat /\ (l < level \/ l = level)
    BY <1>1
  <2>2. TreesGood
    BY <1>2, <1>3 DEF TreesFound, TreesComplete
  <2>3. Treelike(At(l))
    <3>1. CASE l < level
      BY <2>1, <2>2, <3>1 DEF TreesGood
    <3>2. CASE l = level /\ Searching
      <4>1. Treelike(At(level))
        BY <1>1, <1>3, <3>2, TreeNow DEF TreesFound
      <4>2. QED
        BY <3>2, <4>1
    <3>3. CASE l = level /\ Searched
      <4>1. PICK e \in Link : lev[e] = l
        BY DEF Tree
      <4>2. lev[e] < level
        BY <1>1, <1>2, <3>3
      <4>3. QED
        BY <1>1, <3>3, <4>1, <4>2
    <3>4. QED
      BY <2>1, <3>1, <3>2, <3>3
  <2>4. QED
    BY <1>1, <2>1, <2>2, <2>3, TreeOfLinks
<1>5. LevelsComplete
  <2>. SUFFICES ASSUME Searched
                PROVE  {lev[e] : e \in Link} = 0 .. level - 1
    BY DEF LevelsComplete
  <2>1. ASSUME NEW e \in Link
        PROVE  lev[e] \in 0 .. level - 1
    <3>1. lev[e] \in Nat \cup {-1} /\ lev[e] # -1 /\ lev[e] < level
      BY <1>1, <1>2 DEF TreesComplete
    <3>2. QED
      BY <1>1, <3>1
  <2>2. ASSUME NEW l \in 0 .. level - 1
        PROVE  \E e \in Link : lev[e] = l
    <3>1. l \in Nat /\ l < level
      BY <1>1
    <3>2. At(l) # {} /\ At(l) = Both(Tree(l))
      BY <1>1, <1>2, <3>1, AtBoth DEF TreesComplete, TreesGood
    <3>3. Tree(l) # {}
      BY <3>2 DEF Both
    <3>4. QED
      BY <3>3 DEF Tree
  <2>3. QED
    BY <2>1, <2>2
<1>6. FirstTreeShortest
  <2>. SUFFICES ASSUME Searched
                PROVE  \E n \in Node : \A k \in 1 .. Cardinality(Node) :
                          ReachIn(Both(Tree(0)), k, n) = ReachIn(Both(Link), k, n)
    BY DEF FirstTreeShortest
  <2>1. Node # {} /\ TreesComplete
    BY <1>2 DEF Searched, TreeInv
  <2>2. CASE level = 0
    <3>1. \A e \in Link : FALSE
      BY <1>1, <1>2, <2>1, <2>2 DEF TreesComplete
    <3>2. Link = {} /\ Tree(0) = {}
      BY <3>1 DEF Tree
    <3>3. Both(Tree(0)) = Both(Link)
      BY <3>2
    <3>4. QED
      BY <2>1, <3>3
  <2>3. CASE level # 0
    <3>1. PICK root, D, d : Distances(root, D, d, At(0), Both(Link))
      BY <1>1, <2>1, <2>3 DEF TreesComplete, FirstDone
    <3>2. root \in Node
      BY <3>1 DEF Distances
    <3>3. PICK E, G : E = Both(Tree(0)) /\ G = Both(Link)
      OBVIOUS
    <3>4. E = At(0) /\ E \subseteq G /\ E \in SUBSET Channel /\ G \in SUBSET Channel
      <4>1. 0 \in Nat
        OBVIOUS
      <4>2. At(0) = Both(Tree(0)) /\ At(0) \in SUBSET Channel
        BY <1>1, <2>1, AtBoth DEF TreesComplete, TreesGood
      <4>3. At(0) \subseteq Both(Link) /\ Both(Link) \subseteq Channel
        BY <1>1, AtFacts, LinkFacts, GraphFacts
      <4>4. QED
        BY <3>3, <4>2, <4>3
    <3>5. ASSUME NEW k \in 1 .. Cardinality(Node)
          PROVE  ReachIn(E, k, root) = ReachIn(G, k, root)
      <4>1. k \in Nat
        BY NodeAssumption, FS_CardinalityType
      <4>2. PICK s : Spreads(s, E, {root}) /\ ReachIn(E, k, root) = s[k]
        BY <3>2, <3>4, <4>1, ReachInSteps
      <4>3. PICK t : Spreads(t, G, {root}) /\ ReachIn(G, k, root) = t[k]
        BY <3>2, <3>4, <4>1, ReachInSteps
      <4>4. Distances(root, D, d, E, G) /\ E \subseteq E /\ E \subseteq G /\ G \subseteq G
        BY <3>1, <3>3, <3>4
      <4>5. s[k] = {m \in D : d[m] <= k}
        BY <4>1, <4>2, <4>4, SpreadsByDistance
      <4>6. t[k] = {m \in D : d[m] <= k}
        BY <4>1, <4>3, <4>4, SpreadsByDistance
      <4>7. QED
        BY <4>2, <4>3, <4>5, <4>6
    <3>6. QED
      BY <3>2, <3>3, <3>5
  <2>4. QED
    BY <2>2, <2>3
<1>7. QED
  BY <1>4, <1>5, <1>6 DEF TreeLevels

(***************************************************************************)
(* The levels of ORDERED_BFS, whatever the graph, the roots and the order  *)
(* in which a node's links are searched: each is one tree of links that no *)
(* lower one took, all links are in one, and the ways of the first from    *)
(* its root are as short as the graph has them.                            *)
(***************************************************************************)
THEOREM TreeTheorem == Spec => []TreeLevels
<1>1. Inv /\ TreeInv => TreeLevels
  BY InvTrees
<1>2. QED
  BY <1>1, Invariance, TreeInvariance, PTL

-----------------------------------------------------------------------------
(***************************************************************************)
(* The lists of links and the sets are used while trees are taken out, and *)
(* the sets' trees stay shallow.                                           *)
(***************************************************************************)
SetsInv ==
  /\ pc # "choose" => pool = <<>> /\ remain = <<>> /\ parent = NoParents /\ height = NoHeights
  /\ Shallow(parent, height)

LEMMA SetsNext == Inv /\ SetsInv /\ [Next]_vars => SetsInv'
<1>. SUFFICES ASSUME Inv, SetsInv, [Next]_vars
              PROVE  SetsInv'
  OBVIOUS
<1>1. CASE Sort
  <2>1. pc = "sort" /\ pc' = "choose" /\ parent' = parent /\ height' = height
    BY <1>1 DEF Sort
  <2>2. QED
    BY <2>1 DEF SetsInv
<1>2. CASE choose_sp_tree_links
  <2>. DEFINE link == Head(pool)
  <2>1. pc = "choose" /\ pc' = "choose" /\ pool # <<>> /\ TreesInv /\ GraphInv
    BY <1>2 DEF choose_sp_tree_links, Inv, StepsInv
  <2>2. link[1] \in Node /\ link[2] \in Node
    <3>1. link \in Link
      BY <2>1, HeadTailProperties DEF TreesInv
    <3>2. QED
      BY <2>1, <3>1, LinkFacts, GraphFacts
  <2>3. CASE UNCHANGED <<parent, height>>
    BY <2>1, <2>3 DEF SetsInv
  <2>4. CASE ~union_set_is_same_set(link[1], link[2]) /\ union_set_merge_set(link[1], link[2])
    <3>. HIDE DEF link
    <3>1. Shallow(parent', height')
      BY <2>1, <2>2, <2>4, MergeStep DEF SetsInv, TreesInv
    <3>2. QED
      BY <2>1, <3>1 DEF SetsInv, Shallow, Under
  <2>5. QED
    BY <1>2, <2>3, <2>4 DEF choose_sp_tree_links
<1>3. CASE NextTree
  <2>1. /\ pc' # "choose" => pool' = <<>>
        /\ remain' = <<>> /\ parent' = NoParents /\ height' = NoHeights
    BY <1>3 DEF NextTree
  <2>2. Shallow(parent', height')
    BY <2>1, SingleShallow
  <2>3. QED
    BY <2>1, <2>2 DEF SetsInv, NoParents, NoHeights, Shallow, Under
<1>4. CASE UNCHANGED <<pool, remain, parent, height>> /\ (pc = "choose" => pc' = "choose")
  BY <1>4 DEF SetsInv, NoParents, NoHeights
<1>5. CASE Start \/ ExchangeDistances \/ NextTable \/ Finish
  <2>1. UNCHANGED treevars /\ pc # "choose"
    BY <1>5 DEF Start, ExchangeDistances, NextTable, Finish
  <2>2. QED
    BY <2>1, <1>4 DEF treevars
<1>6. CASE UpDownNext /\ UNCHANGED <<treevars, bfsvars, dijkvars, rts>>
  <2>1. pc # "choose"
    BY <1>6 DEF UpDownNext, ChooseRoot, BfsVisit, BfsEnd, DfsVisit, DfsEnd, Assign
  <2>2. QED
    BY <2>1, <1>4, <1>6 DEF treevars
<1>7. CASE BfsNext /\ UNCHANGED <<treevars, updownvars, dijkvars, rts>>
  <2>1. pc # "choose"
    BY <1>7 DEF BfsNext, router_bfs_node_sort, StartSearch, router_graph_do_bfs_search, EndSearch, EndSearches
  <2>2. QED
    BY <2>1, <1>4, <1>7 DEF treevars
<1>8. CASE DijkstraNext /\ UNCHANGED <<treevars, updownvars, bfsvars>>
  <2>1. pc # "choose"
    BY <1>8 DEF DijkstraNext, leveled_dijkstra_create, setup, compute, calc_rt
  <2>2. QED
    BY <2>1, <1>4, <1>8 DEF treevars
<1>9. CASE UNCHANGED vars
  BY <1>4, <1>9 DEF vars, treevars
<1>10. QED
  BY <1>1, <1>2, <1>3, <1>5, <1>6, <1>7, <1>8, <1>9 DEF Next, TreesNext

LEMMA SetsAlways == Spec => []SetsInv
<1>1. Init => SetsInv
  <2>. SUFFICES ASSUME Init
                PROVE  SetsInv
    OBVIOUS
  <2>1. pool = <<>> /\ remain = <<>> /\ parent = NoParents /\ height = NoHeights
    BY DEF Init, TreesInit
  <2>2. QED
    BY <2>1, SingleShallow DEF SetsInv
<1>2. QED
  BY <1>1, Invariance, SetsNext, PTL DEF Spec

(***************************************************************************)
(* A link is in a list as often as it should be.                           *)
(***************************************************************************)
LEMMA ListedOnce ==
  ASSUME NEW s, Distinct(s), NEW e
  PROVE  Cardinality({i \in DOMAIN s : s[i] = e}) = IF e \in Among(s) THEN 1 ELSE 0
<1>1. CASE e \in Among(s)
  <2>1. PICK i \in DOMAIN s : s[i] = e
    BY <1>1 DEF Among
  <2>2. {j \in DOMAIN s : s[j] = e} = {i}
    BY <2>1 DEF Distinct
  <2>3. QED
    BY <1>1, <2>2, FS_Singleton
<1>2. CASE e \notin Among(s)
  <2>1. {j \in DOMAIN s : s[j] = e} = {}
    BY <1>2 DEF Among
  <2>2. QED
    BY <1>2, <2>1, FS_EmptySet
<1>3. QED
  BY <1>1, <1>2

LEMMA TreesTyped ==
  ASSUME Inv, ForestInv, SetsInv
  PROVE  TreesTypeOK
<1>1. CASE pc = "choose"
  <2>1. TreesInv /\ Growing
    BY <1>1 DEF Inv, StepsInv, ForestInv
  <2>2. pool \in Seq(Link) /\ remain \in Seq(Link) /\ UnionSet(parent, height)
    BY <2>1 DEF TreesInv
  <2>3. ASSUME NEW e \in Link
        PROVE  Listed(e) + (IF lev[e] = -1 THEN 0 ELSE 1) = 1
    <3>1. Listed(e) = (IF e \in Among(pool) THEN 1 ELSE 0) + (IF e \in Among(remain) THEN 1 ELSE 0)
      BY <2>1, ListedOnce DEF Listed, Growing
    <3>2. ~(e \in Among(pool) /\ e \in Among(remain))
      BY <2>1 DEF Growing
    <3>3. lev[e] = -1 <=> e \in Among(pool) \/ e \in Among(remain)
      BY <2>1 DEF Growing
    <3>4. QED
      BY <3>1, <3>2, <3>3
  <2>4. QED
    BY <2>2, <2>3 DEF TreesTypeOK, UnionSet
<1>2. CASE pc # "choose"
  <2>1. pool = <<>> /\ remain = <<>> /\ parent = NoParents /\ height = NoHeights
    BY <1>2 DEF SetsInv
  <2>2. pool \in Seq(Link) /\ remain \in Seq(Link)
    BY <2>1, EmptySeq
  <2>3. QED
    BY <1>2, <2>1, <2>2 DEF TreesTypeOK, NoParents, NoHeights
<1>3. QED
  BY <1>1, <1>2

-----------------------------------------------------------------------------
(***************************************************************************)
(* The numbers given to nodes are those from 0 up to the next one; breadth-*)
(* first, the depths are the distances from the root.                      *)
(***************************************************************************)
NumbersGiven ==
  /\ todo \in Seq(Numbered) /\ idc \in Nat
  /\ ids \in [Node -> Nat \cup {-1}] /\ depths \in [Node -> Nat]
  /\ \A n \in Node : ids[n] < idc
  /\ \A i \in 0 .. idc - 1 : \E n \in Node : ids[n] = i

DepthsGiven == \E root : BreadthFirst(root, Numbered, todo, depths, Both(Link), Both(Link))

LEMMA RootGiven ==
  ASSUME GraphInv, depths = NoDepths, ChooseRoot
  PROVE  NumbersGiven' /\ DepthsGiven'
<1>1. PICK root \in Node : todo' = <<root>> /\ ids' = [NoIds EXCEPT ![root] = 0] /\ idc' = 1
  BY DEF ChooseRoot
<1>2. ids' = [n \in Node |-> IF n = root THEN 0 ELSE -1]
  BY <1>1 DEF NoIds
<1>3. Numbered' = {root}
  BY <1>2 DEF Numbered
<1>4. depths' = [n \in Node |-> 0] /\ Both(Link)' = Both(Link)
  BY DEF ChooseRoot, NoDepths, graph, Both, Link
<1>5. NumbersGiven'
  <2>1. todo' \in Seq(Numbered')
    BY <1>1, <1>3
  <2>2. \A i \in 0 .. 1 - 1 : ids'[root] = i
    BY <1>2
  <2>3. \A n \in Node : ids'[n] < 1
    BY <1>2
  <2>4. ids' \in [Node -> Nat \cup {-1}] /\ depths' \in [Node -> Nat] /\ idc' \in Nat
    <3>1. ids' \in [Node -> Nat \cup {-1}]
      BY <1>2
    <3>2. depths' \in [Node -> Nat]
      BY <1>4
    <3>3. QED
      BY <1>1, <3>1, <3>2
  <2>5. (\A i \in 0 .. idc - 1 : \E n \in Node : ids[n] = i)' /\ (\A n \in Node : ids[n] < idc)'
    BY <1>1, <2>2, <2>3
  <2>6. QED
    BY <2>1, <2>4, <2>5 DEF NumbersGiven
<1>6. BreadthFirst(root, {root}, <<root>>, depths', Both(Link), Both(Link))
  <2>1. DOMAIN <<root>> = {1} /\ Among(<<root>>) = {root} /\ <<root>>[1] = root
    BY DEF Among
  <2>2. depths' \in [Node -> Nat] /\ depths'[root] = 0
    BY <1>4
  <2>3. QED
    BY <2>1, <2>2 DEF BreadthFirst
<1>7. QED
  BY <1>1, <1>3, <1>4, <1>5, <1>6 DEF DepthsGiven

LEMMA BfsGiven ==
  ASSUME GraphInv, NumbersGiven, DepthsGiven, BfsVisit
  PROVE  NumbersGiven' /\ DepthsGiven'
<1>. DEFINE node == Head(todo)
            new == {n \in Peers(node) : ids[n] = -1}
            k == Cardinality(new)
<1>1. PICK order \in Arrangements(new) :
        /\ ids' = [n \in Node |-> IF n \in new THEN idc - 1 + CHOOSE i \in DOMAIN order : order[i] = n
                                  ELSE ids[n]]
        /\ depths' = [n \in Node |-> IF n \in new THEN depths[node] + 1 ELSE depths[n]]
        /\ idc' = idc + k
        /\ todo' = Tail(todo) \o order
        /\ todo # <<>> /\ UNCHANGED graph
  BY DEF BfsVisit
<1>2. new \subseteq Node /\ IsFiniteSet(new) /\ \A n \in new : ids[n] = -1
  BY PeersAreNodes, NodeAssumption, FS_Subset
<1>3. node \in Numbered /\ node \in Node /\ Tail(todo) \in Seq(Numbered)
  BY <1>1, HeadTailProperties DEF NumbersGiven, Numbered
<1>4. \A c \in Both(Link) : c[1] = node => c[2] \in Numbered \cup new
  <2>. SUFFICES ASSUME NEW c \in Both(Link), c[1] = node, c[2] \notin Numbered
                PROVE  c[2] \in new
    OBVIOUS
  <2>1. c[2] \in Node /\ c[2] \in Peers(node)
    BY LinkFacts, GraphFacts DEF Channel, Peers
  <2>2. QED
    BY <2>1 DEF Numbered
<1>5. \A m \in new : <<node, m>> \in Both(Link)
  BY PeerLinks
<1>6. new \cap Numbered = {}
  BY DEF Numbered
<1>. HIDE DEF new, node
<1>7. /\ order \in Seq(new) /\ DOMAIN order = 1 .. k /\ k \in Nat
      /\ \A x \in new : \E i \in DOMAIN order : order[i] = x
  BY <1>2, ArrangementFacts
<1>8. \A i, j \in 1 .. k : order[i] = order[j] => i = j
  BY <1>7 DEF Arrangements
<1>. HIDE DEF k
<1>9. \A i \in 1 .. k : order[i] \in new /\ order[i] \in Node /\ ids'[order[i]] = idc - 1 + i
  <2>. SUFFICES ASSUME NEW i \in 1 .. k
                PROVE  order[i] \in new /\ order[i] \in Node /\ ids'[order[i]] = idc - 1 + i
    OBVIOUS
  <2>1. order[i] \in new /\ order[i] \in Node
    BY <1>2, <1>7
  <2>2. (CHOOSE j \in DOMAIN order : order[j] = order[i]) = i
    BY <1>7, <1>8
  <2>3. QED
    BY <1>1, <2>1, <2>2
<1>10. \A n \in Node : IF n \in new THEN \E i \in 1 .. k : ids'[n] = idc - 1 + i ELSE ids'[n] = ids[n]
  <2>1. \A n \in new : \E i \in 1 .. k : order[i] = n
    BY <1>7
  <2>2. \A n \in Node : n \notin new => ids'[n] = ids[n]
    BY <1>1
  <2>3. QED
    BY <1>9, <2>1, <2>2
<1>11. idc \in Nat /\ \A n \in Node : ids[n] \in Nat \cup {-1} /\ ids[n] < idc
  BY DEF NumbersGiven
<1>12. \A n \in Node : ids'[n] \in Nat \cup {-1} /\ ids'[n] < idc' /\ (n \in new => ids'[n] # -1)
  <2>. SUFFICES ASSUME NEW n \in Node
                PROVE  ids'[n] \in Nat \cup {-1} /\ ids'[n] < idc' /\ (n \in new => ids'[n] # -1)
    OBVIOUS
  <2>1. CASE n \in new
    <3>1. PICK i \in 1 .. k : ids'[n] = idc - 1 + i
      BY <1>10, <2>1
    <3>2. idc \in Nat /\ k \in Nat /\ idc' = idc + k
      BY <1>1, <1>7, <1>11
    <3>3. QED
      BY <3>1, <3>2
  <2>2. CASE n \notin new
    BY <1>1, <1>7, <1>10, <1>11, <2>2
  <2>3. QED
    BY <2>1, <2>2
<1>13. ids' \in [Node -> Nat \cup {-1}]
  <2>1. \E f : ids' = [n \in Node |-> f[n]]
    <3>. DEFINE f == [n \in Node |-> IF n \in new THEN idc - 1 + CHOOSE i \in DOMAIN order : order[i] = n
                                     ELSE ids[n]]
    <3>1. ids' = [n \in Node |-> f[n]]
      BY <1>1
    <3>2. QED
      BY <3>1
  <2>2. QED
    BY <1>12, <2>1
<1>14. Numbered' = Numbered \cup new
  BY <1>2, <1>10, <1>12 DEF Numbered
<1>15. depths' \in [Node -> Nat]
  BY <1>1, <1>3 DEF NumbersGiven
<1>16. todo' \in Seq(Numbered')
  <2>1. Tail(todo) \in Seq(Numbered') /\ order \in Seq(Numbered')
    BY <1>3, <1>7, <1>14, SeqMonotonic
  <2>2. QED
    BY <1>1, <2>1, ConcatProperties
<1>17. ASSUME NEW i \in 0 .. idc' - 1
       PROVE  \E n \in Node : ids'[n] = i
  <2>1. CASE i < idc
    <3>1. PICK n \in Node : ids[n] = i
      BY <1>11, <2>1 DEF NumbersGiven
    <3>2. n \notin new
      BY <1>2, <3>1
    <3>3. QED
      BY <1>10, <3>1, <3>2
  <2>2. CASE ~(i < idc)
    <3>1. i - idc + 1 \in 1 .. k /\ idc - 1 + (i - idc + 1) = i
      BY <1>1, <1>7, <1>11, <2>2
    <3>2. QED
      BY <1>9, <3>1
  <2>3. QED
    BY <2>1, <2>2
<1>18. NumbersGiven'
  <2>1. idc' \in Nat
    BY <1>1, <1>7, <1>11
  <2>2. QED
    BY <1>12, <1>13, <1>15, <1>16, <1>17, <2>1 DEF NumbersGiven
<1>19. DepthsGiven'
  <2>1. PICK root : BreadthFirst(root, Numbered, todo, depths, Both(Link), Both(Link))
    BY DEF DepthsGiven
  <2>2. new \subseteq Among(order)
    BY <1>7 DEF Among
  <2>3. todo \in Seq(Numbered) /\ new \in SUBSET Node
    BY <1>2 DEF NumbersGiven
  <2>4. \A m \in new : <<Head(todo), m>> \in Both(Link)
    BY <1>5 DEF node
  <2>5. \A c \in Both(Link) : c[1] = Head(todo) => c[2] \in Numbered \cup new
    BY <1>4 DEF node
  <2>6. BreadthFirst(root, Numbered \cup new, Tail(todo) \o order, Deeper(depths, Head(todo), new),
                     Both(Link), Both(Link))
    <3>1. PICK D, B, q : D = Numbered /\ B = Both(Link) /\ q = todo
      OBVIOUS
    <3>2. /\ q # <<>> /\ q \in Seq(D) /\ new \cap D = {} /\ B \subseteq B
          /\ BreadthFirst(root, D, q, depths, B, B)
          /\ \A m \in new : <<Head(q), m>> \in B
          /\ \A c \in B : c[1] = Head(q) => c[2] \in D \cup new
      BY <1>1, <1>6, <2>1, <2>3, <2>4, <2>5, <3>1
    <3>3. BreadthFirst(root, D \cup new, Tail(q) \o order, Deeper(depths, Head(q), new), B, B)
      BY <1>7, <2>2, <2>3, <3>2, BreadthGrows
    <3>4. QED
      BY <3>1, <3>3
  <2>7. Deeper(depths, Head(todo), new) = depths' /\ Both(Link)' = Both(Link)
    BY <1>1 DEF Deeper, node, graph, Both, Link
  <2>8. QED
    BY <1>1, <1>14, <2>6, <2>7 DEF DepthsGiven
<1>20. QED
  BY <1>18, <1>19

(***************************************************************************)
(* Depth-first, par[n] is the node n was reached from.  What is numbered   *)
(* after a node that dfs_traverse is still in was reached from it or from  *)
(* a later one; and so was, of the two ends of a link, what is numbered    *)
(* after the first and up to the second.                                   *)
(***************************************************************************)
Descent(par) ==
  /\ \A n \in Numbered : ids[n] > 0 =>
       par[n] \in Numbered /\ <<par[n], n>> \in Both(Link) /\ ids[par[n]] < ids[n]
  /\ \A m, n \in Numbered : ids[m] = ids[n] => m = n
  /\ \A i, j \in DOMAIN todo : i < j => ids[todo[i]] < ids[todo[j]]
  /\ \A i \in DOMAIN todo : \A k \in Numbered : ids[todo[i]] < ids[k] => ids[todo[i]] <= ids[par[k]]
  /\ \A c \in Both(Link) : \A k \in Numbered :
       c[1] \in Numbered /\ c[2] \in Numbered /\ ids[c[1]] < ids[k] /\ ids[k] <= ids[c[2]]
         => ids[c[1]] <= ids[par[k]]

DescentGiven == \E par \in [Node -> Node] : Descent(par)

LEMMA RootDescent ==
  ASSUME GraphInv, ChooseRoot
  PROVE  DescentGiven'
<1>1. PICK root \in Node : todo' = <<root>> /\ ids' = [NoIds EXCEPT ![root] = 0] /\ idc' = 1
  BY DEF ChooseRoot
<1>2. ids' = [n \in Node |-> IF n = root THEN 0 ELSE -1]
  BY <1>1 DEF NoIds
<1>3. Numbered' = {root} /\ ids'[root] = 0
  BY <1>2 DEF Numbered
<1>4. DOMAIN todo' = {1} /\ todo'[1] = root
  BY <1>1
<1>5. PICK par \in [Node -> Node] : TRUE
  <2>1. [n \in Node |-> n] \in [Node -> Node]
    OBVIOUS
  <2>2. QED
    BY <2>1
<1>6. Descent(par)'
  <2>1. /\ \A n \in Numbered' : n = root
        /\ \A i \in DOMAIN todo' : i = 1
        /\ ~(1 < 1) /\ ~(0 < 0) /\ ~(0 > 0)
    BY <1>3, <1>4
  <2>2. \A i, j \in DOMAIN todo' : ~(i < j)
    BY <2>1
  <2>3. \A m, k \in Numbered' : ~(ids'[m] < ids'[k]) /\ ~(ids'[m] > 0)
    BY <1>3, <2>1
  <2>4. \A i \in DOMAIN todo' : todo'[i] \in Numbered'
    BY <1>3, <1>4, <2>1
  <2>5. QED
    BY <2>1, <2>2, <2>3, <2>4 DEF Descent
<1>7. QED
  BY <1>6 DEF DescentGiven

LEMMA DfsGiven ==
  ASSUME GraphInv, NumbersGiven, DescentGiven, NEW root \in Node, Numbering(root), DfsVisit
  PROVE  NumbersGiven' /\ DescentGiven'
<1>. DEFINE node == todo[Len(todo)]
            new == {n \in Peers(node) : ids[n] = -1}
<1>1. PICK par \in [Node -> Node] : Descent(par)
  BY DEF DescentGiven
<1>2. PICK n \in Nat \ {0} : n = Len(todo) /\ DOMAIN todo = 1 .. n
  BY DEF DfsVisit, NumbersGiven
<1>3. /\ node = todo[n] /\ n \in DOMAIN todo /\ node \in Numbered /\ node \in Node
      /\ todo \in Seq(Numbered) /\ \A i \in 1 .. n : todo[i] \in Numbered
  <2>1. todo \in Seq(Numbered) /\ Numbered \subseteq Node
    BY DEF NumbersGiven, Numbered
  <2>2. \A i \in 1 .. n : todo[i] \in Numbered
    BY <1>2, <2>1
  <2>3. n \in 1 .. n
    OBVIOUS
  <2>4. QED
    BY <1>2, <2>1, <2>2, <2>3
<1>4. UNCHANGED graph /\ depths' = depths /\ Both(Link)' = Both(Link)
  BY DEF DfsVisit, graph, Both, Link
<1>5. /\ idc \in Nat /\ ids \in [Node -> Nat \cup {-1}] /\ depths \in [Node -> Nat]
      /\ \A m \in Node : ids[m] < idc
  BY DEF NumbersGiven
<1>6. CASE todo' = SubSeq(todo, 1, Len(todo) - 1) /\ UNCHANGED <<ids, idc>>
  <2>1. Numbered' = Numbered
    BY <1>6 DEF Numbered
  <2>2. /\ todo' \in Seq(Numbered) /\ DOMAIN todo' = 1 .. n - 1
        /\ \A i \in 1 .. n - 1 : todo'[i] = todo[i]
    <3>1. n - 1 \in Int /\ \A i \in 1 .. n - 1 : todo[i] \in Numbered /\ i \in 1 .. n
      BY <1>2, <1>3
    <3>2. todo' = SubSeq(todo, 1, n - 1)
      BY <1>2, <1>6
    <3>3. QED
      BY <1>2, <1>3, <3>1, <3>2
  <2>3. NumbersGiven'
    BY <1>4, <1>6, <2>1, <2>2 DEF NumbersGiven
  <2>4. \A i \in DOMAIN todo' : i \in DOMAIN todo /\ todo'[i] = todo[i]
    BY <1>2, <2>2
  <2>5. Descent(par)'
    BY <1>1, <1>4, <1>6, <2>1, <2>4 DEF Descent
  <2>6. QED
    BY <2>3, <2>5 DEF DescentGiven
<1>7. ASSUME NEW peer \in Nearest(node, new), DfsNumber(node, peer, new), todo' = Append(todo, peer)
      PROVE  NumbersGiven' /\ DescentGiven'
  <2>1. peer \in Node /\ peer \in Peers(node) /\ ids[peer] = -1 /\ <<node, peer>> \in Both(Link)
    BY PeersAreNodes, PeerLinks DEF Nearest, new
  <2>2. idc' = idc + 1 /\ ids' = [ids EXCEPT ![peer] = idc]
    BY <1>7 DEF DfsNumber
  <2>3. /\ ids' \in [Node -> Nat \cup {-1}] /\ ids'[peer] = idc
        /\ \A m \in Node : m # peer => ids'[m] = ids[m]
    BY <1>5, <2>1, <2>2
  <2>4. Numbered' = Numbered \cup {peer} /\ peer \notin Numbered
    BY <1>5, <2>1, <2>3 DEF Numbered
  <2>5. /\ todo' \in Seq(Numbered') /\ DOMAIN todo' = 1 .. n + 1 /\ todo'[n + 1] = peer
        /\ \A i \in 1 .. n : todo'[i] = todo[i]
    <3>1. todo \in Seq(Numbered') /\ peer \in Numbered'
      BY <1>3, <2>4, SeqMonotonic
    <3>2. QED
      BY <1>2, <1>7, <3>1, AppendProperties
  <2>6. NumbersGiven'
    <3>1. (\A m \in Node : ids[m] < idc)'
      BY <1>5, <2>1, <2>2, <2>3
    <3>2. ASSUME NEW i \in 0 .. idc' - 1
          PROVE  \E m \in Node : ids'[m] = i
      <4>1. CASE i = idc
        BY <2>1, <2>3, <4>1
      <4>2. CASE i # idc
        <5>1. i \in 0 .. idc - 1
          BY <1>5, <2>2, <4>2
        <5>2. PICK m \in Node : ids[m] = i
          BY <5>1 DEF NumbersGiven
        <5>3. m # peer
          BY <2>1, <5>1, <5>2
        <5>4. QED
          BY <2>3, <5>2, <5>3
      <4>3. QED
        BY <4>1, <4>2
    <3>3. idc' \in Nat
      BY <1>5, <2>2
    <3>4. QED
      BY <1>4, <1>5, <2>3, <2>5, <3>1, <3>2, <3>3 DEF NumbersGiven
  <2>7. PICK par2 \in [Node -> Node] : /\ par2[peer] = node
                                       /\ \A m \in Node : m # peer => par2[m] = par[m]
    <3>1. [par EXCEPT ![peer] = node] \in [Node -> Node]
      BY <1>3
    <3>2. QED
      BY <2>1, <3>1
  <2>. HIDE DEF node, new
  <2>8. \A m \in Numbered : /\ m \in Node /\ m # peer /\ ids'[m] = ids[m] /\ par2[m] = par[m]
                            /\ ids[m] \in Nat /\ ids[m] < idc
    BY <1>5, <2>3, <2>4, <2>7 DEF Numbered
  <2>9. \A m \in Numbered : ids[m] > 0 =>
          par[m] \in Numbered /\ <<par[m], m>> \in Both(Link) /\ ids[par[m]] < ids[m]
    BY <1>1 DEF Descent
  <2>10. \A m \in Numbered' : ids'[m] > 0 =>
           par2[m] \in Numbered' /\ <<par2[m], m>> \in Both(Link) /\ ids'[par2[m]] < ids'[m]
    <3>1. ASSUME NEW m \in Numbered, ids'[m] > 0
          PROVE  par2[m] \in Numbered' /\ <<par2[m], m>> \in Both(Link) /\ ids'[par2[m]] < ids'[m]
      <4>1. par2[m] = par[m] /\ ids'[m] = ids[m]
        BY <2>8
      <4>2. par[m] \in Numbered /\ <<par[m], m>> \in Both(Link) /\ ids[par[m]] < ids[m]
        BY <2>9, <3>1, <4>1
      <4>3. QED
        BY <2>4, <2>8, <4>1, <4>2
    <3>2. par2[peer] \in Numbered' /\ <<par2[peer], peer>> \in Both(Link) /\ ids'[par2[peer]] < ids'[peer]
      BY <1>3, <2>1, <2>3, <2>4, <2>7, <2>8
    <3>3. QED
      BY <2>4, <3>1, <3>2
  <2>11. \A l, m \in Numbered' : ids'[l] = ids'[m] => l = m
    <3>1. \A l, m \in Numbered : ids'[l] = ids'[m] => l = m
      BY <1>1, <2>8 DEF Descent
    <3>2. \A m \in Numbered : ids'[m] # ids'[peer]
      BY <1>5, <2>3, <2>8
    <3>3. QED
      BY <2>4, <3>1, <3>2
  <2>12. \A i, j \in 1 .. n : i < j => ids[todo[i]] < ids[todo[j]]
    BY <1>1, <1>2 DEF Descent
  <2>13. \A i, j \in DOMAIN todo' : i < j => ids'[todo'[i]] < ids'[todo'[j]]
    <3>. SUFFICES ASSUME NEW i \in 1 .. n + 1, NEW j \in 1 .. n + 1, i < j
                  PROVE  ids'[todo'[i]] < ids'[todo'[j]]
      BY <2>5
    <3>1. i \in 1 .. n /\ todo'[i] = todo[i] /\ todo[i] \in Numbered
      BY <1>3, <2>5
    <3>2. CASE j = n + 1
      BY <2>3, <2>5, <2>8, <3>1, <3>2
    <3>3. CASE j # n + 1
      <4>1. j \in 1 .. n /\ todo'[j] = todo[j] /\ todo[j] \in Numbered
        BY <1>3, <2>5, <3>3
      <4>2. ids[todo[i]] < ids[todo[j]]
        BY <2>12, <3>1, <4>1
      <4>3. QED
        BY <2>8, <3>1, <4>1, <4>2
    <3>4. QED
      BY <3>2, <3>3
  <2>14. \A i \in 1 .. n : ids[todo[i]] <= ids[node]
    <3>. SUFFICES ASSUME NEW i \in 1 .. n
                  PROVE  ids[todo[i]] <= ids[node]
      OBVIOUS
    <3>1. CASE i = n
      BY <1>3, <2>8, <3>1
    <3>2. CASE i # n
      <4>1. i < n /\ n \in 1 .. n
        BY <3>2
      <4>2. ids[todo[i]] < ids[todo[n]]
        BY <2>12, <4>1
      <4>3. QED
        BY <1>3, <2>8, <4>2
    <3>3. QED
      BY <3>1, <3>2
  <2>15. ASSUME NEW i \in 1 .. n, NEW k \in Numbered', ids'[todo[i]] < ids'[k]
         PROVE  ids'[todo[i]] <= ids'[par2[k]]
    <3>1. ids'[todo[i]] = ids[todo[i]] /\ todo[i] \in Numbered /\ i \in DOMAIN todo
      BY <1>2, <1>3, <2>8
    <3>2. CASE k = peer
      <4>1. ids'[par2[k]] = ids[node]
        BY <1>3, <2>7, <2>8, <3>2
      <4>2. QED
        BY <2>14, <3>1, <4>1
    <3>3. CASE k # peer
      <4>1. k \in Numbered /\ ids'[k] = ids[k] /\ par2[k] = par[k]
        BY <2>4, <2>8, <3>3
      <4>2. ids[todo[i]] < ids[k]
        BY <2>15, <3>1, <4>1
      <4>3. ids[todo[i]] <= ids[par[k]]
        BY <1>1, <3>1, <4>1, <4>2 DEF Descent
      <4>4. par[k] \in Numbered
        <5>1. ids[k] > 0
          BY <2>8, <3>1, <4>1, <4>2
        <5>2. QED
          BY <2>9, <4>1, <5>1
      <4>5. QED
        BY <2>8, <3>1, <4>1, <4>3, <4>4
    <3>4. QED
      BY <3>2, <3>3
  <2>16. \A i \in DOMAIN todo' : \A k \in Numbered' :
           ids'[todo'[i]] < ids'[k] => ids'[todo'[i]] <= ids'[par2[k]]
    <3>. SUFFICES ASSUME NEW i \in 1 .. n + 1, NEW k \in Numbered', ids'[todo'[i]] < ids'[k]
                  PROVE  ids'[todo'[i]] <= ids'[par2[k]]
      BY <2>5
    <3>1. CASE i = n + 1
      <4>1. ids'[todo'[i]] = idc
        BY <2>3, <2>5, <3>1
      <4>2. ids'[k] <= idc
        BY <1>5, <2>3, <2>4, <2>8
      <4>3. ids'[k] \in Int
        BY <1>5, <2>3, <2>4, <2>8
      <4>4. QED
        BY <1>5, <4>1, <4>2, <4>3
    <3>2. CASE i # n + 1
      <4>1. i \in 1 .. n /\ todo'[i] = todo[i]
        BY <2>5, <3>2
      <4>2. QED
        BY <2>15, <4>1
    <3>3. QED
      BY <3>1, <3>2
  <2>17. \A m \in Numbered : peer \in Peers(m) => OnTodo(m)
    BY <2>4 DEF Numbering
  <2>18. ASSUME NEW c \in Both(Link), NEW k \in Numbered', c[1] \in Numbered', c[2] \in Numbered',
                ids'[c[1]] < ids'[k], ids'[k] <= ids'[c[2]]
         PROVE  ids'[c[1]] <= ids'[par2[k]]
    <3>0. \A m \in Numbered' : ids'[m] \in Nat /\ ids'[m] <= idc
      BY <1>5, <2>3, <2>4, <2>8
    <3>1. c[1] \in Numbered /\ ids'[c[1]] = ids[c[1]]
      <4>1. CASE c[1] = peer
        BY <1>5, <2>3, <2>18, <3>0, <4>1
      <4>2. QED
        BY <2>4, <2>8, <2>18, <4>1
    <3>2. CASE c[2] = peer
      <4>1. peer \in Peers(c[1])
        <5>1. c = <<c[1], c[2]>>
          BY LinkFacts, GraphFacts DEF Channel
        <5>2. QED
          BY <3>2, <5>1, PeerLinks
      <4>2. PICK i \in 1 .. n : todo[i] = c[1]
        BY <1>2, <2>17, <3>1, <4>1 DEF OnTodo
      <4>3. QED
        BY <2>15, <2>18, <4>2
    <3>3. CASE c[2] # peer
      <4>1. c[2] \in Numbered /\ ids'[c[2]] = ids[c[2]] /\ ids[c[2]] < idc
        BY <2>4, <2>8, <2>18, <3>3
      <4>2. k # peer
        BY <1>5, <2>3, <2>8, <2>18, <4>1
      <4>3. k \in Numbered /\ ids'[k] = ids[k] /\ par2[k] = par[k]
        BY <2>4, <2>8, <4>2
      <4>4. ids[c[1]] < ids[k] /\ ids[k] <= ids[c[2]]
        BY <2>18, <3>1, <4>1, <4>3
      <4>5. ids[c[1]] <= ids[par[k]]
        BY <1>1, <3>1, <4>1, <4>3, <4>4 DEF Descent
      <4>6. par[k] \in Numbered
        <5>1. ids[k] > 0
          BY <2>8, <3>1, <4>3, <4>4
        <5>2. QED
          BY <2>9, <4>3, <5>1
      <4>7. QED
        BY <2>8, <3>1, <4>3, <4>5, <4>6
    <3>4. QED
      BY <3>2, <3>3
  <2>19. Descent(par2)'
    BY <1>4, <2>10, <2>11, <2>13, <2>16, <2>18 DEF Descent
  <2>20. QED
    BY <2>6, <2>7, <2>19 DEF DescentGiven
<1>8. \/ todo' = SubSeq(todo, 1, Len(todo) - 1) /\ UNCHANGED <<ids, idc>>
      \/ \E peer \in Nearest(node, new) : DfsNumber(node, peer, new) /\ todo' = Append(todo, peer)
  BY DEF DfsVisit
<1>. HIDE DEF node, new
<1>9. QED
  BY <1>6, <1>7, <1>8

(***************************************************************************)
(* The numbers from the choice of the root until they have become levels.  *)
(***************************************************************************)
NumbersInv ==
  /\ IF pc \in {"visit", "assign", "assert_ids"} THEN NumbersGiven ELSE UpDownInit
  /\ pc \in {"visit", "assign"} /\ rttype = "UPDOWN_BFS" => DepthsGiven
  /\ pc \in {"visit", "assign"} /\ rttype = "UPDOWN_DFS" => DescentGiven
  /\ pc = "assign" /\ rttype = "UPDOWN_BFS" => Numbered = Node

LEMMA NumbersKept ==
  ASSUME NumbersInv, UNCHANGED <<rttype, conns, updownvars>>,
         pc \in {"visit", "assign", "assert_ids"} <=> pc' \in {"visit", "assign", "assert_ids"},
         pc' \in {"visit", "assign"} => pc \in {"visit", "assign"},
         pc' = "assign" /\ pc # "assign" /\ rttype = "UPDOWN_BFS" => Numbered = Node
  PROVE  NumbersInv'
<1>1. UNCHANGED <<rttype, conns, todo, ids, depths, idc>>
  BY DEF updownvars
<1>2. /\ Numbered' = Numbered /\ Both(Link)' = Both(Link) /\ UpDownInit' = UpDownInit
  BY <1>1 DEF Numbered, Link, Both, UpDownInit, NoIds, NoDepths
<1>3. NumbersGiven' = NumbersGiven
  BY <1>1, <1>2 DEF NumbersGiven
<1>4. DepthsGiven' = DepthsGiven
  BY <1>1, <1>2 DEF DepthsGiven
<1>5. DescentGiven' = DescentGiven
  BY <1>1, <1>2 DEF DescentGiven, Descent
<1>6. QED
  BY <1>1, <1>2, <1>3, <1>4, <1>5 DEF NumbersInv

LEMMA NumbersNext == Inv /\ RoutableInv /\ NumbersInv /\ [Next]_vars => NumbersInv'
<1>. SUFFICES ASSUME Inv, RoutableInv, NumbersInv, [Next]_vars
              PROVE  NumbersInv'
  OBVIOUS
<1>1. GraphInv
  BY DEF Inv
<1>2. CASE ChooseRoot
  <2>1. pc = "root" /\ pc' = "visit" /\ depths = NoDepths
    BY <1>2 DEF ChooseRoot, NumbersInv, UpDownInit
  <2>2. NumbersGiven' /\ DepthsGiven'
    BY <1>1, <1>2, <2>1, RootGiven
  <2>3. DescentGiven'
    BY <1>1, <1>2, RootDescent
  <2>4. QED
    BY <2>1, <2>2, <2>3 DEF NumbersInv
<1>3. CASE BfsVisit
  <2>1. pc = "visit" /\ pc' = "visit" /\ rttype = "UPDOWN_BFS" /\ rttype' = rttype
    BY <1>3 DEF BfsVisit, graph
  <2>2. NumbersGiven' /\ DepthsGiven'
    BY <1>1, <1>3, <2>1, BfsGiven DEF NumbersInv
  <2>3. QED
    BY <2>1, <2>2 DEF NumbersInv
<1>4. CASE DfsVisit
  <2>1. pc = "visit" /\ pc' = "visit" /\ rttype = "UPDOWN_DFS" /\ rttype' = rttype
    BY <1>4 DEF DfsVisit, graph
  <2>2. PICK root \in Node : Numbering(root)
    BY <2>1 DEF RoutableInv
  <2>3. NumbersGiven' /\ DescentGiven'
    BY <1>1, <1>4, <2>1, <2>2, DfsGiven DEF NumbersInv
  <2>4. QED
    BY <2>1, <2>3 DEF NumbersInv
<1>5. CASE BfsEnd
  <2>1. /\ pc = "visit" /\ pc' \in {"assign", "assert_ids"} /\ UNCHANGED <<rttype, conns, updownvars>>
        /\ pc' = "assign" => Numbered = Node
    BY <1>5 DEF BfsEnd, graph, Numbered
  <2>2. QED
    BY <2>1, NumbersKept
<1>6. CASE DfsEnd
  <2>1. /\ pc = "visit" /\ pc' = "assign" /\ UNCHANGED <<rttype, conns, updownvars>>
        /\ rttype = "UPDOWN_DFS"
    BY <1>6 DEF DfsEnd, graph
  <2>2. QED
    BY <2>1, NumbersKept
<1>7. CASE Assign
  <2>1. pc' = "labelled" /\ UpDownInit'
    BY <1>7 DEF Assign, UpDownInit, NoIds, NoDepths
  <2>2. QED
    BY <2>1 DEF NumbersInv
<1>8. ASSUME UNCHANGED <<graph, updownvars>>, pc \notin {"visit", "assign", "assert_ids"},
             pc' \notin {"visit", "assign", "assert_ids"}
      PROVE  NumbersInv'
  BY <1>8, NumbersKept DEF graph
<1>9. CASE Start \/ ExchangeDistances \/ NextTable \/ Finish
  BY <1>8, <1>9 DEF Start, MakeLinks, ExchangeDistances, NextTable, Finish
<1>10. CASE TreesNext /\ UNCHANGED <<updownvars, bfsvars, dijkvars, rts>>
  BY <1>8, <1>10 DEF TreesNext, Sort, choose_sp_tree_links, NextTree
<1>11. CASE BfsNext /\ UNCHANGED <<treevars, updownvars, dijkvars, rts>>
  BY <1>8, <1>11 DEF BfsNext, router_bfs_node_sort, StartSearch, router_graph_do_bfs_search, EndSearch, EndSearches
<1>12. CASE DijkstraNext /\ UNCHANGED <<treevars, updownvars, bfsvars>>
  BY <1>8, <1>12 DEF DijkstraNext, leveled_dijkstra_create, setup, compute, calc_rt
<1>13. CASE UNCHANGED vars
  BY <1>13, NumbersKept DEF vars, graph
<1>14. QED
  BY <1>2, <1>3, <1>4, <1>5, <1>6, <1>7, <1>9, <1>10, <1>11, <1>12, <1>13 DEF Next, UpDownNext

LEMMA NumbersTyped ==
  ASSUME NumbersInv
  PROVE  UpDownTypeOK
<1>1. CASE pc \in {"visit", "assign", "assert_ids"}
  <2>1. NumbersGiven
    BY <1>1 DEF NumbersInv
  <2>2. {ids[n] : n \in Node} \ {-1} = 0 .. idc - 1
    BY <2>1 DEF NumbersGiven
  <2>3. QED
    BY <2>1, <2>2 DEF NumbersGiven, UpDownTypeOK, Numbered
<1>2. CASE pc \notin {"visit", "assign", "assert_ids"}
  <2>1. todo = <<>> /\ ids = NoIds /\ depths = NoDepths /\ idc = 0
    BY <1>2 DEF NumbersInv, UpDownInit
  <2>2. \A n \in Node : ids[n] = -1
    BY <2>1 DEF NoIds
  <2>3. ids \in [Node -> Nat \cup {-1}]
    BY <2>1 DEF NoIds
  <2>4. depths \in [Node -> Nat]
    BY <2>1 DEF NoDepths
  <2>5. {ids[n] : n \in Node} \ {-1} = 0 .. idc - 1
    BY <2>1, <2>2
  <2>6. QED
    BY <2>1, <2>3, <2>4, <2>5 DEF UpDownTypeOK
<1>3. QED
  BY <1>1, <1>2

LEMMA DepthsKnown ==
  ASSUME Inv, RoutableInv, NumbersInv
  PROVE  DepthsShortest
<1>. SUFFICES ASSUME rttype = "UPDOWN_BFS", pc = "assign", NEW e \in Link
              PROVE  depths[e[1]] - depths[e[2]] \in {-1, 0, 1}
  BY DEF DepthsShortest
<1>1. todo = <<>> /\ Numbered = Node /\ GraphInv
  BY DEF Inv, RoutableInv, NumbersInv
<1>2. PICK root : BreadthFirst(root, Numbered, todo, depths, Both(Link), Both(Link))
  BY DEF NumbersInv, DepthsGiven
<1>3. Among(todo) = {}
  BY <1>1 DEF Among
<1>4. depths \in [Node -> Nat] /\ \A c \in Both(Link) : c[1] \in Node => depths[c[2]] <= depths[c[1]] + 1
  BY <1>1, <1>2, <1>3 DEF BreadthFirst
<1>5. e \in Both(Link) /\ Back(e) \in Both(Link) /\ Back(e)[1] = e[2] /\ Back(e)[2] = e[1]
  BY DEF Both, Back
<1>6. e[1] \in Node /\ e[2] \in Node
  BY <1>1, LinkFacts, GraphFacts
<1>7. depths[e[2]] <= depths[e[1]] + 1 /\ depths[e[1]] <= depths[e[2]] + 1
  BY <1>4, <1>5, <1>6
<1>8. depths[e[1]] \in Nat /\ depths[e[2]] \in Nat
  BY <1>4, <1>6
<1>9. QED
  BY <1>7, <1>8

LEMMA NoneAcross ==
  ASSUME Inv, RoutableInv, NumbersInv
  PROVE  NoCrossLinks
<1>. SUFFICES ASSUME rttype = "UPDOWN_DFS", pc = "assign", NEW c \in Both(Link), ids[c[1]] < ids[c[2]]
              PROVE  Reach({d \in Both(Link) : d[1] \in Between(c[1], c[2]) /\ d[2] \in Between(c[1], c[2])},
                           {c[1]}) = Between(c[1], c[2])
  BY DEF NoCrossLinks
<1>1. todo = <<>> /\ GraphInv /\ NumbersGiven
  BY DEF Inv, RoutableInv, NumbersInv
<1>2. PICK par \in [Node -> Node] : Descent(par)
  BY DEF NumbersInv, DescentGiven
<1>3. PICK root \in Node : Numbering(root)
  BY DEF RoutableInv
<1>4. \A n \in Node : ids[n] \in Nat \cup {-1}
  BY <1>1 DEF NumbersGiven
<1>5. /\ Both(Link) \in SUBSET Channel /\ TwoWay(Both(Link))
      /\ c \in Channel /\ c = <<c[1], c[2]>> /\ c[1] \in Node /\ c[2] \in Node
      /\ <<c[2], c[1]>> \in Both(Link)
  <2>1. Both(Link) \in SUBSET Channel /\ TwoWay(Both(Link))
    BY <1>1, LinkFacts, GraphFacts DEF TwoWay
  <2>2. QED
    BY <2>1 DEF Channel, TwoWay, Back
<1>6. c[1] \in Numbered /\ c[2] \in Numbered
  <2>1. c[2] \in Numbered
    BY <1>4, <1>5 DEF Numbered
  <2>2. c[1] \in Peers(c[2])
    BY <1>1, <1>5, PeerLinks
  <2>3. ~OnTodo(c[2])
    BY <1>1 DEF OnTodo
  <2>4. QED
    BY <1>3, <2>1, <2>2, <2>3 DEF Numbering
<1>. DEFINE B == Between(c[1], c[2])
            E == {d \in Both(Link) : d[1] \in B /\ d[2] \in B}
            R == Reach(E, {c[1]})
<1>7. \A k \in Node : k \in B <=> ids[c[1]] <= ids[k] /\ ids[k] <= ids[c[2]]
  BY <1>4, <1>5 DEF Between
<1>8. B \in SUBSET Node /\ c[1] \in B /\ E \in SUBSET Channel
  BY <1>4, <1>5, <1>7 DEF Between
<1>9. c[1] \in R /\ Closed(E, R) /\ R \subseteq B
  <2>1. Closed(E, B)
    BY DEF Closed
  <2>2. {c[1]} \in SUBSET Node /\ {c[1]} \subseteq B
    BY <1>5, <1>8
  <2>. HIDE DEF E, B
  <2>3. QED
    BY <1>8, <2>1, <2>2, ReachFacts
<1>. HIDE DEF R
<1>10. ASSUME NEW x \in B \ R
       PROVE  FALSE
  <2>1. \A k \in B : ids[k] \in Nat
    BY <1>4, <1>6, <1>7, <1>8 DEF Numbered
  <2>2. {ids[k] : k \in B \ R} \in SUBSET Nat /\ {ids[k] : k \in B \ R} # {}
    BY <1>10, <2>1
  <2>3. PICK k \in B \ R : \A m \in B \ R : ids[k] <= ids[m]
    <3>1. PICK i \in {ids[m] : m \in B \ R} : \A j \in {ids[m] : m \in B \ R} : i <= j
      BY <2>2, Least
    <3>2. QED
      BY <3>1
  <2>4. k \in Node /\ k \in Numbered /\ c[1] \in Node /\ k # c[1]
    BY <1>5, <1>8, <1>9, <2>1, <2>3 DEF Numbered
  <2>5. ids[c[1]] < ids[k] /\ ids[k] <= ids[c[2]] /\ ids[c[1]] \in Nat /\ ids[k] \in Nat /\ ids[k] > 0
    <3>1. ids[c[1]] # ids[k]
      BY <1>2, <1>6, <2>4 DEF Descent
    <3>2. ids[c[1]] <= ids[k] /\ ids[k] <= ids[c[2]]
      BY <1>7, <2>3, <2>4
    <3>3. ids[c[1]] \in Nat /\ ids[k] \in Nat
      BY <1>8, <2>1, <2>3
    <3>4. QED
      BY <3>1, <3>2, <3>3
  <2>6. par[k] \in Numbered /\ <<par[k], k>> \in Both(Link) /\ ids[par[k]] < ids[k]
    BY <1>2, <2>4, <2>5 DEF Descent
  <2>7. ids[c[1]] <= ids[par[k]]
    BY <1>2, <1>6, <2>4, <2>5 DEF Descent
  <2>8. par[k] \in Node /\ ids[par[k]] \in Int /\ ids[c[2]] \in Int
    BY <1>4, <1>5, <2>6 DEF Numbered
  <2>9. par[k] \in B
    BY <1>7, <2>5, <2>6, <2>7, <2>8
  <2>10. par[k] \in R
    BY <2>3, <2>5, <2>6, <2>8, <2>9
  <2>11. <<par[k], k>> \in E
    BY <2>3, <2>6, <2>9
  <2>. HIDE DEF E, B
  <2>12. k \in R
    BY <1>9, <2>10, <2>11 DEF Closed
  <2>13. QED
    BY <2>3, <2>12
<1>11. QED
  BY <1>9, <1>10 DEF R

-----------------------------------------------------------------------------
(***************************************************************************)
(* The sum of the distances in a table is a natural number.                *)
(***************************************************************************)
LEMMA SumsNatural ==
  ASSUME NEW D, IsFiniteSet(D), NEW table, DOMAIN table = D, \A d \in D : table[d].metric \in Nat
  PROVE  SumOf(table) \in Nat
<1>. DEFINE Adds(h) ==
              h = [S \in SUBSET DOMAIN table |->
                    IF S = {} THEN 0
                    ELSE LET d == CHOOSE d \in S : TRUE IN table[d].metric + h[S \ {d}]]
            P == SUBSET D
            B == {{}}
            one == [S \in P |-> CHOOSE d \in S : TRUE]
            r == [S \in P |-> Cardinality(S)]
            p == [S \in P |-> S \ {one[S]}]
            a == [S \in P |-> 0]
            m == [d \in D |-> table[d].metric]
            g == [z \in Nat \X P |-> IF z[2] = {} THEN 0 ELSE m[one[z[2]]] + z[1]]
<1>1. \A S \in P : S # {} => one[S] \in S /\ one[S] = CHOOSE d \in S : TRUE
  OBVIOUS
<1>2. m \in [D -> Nat] /\ \A d \in D : m[d] = table[d].metric
  OBVIOUS
<1>. HIDE DEF one, m, Adds
<1>3. \A S \in P : S \notin B => p[S] = S \ {one[S]} /\ p[S] \in P /\ r[p[S]] < r[S]
  <2>. SUFFICES ASSUME NEW S \in P, S # {}
                PROVE  S \ {one[S]} \in P /\ Cardinality(S \ {one[S]}) < Cardinality(S)
    OBVIOUS
  <2>1. IsFiniteSet(S) /\ Cardinality(S) \in Nat /\ one[S] \in S
    BY <1>1, FS_Subset, FS_CardinalityType
  <2>2. Cardinality(S \ {one[S]}) = Cardinality(S) - 1
    BY <2>1, FS_RemoveElement
  <2>3. QED
    BY <2>1, <2>2
<1>4. Descends(P, B, r, p)
  <2>1. r \in [P -> Nat]
    BY FS_Subset, FS_CardinalityType
  <2>. HIDE DEF P, B, r, p
  <2>2. QED
    BY <1>3, <2>1 DEF Descends
<1>5. a \in [P -> Nat] /\ \A S \in P : a[S] = 0
  OBVIOUS
<1>6. \A t \in Nat, S \in P : g[<<t, S>>] \in Nat /\ (S # {} => g[<<t, S>>] = m[one[S]] + t)
  BY <1>1, <1>2
<1>7. PICK f \in [P -> Nat] : Recurs(f, P, B, p, a, g)
  <2>. HIDE DEF P, B, r, p, a, g
  <2>1. QED
    BY <1>4, <1>5, <1>6, Recursion
<1>8. \A S \in P : f[S] = IF S = {} THEN 0 ELSE table[one[S]].metric + f[S \ {one[S]}]
  <2>. SUFFICES ASSUME NEW S \in P
                PROVE  f[S] = IF S = {} THEN 0 ELSE table[one[S]].metric + f[S \ {one[S]}]
    OBVIOUS
  <2>1. f[S] = IF S \in B THEN a[S] ELSE g[<<f[p[S]], S>>]
    <3>. HIDE DEF P, B, p, a, g
    <3>1. QED
      BY <1>7 DEF Recurs
  <2>2. CASE S = {}
    BY <1>5, <2>1, <2>2
  <2>3. CASE S # {}
    <3>1. one[S] \in D /\ p[S] = S \ {one[S]} /\ f[p[S]] \in Nat
      BY <1>1, <1>3, <1>7, <2>3
    <3>. HIDE DEF p, g, a
    <3>2. QED
      BY <1>2, <1>6, <2>1, <2>3, <3>1
  <2>4. QED
    BY <2>2, <2>3
<1>. DEFINE sum == CHOOSE h : Adds(h)
<1>9. \A h : Adds(h) <=>
        h = [S \in P |-> IF S = {} THEN 0 ELSE table[one[S]].metric + h[S \ {one[S]}]]
  <2>. SUFFICES ASSUME NEW h
                PROVE  [S \in P |-> IF S = {} THEN 0
                                    ELSE LET d == CHOOSE d \in S : TRUE IN table[d].metric + h[S \ {d}]]
                         = [S \in P |-> IF S = {} THEN 0 ELSE table[one[S]].metric + h[S \ {one[S]}]]
    BY DEF Adds
  <2>1. \A S \in P : S # {} => one[S] = CHOOSE d \in S : TRUE
    BY <1>1
  <2>2. QED
    BY <2>1, ZenonT(40)
<1>10. Adds(f)
  <2>1. f = [S \in P |-> f[S]]
    BY <1>7
  <2>2. f = [S \in P |-> IF S = {} THEN 0 ELSE table[one[S]].metric + f[S \ {one[S]}]]
    <3>. HIDE DEF P
    <3>1. QED
      BY <1>8, <2>1
  <2>3. QED
    BY <1>9, <2>2
<1>11. Adds(sum)
  BY <1>10
<1>12. SumOf(table) = sum[D]
  BY DEF SumOf, Adds
<1>. HIDE DEF sum
<1>13. \A S \in P : sum[S] = IF S = {} THEN 0 ELSE table[one[S]].metric + sum[S \ {one[S]}]
  <2>1. sum = [S \in P |-> IF S = {} THEN 0 ELSE table[one[S]].metric + sum[S \ {one[S]}]]
    BY <1>9, <1>11
  <2>. HIDE DEF P
  <2>2. QED
    BY <2>1
<1>. DEFINE Bad == {Cardinality(S) : S \in {T \in P : sum[T] \notin Nat}}
<1>14. Bad = {}
  <2>. SUFFICES ASSUME Bad # {}
                PROVE  FALSE
    OBVIOUS
  <2>1. Bad \in SUBSET Nat
    BY FS_Subset, FS_CardinalityType
  <2>2. PICK k \in Bad : \A j \in Bad : k <= j
    <3>. HIDE DEF Bad
    <3>1. QED
      BY <2>1, Least
  <2>3. PICK S \in P : k = Cardinality(S) /\ sum[S] \notin Nat
    BY <2>2
  <2>4. S # {}
    BY <1>13, <2>3
  <2>5. p[S] = S \ {one[S]} /\ p[S] \in P /\ Cardinality(p[S]) < Cardinality(S)
    BY <1>3, <2>4
  <2>6. Cardinality(p[S]) \in Nat /\ k \in Nat
    BY <2>1, <2>5, FS_Subset, FS_CardinalityType
  <2>. HIDE DEF p
  <2>7. sum[p[S]] \in Nat
    BY <2>2, <2>3, <2>5, <2>6
  <2>8. one[S] \in D /\ table[one[S]].metric \in Nat
    BY <1>1, <2>4
  <2>9. sum[S] = table[one[S]].metric + sum[p[S]]
    BY <1>13, <2>4, <2>5
  <2>10. QED
    BY <2>3, <2>7, <2>8, <2>9
<1>15. D \in P
  OBVIOUS
<1>16. QED
  BY <1>12, <1>14, <1>15

(***************************************************************************)
(* What the rest of the variables hold.                                    *)
(***************************************************************************)
EntriesTyped == \A s \in Node : rts[s] = NoTable \/ rts[s] \in [Node \ {s} -> Entry]

Steps == {"start", "sort", "choose", "root", "visit", "assign", "sort_nodes", "search",
          "labelled", "setup", "compute", "table", "done"} \cup Stopped

TypesInv == pc \in Steps /\ BfsTypeOK /\ EntriesTyped

LEMMA EntryTyped ==
  ASSUME GraphInv, ComputeInv, LevelsFit, src \in Node, Unreached = {}, Unreachable = {},
         NEW d \in Node \ {src}
  PROVE  EntryFor(d) \in Entry
<1>1. BestEntry(d, EntryFor(d)) /\ WideEntry(EntryFor(d))
  BY EntryBest
<1>2. GoodPath(src, d, EntryFor(d).path) /\ Arrival(d) \in Place
  BY EntryRoutes
<1>3. EntryFor(d).path \in Seq(Node)
  BY <1>2 DEF GoodPath
<1>4. EntryFor(d).metric \in Nat
  <2>1. EntryFor(d).metric = dist[Arrival(d)]
    BY DEF EntryFor
  <2>2. QED
    BY <1>2, <2>1 DEF ComputeInv, ComputeTypes
<1>5. EntryFor(d).width \in Nat
  BY <1>1, DijkstraAssumption DEF WideEntry
<1>6. \E p, m, w : EntryFor(d) = [path |-> p, metric |-> m, width |-> w]
  BY DEF EntryFor
<1>7. QED
  BY <1>3, <1>4, <1>5, <1>6 DEF Entry

LEMMA BfsTyped ==
  ASSUME GraphInv, BfsTypeOK, BfsNext
  PROVE  BfsTypeOK'
<1>1. Link' = Link /\ avgdist' = avgdist /\ Ends(Link)' = Ends(Link)
  BY DEF BfsNext, router_bfs_node_sort, StartSearch, router_graph_do_bfs_search, EndSearch,
         EndSearches, graph, Link, Ends
<1>2. Link \subseteq Channel /\ Ends(Link) \subseteq Node /\ IsFiniteSet(Ends(Link))
  <2>1. \A e \in Link : e[1] \in Node /\ e[2] \in Node
    BY LinkFacts, GraphFacts
  <2>2. Ends(Link) \subseteq Node
    BY <2>1 DEF Ends
  <2>3. QED
    BY <2>2, LinkFacts, NodeAssumption, FS_Subset
<1>3. CASE router_bfs_node_sort
  <2>1. roots' \in Arrangements(Ends(Link))
    BY <1>3 DEF router_bfs_node_sort
  <2>2. roots' \in Seq(Ends(Link))
    BY <1>2, <2>1, ArrangementFacts
  <2>3. QED
    BY <1>1, <1>3, <2>2 DEF router_bfs_node_sort, BfsTypeOK, NoMap
<1>4. CASE StartSearch
  <2>1. Head(roots) \in Ends(Link)
    BY <1>4, HeadTailProperties DEF StartSearch, BfsTypeOK
  <2>2. node_queue' = <<Head(roots)>> /\ visited' = {Head(roots)}
    BY <1>4 DEF StartSearch, Marked
  <2>3. node_queue' \in Seq(visited') /\ visited' \subseteq Ends(Link)
    BY <2>1, <2>2
  <2>4. roots' = roots /\ link_labeled' = FALSE
    BY <1>4 DEF StartSearch
  <2>5. QED
    BY <1>1, <2>3, <2>4 DEF BfsTypeOK, NoMap
<1>5. CASE router_graph_do_bfs_search
  <2>. DEFINE n == Head(node_queue)
              taken == {e \in Usable(n) : OtherEnd(e, n) \notin visited}
              new == {OtherEnd(e, n) : e \in taken}
  <2>1. PICK order \in Arrangements(new) :
          /\ visited' = visited \cup new /\ node_queue' = Tail(node_queue) \o order
          /\ node_queue # <<>> /\ roots' = roots
          /\ link_labeled' = (link_labeled \/ taken # {})
    BY <1>5 DEF router_graph_do_bfs_search, Push
  <2>2. new \subseteq Ends(Link)
    BY DEF Usable, OtherEnd, Ends
  <2>3. IsFiniteSet(new)
    BY <1>2, <2>2, FS_Subset
  <2>. HIDE DEF new
  <2>4. order \in Seq(new)
    BY <2>3, ArrangementFacts
  <2>5. Tail(node_queue) \in Seq(visited)
    BY <2>1, HeadTailProperties DEF BfsTypeOK
  <2>6. node_queue' \in Seq(visited')
    <3>1. Tail(node_queue) \in Seq(visited') /\ order \in Seq(visited')
      BY <2>1, <2>4, <2>5, SeqMonotonic
    <3>2. QED
      BY <2>1, <3>1, ConcatProperties
  <2>7. link_labeled' \in BOOLEAN
    BY <2>1 DEF BfsTypeOK
  <2>8. QED
    BY <1>1, <2>1, <2>2, <2>6, <2>7 DEF BfsTypeOK, NoMap
<1>6. CASE EndSearch
  <2>1. roots # <<>> /\ roots' = Tail(roots) /\ visited' = {} /\ node_queue' = <<>> /\ link_labeled' = link_labeled
    BY <1>6 DEF EndSearch
  <2>2. roots' \in Seq(Ends(Link))
    BY <2>1, HeadTailProperties DEF BfsTypeOK
  <2>3. node_queue' \in Seq(visited')
    BY <2>1
  <2>4. QED
    BY <1>1, <2>1, <2>2, <2>3 DEF BfsTypeOK, NoMap
<1>7. CASE EndSearches
  BY <1>1, <1>7 DEF EndSearches, BfsTypeOK, NoMap
<1>8. QED
  BY <1>3, <1>4, <1>5, <1>6, <1>7 DEF BfsNext

LEMMA TypesNext == Inv /\ TypesInv /\ [Next]_vars => TypesInv'
<1>. SUFFICES ASSUME Inv, TypesInv, [Next]_vars
              PROVE  TypesInv'
  OBVIOUS
<1>1. GraphInv /\ TablesInv
  BY DEF Inv
<1>2. ASSUME UNCHANGED <<conns, bfsvars>>
      PROVE  BfsTypeOK'
  BY <1>2 DEF TypesInv, BfsTypeOK, bfsvars, searchvars, Link, Ends, NoMap
<1>3. ASSUME UNCHANGED rts
      PROVE  EntriesTyped'
  BY <1>3 DEF TypesInv, EntriesTyped, NoTable, Entry
<1>4. CASE Start \/ NextTable \/ Finish
  BY <1>2, <1>3, <1>4 DEF Start, MakeLinks, NextTable, Finish, graph, TypesInv, Steps
<1>5. CASE ExchangeDistances
  <2>1. /\ pc' = "sort_nodes" /\ conns' = conns /\ UNCHANGED searchvars
        /\ avgdist' = [n \in Node |-> SumOf(rts[n])] /\ rts' = [n \in Node |-> NoTable] /\ AllTables
    BY <1>5 DEF ExchangeDistances, graph
  <2>2. ASSUME NEW n \in Node
        PROVE  SumOf(rts[n]) \in Nat
    <3>1. rts[n] \in [Node \ {n} -> Entry]
      BY <2>1 DEF AllTables, TypesInv, EntriesTyped
    <3>2. DOMAIN rts[n] = Node \ {n} /\ \A d \in Node \ {n} : rts[n][d].metric \in Nat
      BY <3>1 DEF Entry
    <3>3. IsFiniteSet(Node \ {n})
      BY NodeAssumption, FS_Subset
    <3>4. QED
      BY <3>2, <3>3, SumsNatural
  <2>3. avgdist' \in [Node -> Nat]
    BY <2>1, <2>2
  <2>4. BfsTypeOK'
    BY <2>1, <2>3 DEF TypesInv, BfsTypeOK, searchvars, Link, Ends
  <2>5. EntriesTyped'
    BY <2>1 DEF EntriesTyped, NoTable
  <2>6. QED
    BY <2>1, <2>4, <2>5 DEF TypesInv, Steps
<1>6. CASE TreesNext /\ UNCHANGED <<updownvars, bfsvars, dijkvars, rts>>
  <2>1. pc' \in Steps /\ conns' = conns
    BY <1>6 DEF TreesNext, Sort, choose_sp_tree_links, NextTree, graph, TypesInv, Steps
  <2>2. QED
    BY <1>2, <1>3, <1>6, <2>1 DEF TypesInv
<1>7. CASE UpDownNext /\ UNCHANGED <<treevars, bfsvars, dijkvars, rts>>
  <2>1. pc' \in Steps /\ conns' = conns
    BY <1>7 DEF UpDownNext, ChooseRoot, BfsVisit, BfsEnd, DfsVisit, DfsEnd, Assign, graph, TypesInv, Steps, Stopped
  <2>2. QED
    BY <1>2, <1>3, <1>7, <2>1 DEF TypesInv
<1>8. CASE BfsNext /\ UNCHANGED <<treevars, updownvars, dijkvars, rts>>
  <2>1. pc' \in Steps
    BY <1>8 DEF BfsNext, router_bfs_node_sort, StartSearch, router_graph_do_bfs_search, EndSearch,
                EndSearches, TypesInv, Steps
  <2>2. BfsTypeOK'
    BY <1>1, <1>8, BfsTyped DEF TypesInv
  <2>3. QED
    BY <1>3, <1>8, <2>1, <2>2 DEF TypesInv
<1>9. CASE calc_rt /\ Unreachable = {} /\ UNCHANGED bfsvars
  <2>1. /\ pc = "compute" /\ pc' \in Steps /\ conns' = conns /\ Unreached = {}
        /\ rts' = [rts EXCEPT ![src] = [d \in Node \ {src} |-> EntryFor(d)]]
    BY <1>9 DEF calc_rt, graph, Steps
  <2>2. ComputeInv /\ LevelsFit /\ src \in Node /\ DOMAIN rts = Node
    BY <2>1 DEF Inv, StepsInv, OutcomeInv, TablesInv, Levelled
  <2>. DEFINE table == [d \in Node \ {src} |-> EntryFor(d)]
  <2>3. table \in [Node \ {src} -> Entry]
    BY <1>1, <1>9, <2>1, <2>2, EntryTyped
  <2>. HIDE DEF table
  <2>4. \A s \in Node : rts'[s] = IF s = src THEN table ELSE rts[s]
    BY <2>1, <2>2 DEF table
  <2>5. EntriesTyped'
    BY <2>3, <2>4 DEF TypesInv, EntriesTyped, NoTable, Entry
  <2>6. QED
    BY <1>2, <1>9, <2>1, <2>5 DEF TypesInv
<1>10. CASE DijkstraNext /\ UNCHANGED <<treevars, updownvars, bfsvars>>
  <2>1. pc' \in Steps /\ conns' = conns
    BY <1>10 DEF DijkstraNext, leveled_dijkstra_create, setup, compute, calc_rt, graph, TypesInv, Steps, Stopped
  <2>2. rts' = rts \/ calc_rt
    BY <1>10 DEF DijkstraNext, leveled_dijkstra_create, setup, compute
  <2>3. CASE rts' = rts
    <3>1. BfsTypeOK'
      BY <1>2, <1>10, <2>1
    <3>2. EntriesTyped'
      BY <1>3, <2>3
    <3>3. QED
      BY <2>1, <3>1, <3>2 DEF TypesInv, Steps, Stopped
  <2>4. CASE calc_rt
    <3>1. rts' = rts \/ Unreachable = {}
      BY <2>4 DEF calc_rt
    <3>2. QED
      BY <1>9, <1>10, <2>3, <2>4, <3>1
  <2>5. QED
    BY <2>2, <2>3, <2>4
<1>11. CASE UNCHANGED vars
  BY <1>2, <1>3, <1>11 DEF vars, graph, TypesInv
<1>12. QED
  BY <1>4, <1>5, <1>6, <1>7, <1>8, <1>10, <1>11 DEF Next

LEMMA TablesTyped ==
  ASSUME Inv, TypesInv
  PROVE  DijkstraTypeOK
<1>1. src \in Node
  BY DEF Inv, TablesInv
<1>2. CASE pc = "setup"
  <2>1. SetupInv
    BY <1>2 DEF Inv, StepsInv
  <2>2. dist \in [Place -> Nat] /\ prev \in [Place -> Place \cup {NoPrev}] /\ reached \subseteq Place
    BY <2>1, DijkstraAssumption DEF SetupInv
  <2>3. QED
    BY <1>1, <2>2 DEF DijkstraTypeOK, TypesInv, EntriesTyped
<1>3. CASE pc = "compute"
  <2>1. dist \in [Place -> Nat] /\ prev \in [Place -> Place \cup {NoPrev}] /\ reached \subseteq Place
    BY <1>3 DEF Inv, StepsInv, ComputeInv, ComputeTypes
  <2>2. QED
    BY <1>1, <2>1 DEF DijkstraTypeOK, TypesInv, EntriesTyped
<1>4. QED
  BY <1>1, <1>2, <1>3 DEF DijkstraTypeOK, TypesInv, EntriesTyped

(***************************************************************************)
(* Everything the searches rely on: the variables have their types, the    *)
(* union-find sets are the trees of links taken so far and stay shallow,   *)
(* breadth-first depths differ by at most one over a link, depth-first no  *)
(* link joins two branches, and the distances of Dijkstra add up.          *)
(***************************************************************************)
THEOREM SearchesTheorem == Spec => []SearchesConsistent
<1>1. Init => RoutableInv /\ NumbersInv /\ TypesInv
  <2>. SUFFICES ASSUME Init
                PROVE  RoutableInv /\ NumbersInv /\ TypesInv
    OBVIOUS
  <2>1. RoutableInv
    BY DEF Init, RoutableInv, Levelled
  <2>2. NumbersInv
    BY DEF Init, NumbersInv
  <2>3. BfsTypeOK
    <3>1. /\ avgdist = NoMap /\ roots = <<>> /\ node_queue = <<>> /\ visited = {} /\ link_labeled = FALSE
      BY DEF Init, BfsInit
    <3>2. roots \in Seq(Ends(Link)) /\ node_queue \in Seq(visited)
      BY <3>1, EmptySeq
    <3>3. visited \subseteq Ends(Link) /\ link_labeled \in BOOLEAN
      BY <3>1
    <3>4. QED
      BY <3>1, <3>2, <3>3 DEF BfsTypeOK
  <2>4. EntriesTyped
    BY DEF Init, DijkstraInit, EntriesTyped
  <2>5. QED
    BY <2>1, <2>2, <2>3, <2>4 DEF TypesInv, Steps, Init
<1>2. Inv /\ ForestInv /\ SetsInv /\ RoutableInv /\ NumbersInv /\ TypesInv /\ UnionSetMatches
        /\ DistancesAddUp /\ AssertsHold
        => SearchesConsistent
  <2>. SUFFICES ASSUME Inv, ForestInv, SetsInv, RoutableInv, NumbersInv, TypesInv
                PROVE  TypeOK /\ UnionSetShallow /\ DepthsShortest /\ NoCrossLinks
    BY DEF SearchesConsistent
  <2>1. TypeOK
    <3>1. GraphInv /\ Link \subseteq Channel
      BY LinkFacts DEF Inv
    <3>2. TreesTypeOK /\ UpDownTypeOK /\ BfsTypeOK /\ DijkstraTypeOK
      BY TreesTyped, NumbersTyped, TablesTyped DEF TypesInv
    <3>3. QED
      BY <3>1, <3>2 DEF TypeOK, GraphInv, TypesInv, Steps
  <2>2. UnionSetShallow
    BY ShallowSets DEF SetsInv
  <2>3. QED
    BY <2>1, <2>2, DepthsKnown, NoneAcross
<1>3. QED
  BY <1>1, <1>2, Invariance, ForestInvariance, SetsAlways, RoutableNext, NumbersNext, TypesNext,
     SetsTheorem, DistancesTheorem, PTL DEF Spec
=============================================================================
