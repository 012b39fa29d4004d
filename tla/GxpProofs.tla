----------------------------- MODULE GxpProofs -----------------------------
(***************************************************************************)
(* Proofs about Gxp: counting lines suffices to keep the operations of all *)
(* nodes apart, so that all of them route by the same true matrix and pass *)
(* barriers or exit together, whatever their number; and that what the     *)
(* connect operations plan joins all nodes.                                *)
(***************************************************************************)
EXTENDS Gxp, FiniteSetTheorems, SequenceTheorems, WellFoundedInduction, TLAPS

-----------------------------------------------------------------------------
(***************************************************************************)
(* What is in a feed.  A ticket names a line: who wrote it, at which       *)
(* stage, and the how many-th it was.  T[<<m, s>>] are the lines of m at   *)
(* stage s, of which W[<<m, s>>] are written.                              *)
(***************************************************************************)
Stages == 1 .. 12
Ticket == Node \X Stages \X Nat
LineType ==
  [kind : {"init", "sync", "request", "ports", "conn_info", "avgdist"},
   src : Int, dst : Int, val : Int]

Written(t, W) == t[3] \in 1 .. W[<<t[1], t[2]>>]
Precedes(t, u) == t[2] < u[2] \/ (t[2] = u[2] /\ (t[1] = u[1] => t[3] < u[3]))

(***************************************************************************)
(* The k-th line in f is that of ticket at[k]; f holds all lines that were *)
(* written at stage c and later, those of a stage before those of a later  *)
(* one, and those of a node in their order.                                *)
(***************************************************************************)
Holds(f, at, c, T, W) ==
  /\ \A k \in DOMAIN f : at[k][2] >= c /\ Written(at[k], W) /\ f[k] = T[<<at[k][1], at[k][2]>>][at[k][3]]
  /\ \A t \in Ticket : t[2] >= c /\ Written(t, W) => \E k \in DOMAIN f : at[k] = t
  /\ \A j, k \in DOMAIN f : j < k => Precedes(at[j], at[k])

FeedOK(f, c, T, W) == f \in Seq(LineType) /\ \E at \in [DOMAIN f -> Ticket] : Holds(f, at, c, T, W)

Filled(T, W) ==
  /\ T \in [Node \X Stages -> Seq(LineType)] /\ W \in [Node \X Stages -> Nat]
  /\ \A x \in Node \X Stages : W[x] <= Len(T[x])

-----------------------------------------------------------------------------
LEMMA Least ==
  ASSUME NEW S \in SUBSET Nat, S # {}
  PROVE  \E m \in S : \A k \in S : m <= k
<1>1. \E m \in S : \A k \in S : ~(<<k, m>> \in OpToRel(<, Nat))
  BY NatLessThanWellFounded, WFMin
<1>2. PICK m \in S : \A k \in S : ~(<<k, m>> \in OpToRel(<, Nat))
  BY <1>1
<1>3. \A k \in S : ~(k < m)
  BY <1>2 DEF OpToRel
<1>4. \A k \in S : m <= k
  BY <1>3
<1>5. QED
  BY <1>4

LEMMA AllNaturals ==
  ASSUME NEW S, 0 \in S, \A n \in Nat : n \in S => n + 1 \in S
  PROVE  Nat \subseteq S
<1>1. SUFFICES ASSUME Nat \ S # {}
               PROVE  FALSE
  OBVIOUS
<1>2. PICK m \in Nat \ S : \A k \in Nat \ S : m <= k
  BY <1>1, Least
<1>3. m # 0 /\ m - 1 \in Nat
  BY <1>2
<1>4. m - 1 \in S
  BY <1>2, <1>3
<1>5. (m - 1) + 1 = m
  BY <1>2
<1>6. QED
  BY <1>2, <1>3, <1>4, <1>5

LEMMA NodeFacts ==
  /\ gxp_num_execs \in Nat \ {0} /\ Node = 0 .. gxp_num_execs - 1 /\ Node \subseteq Nat
  /\ IsFiniteSet(Node) /\ Cardinality(Node) = gxp_num_execs
<1>1. gxp_num_execs \in Nat \ {0} /\ Node = 0 .. gxp_num_execs - 1
  BY GxpAssumption
<1>2. IsFiniteSet(Node) /\ Cardinality(Node) = IF 0 > gxp_num_execs - 1 THEN 0 ELSE gxp_num_execs - 1 - 0 + 1
  BY <1>1, FS_Interval
<1>3. QED
  BY <1>1, <1>2

(***************************************************************************)
(* A line is added.                                                        *)
(***************************************************************************)
LEMMA FeedAppend ==
  ASSUME NEW f, NEW c \in Stages, NEW T, NEW W, Filled(T, W), FeedOK(f, c, T, W),
         NEW m \in Node, NEW s \in Stages, s >= c,
         \A x \in Node \X Stages : x[2] > s => W[x] = 0,
         W[<<m, s>>] < Len(T[<<m, s>>]),
         NEW W2, W2 = [W EXCEPT ![<<m, s>>] = @ + 1]
  PROVE  FeedOK(Append(f, T[<<m, s>>][W[<<m, s>>] + 1]), c, T, W2)
<1>. DEFINE w == W[<<m, s>>] + 1
            new == T[<<m, s>>][w]
            g == Append(f, new)
<1>1. PICK at \in [DOMAIN f -> Ticket] : Holds(f, at, c, T, W)
  BY DEF FeedOK
<1>2. f \in Seq(LineType) /\ DOMAIN f = 1 .. Len(f) /\ Len(f) \in Nat
  BY DEF FeedOK
<1>3. /\ <<m, s>> \in Node \X Stages /\ w \in Nat /\ w \in 1 .. Len(T[<<m, s>>])
      /\ W[<<m, s>>] \in Nat /\ w = W[<<m, s>>] + 1
  BY DEF Filled
<1>4. new \in LineType
  BY <1>3 DEF Filled
<1>5. g \in Seq(LineType) /\ Len(g) = Len(f) + 1 /\ DOMAIN g = 1 .. Len(f) + 1
      /\ (\A k \in 1 .. Len(f) : g[k] = f[k]) /\ g[Len(f) + 1] = new
  BY <1>2, <1>4
<1>6. /\ W2 \in [Node \X Stages -> Nat] /\ W2[<<m, s>>] = w
      /\ \A x \in Node \X Stages : x # <<m, s>> => W2[x] = W[x]
  BY <1>3 DEF Filled
<1>. HIDE DEF g, new, w
<1>7. \A x \in Node \X Stages : W[x] <= W2[x] /\ W[x] \in Nat /\ W2[x] \in Nat
  <2>1. \A x \in Node \X Stages : W[x] \in Nat /\ W2[x] \in Nat
    BY <1>6 DEF Filled
  <2>2. \A x \in Node \X Stages : x # <<m, s>> => W[x] = W2[x]
    BY <1>6
  <2>3. W[<<m, s>>] <= W2[<<m, s>>]
    BY <1>3, <1>6
  <2>4. QED
    BY <2>1, <2>2, <2>3
<1>8. \A t \in Ticket : <<t[1], t[2]>> \in Node \X Stages /\ t = <<t[1], t[2], t[3]>> /\ t[3] \in Nat
                        /\ t[2] \in Stages
  BY DEF Ticket
<1>. DEFINE it == <<m, s, w>>
            at2 == [k \in 1 .. Len(f) + 1 |-> IF k = Len(f) + 1 THEN it ELSE at[k]]
<1>9. it \in Ticket
  BY <1>3 DEF Ticket
<1>10. \A k \in 1 .. Len(f) + 1 : k = Len(f) + 1 \/ k \in 1 .. Len(f)
  BY <1>2
<1>11. \A k \in 1 .. Len(f) : k # Len(f) + 1
  BY <1>2
<1>12. at2 \in [DOMAIN g -> Ticket] /\ at2[Len(f) + 1] = it /\ \A k \in 1 .. Len(f) : at2[k] = at[k]
  <2>. HIDE DEF it
  <2>1. \A k \in 1 .. Len(f) : at[k] \in Ticket
    BY <1>2
  <2>2. Len(f) + 1 \in 1 .. Len(f) + 1 /\ \A k \in 1 .. Len(f) : k \in 1 .. Len(f) + 1
    BY <1>2
  <2>3. \A k \in 1 .. Len(f) + 1 : at2[k] \in Ticket
    BY <1>9, <1>10, <1>11, <2>1
  <2>4. QED
    BY <1>5, <1>11, <2>2, <2>3
<1>. HIDE DEF at2
<1>13. \A k \in 1 .. Len(f) : at[k] \in Ticket /\ at[k][2] >= c /\ Written(at[k], W)
                              /\ f[k] = T[<<at[k][1], at[k][2]>>][at[k][3]]
  BY <1>1, <1>2 DEF Holds
<1>14. \A t \in Ticket : Written(t, W) => Written(t, W2)
  BY <1>7, <1>8 DEF Written
<1>15. Written(it, W2)
  BY <1>3, <1>6 DEF Written
<1>16. ASSUME NEW k \in DOMAIN g
       PROVE  at2[k][2] >= c /\ Written(at2[k], W2) /\ g[k] = T[<<at2[k][1], at2[k][2]>>][at2[k][3]]
  <2>1. CASE k \in 1 .. Len(f)
    BY <1>5, <1>12, <1>13, <1>14, <2>1
  <2>2. CASE k = Len(f) + 1
    <3>1. at2[k] = it /\ g[k] = new
      BY <1>5, <1>12, <2>2
    <3>2. it[1] = m /\ it[2] = s /\ it[3] = w
      OBVIOUS
    <3>3. new = T[<<it[1], it[2]>>][it[3]]
      BY <3>2 DEF new
    <3>. HIDE DEF it
    <3>4. QED
      BY <1>15, <3>1, <3>2, <3>3
  <2>3. QED
    BY <1>5, <1>10, <2>1, <2>2
<1>17. ASSUME NEW t \in Ticket, t[2] >= c, Written(t, W2)
       PROVE  \E k \in DOMAIN g : at2[k] = t
  <2>1. CASE Written(t, W)
    <3>1. PICK k \in DOMAIN f : at[k] = t
      BY <1>1, <1>17, <2>1 DEF Holds
    <3>2. k \in DOMAIN g /\ at2[k] = t
      BY <1>2, <1>5, <1>12, <3>1
    <3>3. QED
      BY <3>2
  <2>2. CASE ~ Written(t, W)
    <3>1. <<t[1], t[2]>> = <<m, s>>
      BY <1>6, <1>8, <1>17, <2>2 DEF Written
    <3>2. t[3] = w
      <4>1. t[3] \in 1 .. w /\ t[3] \notin 1 .. W[<<m, s>>] /\ W[<<m, s>>] \in Nat
        BY <1>3, <1>6, <1>7, <1>17, <2>2, <3>1 DEF Written
      <4>2. QED
        BY <1>3, <4>1
    <3>3. t = it
      BY <1>8, <3>1, <3>2
    <3>4. QED
      <4>1. Len(f) + 1 \in DOMAIN g
        BY <1>2, <1>5
      <4>. HIDE DEF it
      <4>2. QED
        BY <1>12, <3>3, <4>1
  <2>3. QED
    BY <2>1, <2>2
<1>18. ASSUME NEW j \in DOMAIN g, NEW k \in DOMAIN g, j < k
       PROVE  Precedes(at2[j], at2[k])
  <2>1. j \in 1 .. Len(f)
    BY <1>2, <1>5, <1>18
  <2>2. CASE k \in 1 .. Len(f)
    BY <1>1, <1>2, <1>12, <1>18, <2>1, <2>2 DEF Holds
  <2>3. CASE k = Len(f) + 1
    <3>1. PICK t \in Ticket : t = at[j] /\ Written(t, W)
      BY <1>13, <2>1
    <3>2. <<t[1], t[2]>> \in Node \X Stages /\ W[<<t[1], t[2]>>] # 0
      BY <1>7, <1>8, <3>1 DEF Written
    <3>3. t[2] <= s
      BY <1>8, <3>2 DEF Stages
    <3>4. t[1] = m /\ t[2] = s => t[3] < w
      BY <1>3, <1>7, <1>8, <3>1 DEF Written
    <3>5. Precedes(t, it)
      <4>1. it[1] = m /\ it[2] = s /\ it[3] = w
        OBVIOUS
      <4>2. t[2] < s \/ t[2] = s
        <5>1. t[2] \in 1 .. 12 /\ s \in 1 .. 12
          BY <1>8 DEF Stages
        <5>2. QED
          BY <3>3, <5>1
      <4>. HIDE DEF it
      <4>3. QED
        BY <3>4, <4>1, <4>2 DEF Precedes
    <3>. HIDE DEF it
    <3>6. QED
      BY <1>12, <2>1, <2>3, <3>1, <3>5
  <2>4. QED
    BY <1>5, <1>10, <2>2, <2>3
<1>19. Holds(g, at2, c, T, W2)
  BY <1>16, <1>17, <1>18 DEF Holds
<1>20. QED
  BY <1>5, <1>12, <1>19 DEF FeedOK, g, new, w

(***************************************************************************)
(* The lines that a loop counts are the last q of every node.              *)
(***************************************************************************)
Counted(op, c, q, T) ==
  /\ q \in Nat /\ Quota(op) = gxp_num_execs * q
  /\ \A m \in Node :
       LET lines == T[<<m, c>>] IN
       /\ Len(lines) >= q /\ (q = 0 => Len(lines) = 0)
       /\ \A i \in 1 .. Len(lines) : Counts(op, lines[i]) <=> i > Len(lines) - q

Complete(c, T, W) == \A m \in Node : W[<<m, c>>] = Len(T[<<m, c>>])

Hits(op, f) == {k \in DOMAIN f : Counts(op, f[k])}

LEMMA HitsFacts ==
  ASSUME NEW f, NEW c \in Stages, NEW T, NEW W, Filled(T, W), f \in Seq(LineType),
         NEW at \in [DOMAIN f -> Ticket], Holds(f, at, c, T, W), NEW op, NEW q, Counted(op, c, q, T),
         NEW H, H = {k \in Hits(op, f) : at[k][2] = c}
  PROVE  /\ IsFiniteSet(H) /\ Cardinality(H) <= Quota(op)
         /\ (Complete(c, T, W) => Cardinality(H) = Quota(op))
         /\ (Cardinality(H) = Quota(op) => Complete(c, T, W))
<1>. DEFINE L(m) == Len(T[<<m, c>>])
            P == Node \X (1 .. q)
            g == [k \in H |-> <<at[k][1], at[k][3] - (L(at[k][1]) - q)>>]
<1>1. q \in Nat /\ IsFiniteSet(P) /\ Cardinality(P) = Quota(op)
  <2>1. IsFiniteSet(1 .. q) /\ Cardinality(1 .. q) = q /\ q \in Nat
    <3>1. q \in Nat
      BY DEF Counted
    <3>2. IsFiniteSet(1 .. q) /\ Cardinality(1 .. q) = IF 1 > q THEN 0 ELSE q - 1 + 1
      BY <3>1, FS_Interval
    <3>3. QED
      BY <3>1, <3>2
  <2>2. IsFiniteSet(P) /\ Cardinality(P) = Cardinality(Node) * Cardinality(1 .. q)
    BY <2>1, NodeFacts, FS_Product
  <2>3. Quota(op) = gxp_num_execs * q
    BY DEF Counted
  <2>4. QED
    BY <2>1, <2>2, <2>3, NodeFacts
<1>2. \A m \in Node : L(m) \in Nat /\ W[<<m, c>>] \in Nat /\ W[<<m, c>>] <= L(m) /\ L(m) >= q
  <2>1. \A m \in Node : <<m, c>> \in Node \X Stages
    OBVIOUS
  <2>2. QED
    BY <2>1 DEF Filled, Counted
<1>3. ASSUME NEW k \in DOMAIN f, at[k][2] = c
      PROVE  /\ at[k][1] \in Node /\ at[k][3] \in Nat /\ at[k][3] \in 1 .. W[<<at[k][1], c>>]
             /\ at[k] = <<at[k][1], c, at[k][3]>>
             /\ f[k] = T[<<at[k][1], c>>][at[k][3]]
             /\ Counts(op, f[k]) <=> at[k][3] > L(at[k][1]) - q
  <2>1. at[k] \in Ticket /\ Written(at[k], W) /\ f[k] = T[<<at[k][1], c>>][at[k][3]]
    BY <1>3 DEF Holds
  <2>2. at[k][1] \in Node /\ at[k][3] \in Nat /\ at[k] = <<at[k][1], c, at[k][3]>>
    BY <1>3, <2>1 DEF Ticket
  <2>3. at[k][3] \in 1 .. W[<<at[k][1], c>>]
    BY <1>3, <2>1 DEF Written
  <2>4. at[k][3] \in 1 .. L(at[k][1])
    BY <1>2, <2>2, <2>3
  <2>5. QED
    BY <2>1, <2>2, <2>3, <2>4 DEF Counted
<1>. HIDE DEF L
<1>4. ASSUME NEW k \in H
      PROVE  /\ k \in DOMAIN f /\ at[k][2] = c /\ at[k][1] \in Node
             /\ at[k][3] - (L(at[k][1]) - q) \in 1 .. q
  <2>1. k \in DOMAIN f /\ at[k][2] = c /\ Counts(op, f[k])
    BY DEF Hits
  <2>2. at[k][1] \in Node /\ at[k][3] \in Nat /\ at[k][3] > L(at[k][1]) - q /\ at[k][3] <= W[<<at[k][1], c>>]
    <3>1. /\ at[k][1] \in Node /\ at[k][3] \in Nat /\ at[k][3] \in 1 .. W[<<at[k][1], c>>]
          /\ at[k][3] > L(at[k][1]) - q
      BY <1>3, <2>1
    <3>2. W[<<at[k][1], c>>] \in Nat
      BY <1>2, <3>1
    <3>3. QED
      BY <3>1, <3>2
  <2>3. QED
    BY <1>1, <1>2, <2>1, <2>2
<1>5. g \in [H -> P]
  BY <1>4
<1>6. ASSUME NEW j \in H, NEW k \in H, g[j] = g[k]
      PROVE  j = k
  <2>1. at[j][1] = at[k][1] /\ at[j][3] - (L(at[j][1]) - q) = at[k][3] - (L(at[k][1]) - q)
    BY <1>6
  <2>2. at[j][3] \in Nat /\ at[k][3] \in Nat /\ L(at[j][1]) \in Nat /\ at[j][2] = c /\ at[k][2] = c
        /\ j \in DOMAIN f /\ k \in DOMAIN f
    BY <1>2, <1>3, <1>4
  <2>3. at[j][3] = at[k][3]
    BY <1>1, <2>1, <2>2
  <2>4. ~ Precedes(at[j], at[k]) /\ ~ Precedes(at[k], at[j])
    BY <2>1, <2>2, <2>3 DEF Precedes, Stages
  <2>5. DOMAIN f = 1 .. Len(f)
    OBVIOUS
  <2>6. ~ (j < k) /\ ~ (k < j)
    BY <2>2, <2>4 DEF Holds
  <2>7. QED
    BY <2>2, <2>5, <2>6
<1>7. g \in Injection(H, P)
  BY <1>5, <1>6 DEF Injection, IsInjective
<1>8. IsFiniteSet(H) /\ Cardinality(H) <= Cardinality(P) /\ (Cardinality(H) = Cardinality(P) <=> g \in Surjection(H, P))
  BY <1>1, <1>7, FS_Injection
<1>9. g \in Surjection(H, P) => Complete(c, T, W)
  <2>1. SUFFICES ASSUME g \in Surjection(H, P), NEW m \in Node
                 PROVE  W[<<m, c>>] = L(m)
    BY DEF Complete, L
  <2>2. CASE q = 0
    <3>1. L(m) = 0
      BY <2>2 DEF Counted, L
    <3>2. QED
      BY <1>2, <3>1
  <2>3. CASE q # 0
    <3>1. <<m, q>> \in P
      BY <1>1, <2>3
    <3>2. PICK k \in H : g[k] = <<m, q>>
      BY <2>1, <3>1 DEF Surjection
    <3>3. at[k][1] = m /\ at[k][3] - (L(m) - q) = q /\ at[k][3] \in Nat /\ at[k][3] \in 1 .. W[<<m, c>>]
      BY <1>3, <1>4, <3>2
    <3>4. QED
      BY <1>1, <1>2, <3>3
  <2>4. QED
    BY <2>2, <2>3
<1>10. Complete(c, T, W) => g \in Surjection(H, P)
  <2>0. ASSUME \A m \in Node, i \in 1 .. q : \E k \in H : g[k] = <<m, i>>
        PROVE  g \in Surjection(H, P)
    <3>1. ASSUME NEW x \in P
          PROVE  \E k \in H : g[k] = x
      <4>1. PICK m \in Node, i \in 1 .. q : x = <<m, i>>
        OBVIOUS
      <4>2. QED
        BY <2>0, <4>1
    <3>. HIDE DEF g, P
    <3>2. QED
      BY <1>5, <3>1 DEF Surjection
  <2>1. SUFFICES ASSUME Complete(c, T, W), NEW m \in Node, NEW i \in 1 .. q
                 PROVE  \E k \in H : g[k] = <<m, i>>
    <3>. HIDE DEF g, P
    <3>1. QED
      BY <2>0
  <2>. DEFINE t == <<m, c, i + (L(m) - q)>>
  <2>2. i + (L(m) - q) \in 1 .. L(m) /\ W[<<m, c>>] = L(m)
    BY <1>1, <1>2, <2>1 DEF Complete, L
  <2>3. t \in Ticket /\ t[2] >= c /\ Written(t, W)
    BY <1>1, <1>2, <2>2, SMTT(30) DEF Ticket, Written, Stages
  <2>4. PICK k \in DOMAIN f : at[k] = t
    BY <2>3 DEF Holds
  <2>5. at[k][1] = m /\ at[k][2] = c /\ at[k][3] = i + (L(m) - q)
    BY <2>4
  <2>10. i \in Nat /\ i > 0 /\ q \in Nat /\ L(m) \in Nat
    <3>1. q \in Nat /\ i \in 1 .. q /\ L(m) \in Nat
      BY <1>1, <1>2
    <3>. HIDE DEF t, g, P
    <3>2. QED
      BY <3>1
  <2>6. at[k][3] > L(m) - q
    <3>. HIDE DEF t, g, P
    <3>1. QED
      BY <2>5, <2>10
  <2>7. k \in H
    BY <1>3, <2>5, <2>6 DEF Hits
  <2>8. at[k][3] - (L(m) - q) = i
    <3>. HIDE DEF t, g, P
    <3>1. QED
      BY <2>5, <2>10
  <2>9. QED
    BY <2>5, <2>7, <2>8
<1>11. QED
  <2>. HIDE DEF g, P
  <2>1. QED
    BY <1>1, <1>8, <1>9, <1>10

LEMMA OneLast ==
  ASSUME NEW H, IsFiniteSet(H), H \subseteq Nat \ {0}, NEW k \in H \cup {0}, NEW l \in H \cup {0},
         Cardinality({j \in H : j <= k}) = Cardinality({j \in H : j <= l})
  PROVE  k = l
<1>1. ASSUME NEW a \in H \cup {0}, NEW b \in H \cup {0}, a < b,
             Cardinality({j \in H : j <= a}) = Cardinality({j \in H : j <= b})
      PROVE  FALSE
  <2>. DEFINE A == {j \in H : j <= a}
              B == {j \in H : j <= b}
  <2>0. a \in Nat /\ b \in Nat /\ b # 0 /\ b \in H /\ \A j \in H : j \in Nat
    BY <1>1
  <2>6. b <= b /\ ~ (b <= a) /\ \A j \in H : j <= a => j <= b
    BY <1>1, <2>0
  <2>1. b \in B /\ b \notin A /\ A \subseteq B /\ B \subseteq H
    BY <2>0, <2>6
  <2>. HIDE DEF A, B
  <2>2. IsFiniteSet(B)
    BY <2>1, FS_Subset
  <2>3. Cardinality(A) = Cardinality(B)
    BY <1>1 DEF A, B
  <2>4. B = A
    BY <2>1, <2>2, <2>3, FS_Subset
  <2>5. QED
    BY <2>1, <2>4
<1>2. k \in Nat /\ l \in Nat
  OBVIOUS
<1>3. k = l \/ k < l \/ l < k
  BY <1>2
<1>4. QED
  BY <1>1, <1>3

(***************************************************************************)
(* As long as a line of the stage is missing, the loop waits.              *)
(***************************************************************************)
LEMMA FeedShort ==
  ASSUME NEW f, NEW c \in Stages, NEW T, NEW W, Filled(T, W), FeedOK(f, c, T, W),
         NEW op, NEW q, Counted(op, c, q, T), ~ Complete(c, T, W),
         \A x \in Node \X Stages : x[2] > c => W[x] = 0
  PROVE  LastLine(op, f) = {}
<1>1. PICK at \in [DOMAIN f -> Ticket] : Holds(f, at, c, T, W)
  BY DEF FeedOK
<1>2. f \in Seq(LineType)
  BY DEF FeedOK
<1>. DEFINE H == {k \in Hits(op, f) : at[k][2] = c}
<1>3. IsFiniteSet(H) /\ Cardinality(H) <= Quota(op) /\ Cardinality(H) # Quota(op)
  BY <1>1, <1>2, HitsFacts
<1>4. \A k \in DOMAIN f : at[k][2] = c
  <2>1. SUFFICES ASSUME NEW k \in DOMAIN f
                 PROVE  at[k][2] = c
    OBVIOUS
  <2>2. at[k] \in Ticket /\ at[k][2] >= c /\ Written(at[k], W)
    BY <1>1 DEF Holds
  <2>3. <<at[k][1], at[k][2]>> \in Node \X Stages /\ at[k][2] \in 1 .. 12 /\ c \in 1 .. 12
    BY <2>2 DEF Ticket, Stages
  <2>4. W[<<at[k][1], at[k][2]>>] # 0
    BY <2>2, <2>3 DEF Written, Filled
  <2>5. ~ (at[k][2] > c)
    BY <2>3, <2>4
  <2>6. QED
    BY <2>2, <2>3, <2>5
<1>5. Hits(op, f) = H
  BY <1>4 DEF Hits
<1>6. ASSUME NEW k \in LastLine(op, f)
      PROVE  FALSE
  <2>. DEFINE A == {j \in Hits(op, f) : j <= k}
  <2>1. Cardinality(A) = Quota(op)
    BY <1>6 DEF LastLine, Hits
  <2>2. A \subseteq H
    BY <1>5
  <2>. HIDE DEF A, H
  <2>3. Cardinality(A) <= Cardinality(H) /\ Cardinality(A) \in Nat /\ Cardinality(H) \in Nat
    BY <1>3, <2>2, FS_Subset, FS_CardinalityType
  <2>4. QED
    BY <1>3, <2>1, <2>3
<1>7. QED
  BY <1>6

(***************************************************************************)
(* When all are there, it takes the lines of the stage and leaves others.  *)
(***************************************************************************)
Leaves(e, f, c, T, W) ==
  /\ \A k \in 1 .. e : \E m \in Node : \E i \in 1 .. Len(T[<<m, c>>]) : f[k] = T[<<m, c>>][i]
  /\ \A m \in Node : \A i \in 1 .. Len(T[<<m, c>>]) : \E k \in 1 .. e : f[k] = T[<<m, c>>][i]
  /\ \A d \in Stages :
       d > c /\ (\A x \in Node \X Stages : c < x[2] /\ x[2] < d => W[x] = 0)
       => FeedOK(SubSeq(f, e + 1, Len(f)), d, T, W)

LEMMA FeedFull ==
  ASSUME NEW f, NEW c \in Stages, NEW T, NEW W, Filled(T, W), FeedOK(f, c, T, W),
         NEW op, NEW q, Counted(op, c, q, T), Complete(c, T, W)
  PROVE  \E e \in 0 .. Len(f) : LastLine(op, f) = {e} /\ Leaves(e, f, c, T, W)
<1>1. PICK at \in [DOMAIN f -> Ticket] : Holds(f, at, c, T, W)
  BY DEF FeedOK
<1>2. f \in Seq(LineType) /\ Len(f) \in Nat /\ DOMAIN f = 1 .. Len(f) /\ c \in 1 .. 12
  BY DEF FeedOK, Stages
<1>. DEFINE H == {k \in Hits(op, f) : at[k][2] = c}
<1>3. IsFiniteSet(H) /\ Cardinality(H) = Quota(op)
  <2>0. f \in Seq(LineType)
    BY <1>2
  <2>1. IsFiniteSet(H)
    BY <1>1, <2>0, HitsFacts
  <2>2. Cardinality(H) = Quota(op)
    BY <1>1, <2>0, HitsFacts
  <2>3. QED
    BY <2>1, <2>2
<1>. DEFINE Of == {k \in DOMAIN f : at[k][2] = c}
<1>4. \A k \in 1 .. Len(f) : /\ at[k] \in Ticket /\ at[k][2] \in 1 .. 12 /\ at[k][3] \in Nat /\ at[k][1] \in Node
                             /\ at[k][2] >= c /\ Written(at[k], W)
                             /\ at[k] = <<at[k][1], at[k][2], at[k][3]>>
                             /\ f[k] = T[<<at[k][1], at[k][2]>>][at[k][3]]
  <2>1. \A k \in 1 .. Len(f) : at[k] \in Ticket
    BY <1>2
  <2>2. \A t \in Ticket : t[2] \in 1 .. 12 /\ t[3] \in Nat /\ t[1] \in Node /\ t = <<t[1], t[2], t[3]>>
    BY DEF Ticket, Stages
  <2>3. QED
    BY <1>1, <1>2, <2>1, <2>2 DEF Holds
<1>5. \A j, k \in 1 .. Len(f) : j < k => at[j][2] <= at[k][2]
  <2>1. SUFFICES ASSUME NEW j \in 1 .. Len(f), NEW k \in 1 .. Len(f), j < k
                 PROVE  at[j][2] <= at[k][2]
    OBVIOUS
  <2>2. Precedes(at[j], at[k])
    BY <1>1, <1>2, <2>1 DEF Holds
  <2>3. at[j][2] \in 1 .. 12 /\ at[k][2] \in 1 .. 12
    BY <1>4
  <2>4. QED
    BY <2>2, <2>3, SMTT(30) DEF Precedes
<1>6. PICK e \in 0 .. Len(f) : Of = 1 .. e
  <2>. DEFINE Missing == {k \in Nat : k + 1 \notin Of}
  <2>1. Missing \in SUBSET Nat /\ Len(f) \in Missing
    BY <1>2
  <2>. HIDE DEF Missing
  <2>2. PICK e \in Missing : \A k \in Missing : e <= k
    BY <2>1, Least
  <2>3. e \in Nat /\ e <= Len(f) /\ e + 1 \notin Of
    BY <2>1, <2>2 DEF Missing
  <2>4. ASSUME NEW k \in 1 .. e
        PROVE  k \in Of
    <3>1. k - 1 \in Nat /\ ~ (e <= k - 1) /\ (k - 1) + 1 = k
      BY <2>3
    <3>2. k - 1 \notin Missing
      BY <2>2, <3>1
    <3>3. QED
      BY <3>1, <3>2 DEF Missing
  <2>5. ASSUME NEW k \in Of
        PROVE  k \in 1 .. e
    <3>1. k \in 1 .. Len(f) /\ at[k][2] = c
      BY <1>2
    <3>2. CASE k > e
      <4>1. e + 1 \in 1 .. Len(f) /\ (e + 1 < k \/ e + 1 = k)
        BY <1>2, <2>3, <3>1, <3>2
      <4>2. at[e + 1][2] <= c /\ at[e + 1][2] >= c /\ at[e + 1][2] \in 1 .. 12
        BY <1>2, <1>4, <1>5, <3>1, <4>1
      <4>3. c \in 1 .. 12 /\ \A a, b \in 1 .. 12 : a >= b /\ a <= b => a = b
        BY DEF Stages
      <4>4. e + 1 \in DOMAIN f /\ at[e + 1][2] = c
        BY <1>2, <4>1, <4>2, <4>3
      <4>5. e + 1 \in Of
        BY <4>4
      <4>6. QED
        BY <2>3, <4>5
    <3>3. QED
      BY <2>3, <3>1, <3>2
  <2>6. Of = 1 .. e
    BY <2>4, <2>5
  <2>7. QED
    BY <1>2, <2>3, <2>6
<1>7. e \in Nat /\ e <= Len(f) /\ H \subseteq Of /\ H \subseteq Hits(op, f) /\ Hits(op, f) \subseteq DOMAIN f
  BY <1>2 DEF Hits
<1>8. \A m \in Node : /\ <<m, c>> \in Node \X Stages /\ W[<<m, c>>] = Len(T[<<m, c>>])
                      /\ Len(T[<<m, c>>]) \in Nat
  BY DEF Complete, Filled
<1>9. \A k \in 1 .. e : /\ k \in 1 .. Len(f) /\ at[k][2] = c /\ at[k][1] \in Node
                        /\ at[k][3] \in 1 .. Len(T[<<at[k][1], c>>])
                        /\ f[k] = T[<<at[k][1], c>>][at[k][3]]
  <2>1. \A k \in 1 .. e : k \in 1 .. Len(f) /\ at[k][2] = c
    BY <1>2, <1>6, <1>7
  <2>2. QED
    BY <1>4, <1>8, <2>1, ZenonT(60) DEF Written
<1>10. ASSUME NEW m \in Node, NEW i \in 1 .. Len(T[<<m, c>>])
       PROVE  \E k \in 1 .. e : at[k] = <<m, c, i>>
  <2>. DEFINE t == <<m, c, i>>
  <2>1. t \in Ticket /\ t[2] >= c /\ Written(t, W) /\ t[2] = c
    BY <1>2, <1>8 DEF Ticket, Written, Stages
  <2>2. PICK k \in DOMAIN f : at[k] = t
    BY <1>1, <2>1 DEF Holds
  <2>3. k \in Of
    BY <2>1, <2>2
  <2>4. QED
    BY <1>6, <2>2, <2>3
<1>11. e # 0 => e \in Hits(op, f)
  <2>1. SUFFICES ASSUME e # 0, ~ Counts(op, f[e])
                 PROVE  FALSE
    BY <1>2, <1>7 DEF Hits
  <2>13. e \in 1 .. e
    BY <1>7, <2>1
  <2>14. PICK m \in Node : m = at[e][1]
    BY <1>9, <2>13
  <2>2. PICK i \in 1 .. Len(T[<<m, c>>]) : i = at[e][3] /\ f[e] = T[<<m, c>>][i]
    BY <1>9, <2>13, <2>14
  <2>3. Len(T[<<m, c>>]) \in Nat /\ i \in Nat /\ i <= Len(T[<<m, c>>]) /\ 1 <= i
    BY <1>8
  <2>4. q \in Nat /\ ~ (i > Len(T[<<m, c>>]) - q) /\ (q = 0 => Len(T[<<m, c>>]) = 0)
    BY <2>1, <2>2 DEF Counted
  <2>5. i < Len(T[<<m, c>>]) /\ Len(T[<<m, c>>]) \in 1 .. Len(T[<<m, c>>])
    BY <2>3, <2>4
  <2>6. PICK k \in 1 .. e : at[k] = <<m, c, Len(T[<<m, c>>])>>
    BY <1>10, <2>5
  <2>7. at[k][1] = m /\ at[k][2] = c /\ at[k][3] = Len(T[<<m, c>>])
    BY <2>6
  <2>8. k # e
    BY <2>2, <2>3, <2>5, <2>7, <2>14
  <2>9. k < e /\ k \in DOMAIN f /\ e \in DOMAIN f
    BY <1>2, <1>7, <2>8
  <2>10. Precedes(at[k], at[e])
    BY <1>1, <2>9 DEF Holds
  <2>11. at[e][1] = m /\ at[e][2] = c /\ at[e][3] = i
    BY <1>9, <2>2, <2>13, <2>14
  <2>12. QED
    BY <1>2, <2>3, <2>5, <2>7, <2>10, <2>11 DEF Precedes
<1>12. {j \in Hits(op, f) : j <= e} = H
  <2>1. \A j \in Hits(op, f) : j \in 1 .. Len(f)
    BY <1>2, <1>7
  <2>2. \A j \in Hits(op, f) : j <= e <=> j \in Of
    BY <1>6, <1>7, <2>1
  <2>3. \A j \in Hits(op, f) : j \in Of <=> at[j][2] = c
    BY <1>7
  <2>4. QED
    BY <2>2, <2>3
<1>13. IsFiniteSet(Hits(op, f)) /\ Hits(op, f) \subseteq Nat \ {0}
  <2>1. IsFiniteSet(1 .. Len(f))
    BY <1>2, FS_Interval
  <2>2. IsFiniteSet(Hits(op, f))
    BY <1>2, <1>7, <2>1, FS_Subset
  <2>3. QED
    BY <1>2, <1>7, <2>2
<1>14. LastLine(op, f) = {e}
  <2>1. LastLine(op, f) = {k \in Hits(op, f) \cup {0} : Cardinality({j \in Hits(op, f) : j <= k}) = Quota(op)}
    BY DEF LastLine, Hits
  <2>2. e \in LastLine(op, f)
    BY <1>3, <1>11, <1>12, <2>1
  <2>3. ASSUME NEW k \in LastLine(op, f)
        PROVE  k = e
    <3>. HIDE DEF H
    <3>1. k \in Hits(op, f) \cup {0} /\ e \in Hits(op, f) \cup {0}
          /\ Cardinality({j \in Hits(op, f) : j <= k}) = Cardinality({j \in Hits(op, f) : j <= e})
      BY <1>3, <1>11, <1>12, <2>1
    <3>2. QED
      BY <1>13, <3>1, OneLast
  <2>4. QED
    BY <2>2, <2>3
<1>15. /\ \A k \in 1 .. e : \E m \in Node : \E i \in 1 .. Len(T[<<m, c>>]) : f[k] = T[<<m, c>>][i]
       /\ \A m \in Node : \A i \in 1 .. Len(T[<<m, c>>]) : \E k \in 1 .. e : f[k] = T[<<m, c>>][i]
  <2>1. ASSUME NEW k \in 1 .. e
        PROVE  \E m \in Node : \E i \in 1 .. Len(T[<<m, c>>]) : f[k] = T[<<m, c>>][i]
    BY <1>9
  <2>2. ASSUME NEW m \in Node, NEW i \in 1 .. Len(T[<<m, c>>])
        PROVE  \E k \in 1 .. e : f[k] = T[<<m, c>>][i]
    <3>1. PICK k \in 1 .. e : at[k] = <<m, c, i>>
      BY <1>10
    <3>2. at[k][1] = m /\ at[k][3] = i
      BY <3>1
    <3>3. QED
      BY <1>9, <3>2
  <2>3. QED
    BY <2>1, <2>2
<1>16. ASSUME NEW d \in Stages, d > c,
              \A x \in Node \X Stages : c < x[2] /\ x[2] < d => W[x] = 0
       PROVE  FeedOK(SubSeq(f, e + 1, Len(f)), d, T, W)
  <2>. DEFINE g == SubSeq(f, e + 1, Len(f))
              n == Len(f) - e
              at2 == [k \in 1 .. n |-> at[e + k]]
  <2>1. /\ g \in Seq(LineType) /\ DOMAIN g = 1 .. n /\ n \in Nat
        /\ \A k \in 1 .. n : g[k] = f[e + k] /\ e + k \in 1 .. Len(f)
    BY <1>2, <1>7
  <2>. HIDE DEF g
  <2>2. at2 \in [DOMAIN g -> Ticket] /\ \A k \in 1 .. n : at2[k] = at[e + k]
    BY <1>4, <2>1
  <2>. HIDE DEF at2, n
  <2>3. d \in 1 .. 12
    BY DEF Stages
  <2>4. ASSUME NEW k \in 1 .. Len(f), k > e
        PROVE  at[k][2] >= d
    <3>1. k \notin Of
      BY <1>6, <1>7, <2>4
    <3>2. at[k][2] > c /\ at[k][2] \in 1 .. 12
      <4>1. k \in DOMAIN f /\ at[k][2] # c
        BY <1>2, <3>1
      <4>2. at[k][2] >= c /\ at[k][2] \in 1 .. 12
        BY <1>4
      <4>3. c \in 1 .. 12 /\ \A a, b \in 1 .. 12 : a >= b /\ a # b => a > b
        BY DEF Stages
      <4>4. QED
        BY <4>1, <4>2, <4>3
    <3>3. <<at[k][1], at[k][2]>> \in Node \X Stages /\ W[<<at[k][1], at[k][2]>>] # 0
      <4>1. <<at[k][1], at[k][2]>> \in Node \X Stages
        BY <1>4 DEF Stages
      <4>2. at[k][3] \in 1 .. W[<<at[k][1], at[k][2]>>] /\ W[<<at[k][1], at[k][2]>>] \in Nat
        BY <1>4, <4>1 DEF Written, Filled
      <4>3. QED
        BY <4>1, <4>2
    <3>4. ~ (at[k][2] < d)
      BY <1>16, <3>2, <3>3
    <3>5. \A a, b \in 1 .. 12 : ~ (a < b) => a >= b
      OBVIOUS
    <3>6. QED
      BY <2>3, <3>2, <3>4, <3>5
  <2>5. ASSUME NEW k \in 1 .. n
        PROVE  at2[k][2] >= d /\ Written(at2[k], W) /\ g[k] = T[<<at2[k][1], at2[k][2]>>][at2[k][3]]
    <3>1. e + k \in 1 .. Len(f) /\ e + k > e
      BY <1>7, <2>1
    <3>2. QED
      BY <1>4, <2>1, <2>2, <2>4, <3>1
  <2>6. ASSUME NEW t \in Ticket, t[2] >= d, Written(t, W)
        PROVE  \E k \in 1 .. n : at2[k] = t
    <3>1. t[2] \in 1 .. 12
      BY DEF Ticket, Stages
    <3>2. t[2] > c /\ t[2] >= c /\ t[2] # c
      <4>1. \A s, a, b \in 1 .. 12 : s >= a /\ a > b => s > b /\ s >= b /\ s # b
        OBVIOUS
      <4>2. c \in 1 .. 12 /\ d > c
        BY <1>16 DEF Stages
      <4>3. QED
        BY <2>3, <2>6, <3>1, <4>1, <4>2
    <3>3. PICK k \in DOMAIN f : at[k] = t
      BY <1>1, <2>6, <3>2 DEF Holds
    <3>4. k \in 1 .. Len(f) /\ k \notin 1 .. e
      BY <1>2, <1>6, <3>2, <3>3
    <3>5. k - e \in 1 .. n /\ e + (k - e) = k
      BY <1>2, <1>7, <3>4 DEF n
    <3>6. QED
      BY <2>2, <3>3, <3>5
  <2>7. ASSUME NEW j \in 1 .. n, NEW k \in 1 .. n, j < k
        PROVE  Precedes(at2[j], at2[k])
    <3>1. e + j \in DOMAIN f /\ e + k \in DOMAIN f /\ e + j < e + k
      BY <1>2, <1>7, <2>1, <2>7
    <3>2. QED
      BY <1>1, <2>2, <3>1 DEF Holds
  <2>8. Holds(g, at2, d, T, W)
    BY <2>1, <2>5, <2>6, <2>7 DEF Holds
  <2>9. FeedOK(g, d, T, W)
    BY <2>1, <2>2, <2>8 DEF FeedOK
  <2>10. QED
    BY <2>9 DEF g
<1>17. Leaves(e, f, c, T, W)
  BY <1>15, <1>16 DEF Leaves
<1>18. QED
  BY <1>14, <1>17

-----------------------------------------------------------------------------
(***************************************************************************)
(* The operations in the order in which nodes come to them, and those at   *)
(* which lines are written.                                                *)
(***************************************************************************)
Stage(o) ==
  CASE o = "init" -> 1 [] o = "sync0" -> 2 [] o = "request" -> 3 [] o = "ports" -> 4
    [] o = "connect" -> 5 [] o = "conn_info" -> 6 [] o = "compute" -> 7 [] o = "exit" -> 8
    [] o = "avgdist" -> 9 [] o = "exchange_rt" -> 10 [] o = "sync" -> 11 [] o = "done" -> 12

At(n) == Stage(pc[n])

Speaking ==
  {1, 4, 6, 11} \cup (IF setting.scheme = "locality" THEN {2, 3} ELSE {})
                \cup (IF setting.rttype = "ORDERED_BFS" THEN {9} ELSE {})

(***************************************************************************)
(* The lines of a node at a stage, and how many of them are written.       *)
(***************************************************************************)
Lines(m, s) ==
  CASE s = 1 -> <<Line("init", m, Nothing, Nothing)>>
    [] s = 2 -> <<SyncLine>>
    [] s = 3 -> RequestLines(m, request[m])
    [] s = 4 -> <<PortLine(m)>>
    [] s = 6 -> ConnLines(m, plan[m])
    [] s = 9 -> <<Line("avgdist", m, Nothing, avgdist(conn_mat[m], m))>>
    [] s = 11 -> <<SyncLine>>

Text == [x \in Node \X Stages |-> IF x[2] \in Speaking THEN Lines(x[1], x[2]) ELSE <<>>]
Posted ==
  [x \in Node \X Stages |->
     IF x[2] < At(x[1]) THEN Len(Text[x])
     ELSE IF x[2] = At(x[1]) THEN Len(Text[x]) - Len(out[x[1]]) ELSE 0]

(***************************************************************************)
(* The invariant.  What n has yet to write is the end of its lines; it has *)
(* read the lines of the stages before, which all have written; and these  *)
(* lines were the same for all.                                            *)
(***************************************************************************)
DataTypes ==
  /\ peer_hostnames \in [Node -> SUBSET Node] /\ peer_eps \in [Node -> SUBSET Node]
  /\ request \in [Node -> SUBSET Node] /\ plan \in [Node -> SUBSET Node] /\ links \subseteq Node \X Node
  /\ conn_mat \in [Node -> [Channel -> Nat \cup {GXP_NO_RTT}]]
  /\ avgdist_map \in [Node -> [Node -> Nat]] /\ DOMAIN rts = Node

Types ==
  /\ setting \in Settings /\ pc \in [Node -> Ops \ {"lost"}]
  /\ out \in [Node -> Seq(LineType)] /\ feed \in [Node -> Seq(LineType)]
  /\ \A n \in Node : /\ pc[n] \in {"sync0", "request"} => setting.scheme = "locality"
                     /\ pc[n] = "avgdist" => setting.rttype = "ORDERED_BFS"
  /\ DataTypes

Outs ==
  \A n \in Node : LET all == Text[<<n, At(n)>>] IN
    Len(out[n]) <= Len(all) /\ out[n] = SubSeq(all, Len(all) - Len(out[n]) + 1, Len(all))

Behind(n, s) == At(n) > s \/ (At(n) = s /\ out[n] = <<>>)
Passed == \A m, n \in Node, s \in Speaking : s < At(m) => Behind(n, s)

Feeds == \A n \in Node : FeedOK(feed[n], At(n), Text, Posted)

Talk == Types /\ Outs /\ Passed /\ Feeds

-----------------------------------------------------------------------------
(***************************************************************************)
(* Lines.                                                                  *)
(***************************************************************************)
LEMMA LineFacts ==
  ASSUME NEW k \in {"init", "sync", "request", "ports", "conn_info", "avgdist"},
         NEW s \in Int, NEW d \in Int, NEW v \in Int
  PROVE  /\ Line(k, s, d, v) \in LineType
         /\ Line(k, s, d, v).kind = k /\ Line(k, s, d, v).src = s
         /\ Line(k, s, d, v).dst = d /\ Line(k, s, d, v).val = v
BY DEF Line, LineType

LEMMA RequestFacts ==
  ASSUME NEW n \in Node, NEW wants \in SUBSET Node
  PROVE  LET r == RequestLines(n, wants) IN
         /\ r \in Seq(LineType) /\ Len(r) \in Nat \ {0}
         /\ \A i \in 1 .. Len(r) : r[i].kind = "request" /\ r[i].dst = n /\ (r[i].src = -1 <=> i = Len(r))
         /\ \A i \in 1 .. Len(r) : i # Len(r) => r[i].src \in wants \ Later(n)
         /\ \A m \in wants \ Later(n) : \E i \in 1 .. Len(r) : r[i].src = m
<1>. DEFINE S == wants \ Later(n)
            asked == SetToSeq(S)
            h == [i \in DOMAIN asked |-> ConnectBack(n, asked[i])]
            last == Line("request", -1, n, Nothing)
            r == Append(h, last)
            k == Cardinality(S)
<1>1. IsFiniteSet(S) /\ S \subseteq Node
  BY NodeFacts, FS_Subset
<1>2. k \in Nat /\ \E f : f \in Bijection(1 .. k, S)
  BY <1>1, FS_CardinalityType DEF ExistsBijection
<1>3. asked \in [1 .. k -> S] /\ \A m \in S : \E i \in 1 .. k : asked[i] = m
  <2>1. PICK f : f \in Bijection(1 .. k, S)
    BY <1>2
  <2>2. f \in [1 .. k -> S] /\ IsInjective(f)
    BY <2>1 DEF Bijection, Injection, IsInjective
  <2>3. asked \in [1 .. k -> S] /\ IsInjective(asked)
    BY <2>2 DEF SetToSeq
  <2>4. asked \in Injection(1 .. k, S)
    BY <2>3 DEF Injection, IsInjective
  <2>5. IsFiniteSet(1 .. k) /\ Cardinality(1 .. k) = k
    <3>1. IsFiniteSet(1 .. k) /\ Cardinality(1 .. k) = IF 1 > k THEN 0 ELSE k - 1 + 1
      BY <1>2, FS_Interval
    <3>2. QED
      BY <1>2, <3>1
  <2>6. asked \in Surjection(1 .. k, S)
    BY <1>1, <2>4, <2>5, FS_Injection
  <2>7. QED
    BY <2>3, <2>6 DEF Surjection
<1>4. n \in Int /\ S \subseteq Int /\ -1 \in Int /\ Nothing \in Int /\ \A m \in S : m # -1
  BY <1>1, NodeFacts DEF Nothing
<1>. HIDE DEF asked, k
<1>5. \A i \in 1 .. k : h[i] = Line("request", asked[i], n, Nothing) /\ asked[i] \in S
  BY <1>3 DEF ConnectBack
<1>. HIDE DEF S
<1>6. \A i \in 1 .. k : /\ h[i] \in LineType /\ h[i].kind = "request" /\ h[i].src = asked[i]
                        /\ h[i].dst = n /\ asked[i] \in S
  <2>1. SUFFICES ASSUME NEW i \in 1 .. k
                 PROVE  /\ h[i] \in LineType /\ h[i].kind = "request" /\ h[i].src = asked[i]
                        /\ h[i].dst = n /\ asked[i] \in S
    OBVIOUS
  <2>. DEFINE a == asked[i]
  <2>2. a \in S /\ h[i] = Line("request", a, n, Nothing)
    BY <1>5
  <2>3. a \in Int /\ n \in Int /\ Nothing \in Int
    BY <1>4, <2>2
  <2>. HIDE DEF h, a
  <2>4. h[i] \in LineType /\ h[i].kind = "request" /\ h[i].src = a /\ h[i].dst = n
    BY <2>2, <2>3 DEF Line, LineType
  <2>5. QED
    BY <2>2, <2>4 DEF a
<1>7. last \in LineType /\ last.kind = "request" /\ last.src = -1 /\ last.dst = n
  BY <1>4 DEF Line, LineType
<1>8. h \in [1 .. k -> LineType]
  BY <1>3, <1>6
<1>. HIDE DEF h, last
<1>9. h \in Seq(LineType) /\ Len(h) = k
  BY <1>2, <1>8
<1>10. /\ r \in Seq(LineType) /\ Len(r) = k + 1 /\ r[k + 1] = last
       /\ \A i \in 1 .. k : r[i] = h[i]
  BY <1>2, <1>7, <1>9
<1>. HIDE DEF r
<1>11. \A i \in 1 .. k + 1 : i \in 1 .. k \/ i = k + 1
  BY <1>2
<1>12. \A i \in 1 .. k : i # k + 1 /\ i \in 1 .. k + 1
  BY <1>2
<1>13. \A i \in 1 .. Len(r) : r[i].kind = "request" /\ r[i].dst = n /\ (r[i].src = -1 <=> i = Len(r))
  BY <1>4, <1>6, <1>7, <1>10, <1>11, <1>12
<1>14. \A i \in 1 .. Len(r) : i # Len(r) => r[i].src \in S
  BY <1>6, <1>10, <1>11
<1>15. \A m \in S : \E i \in 1 .. Len(r) : r[i].src = m
  BY <1>3, <1>6, <1>10, <1>12
<1>16. RequestLines(n, wants) = r
  BY DEF RequestLines, r, h, last, asked, S
<1>17. QED
  BY <1>2, <1>10, <1>13, <1>14, <1>15, <1>16 DEF S

LEMMA RttType ==
  ASSUME NEW n \in Node, NEW m \in Node
  PROVE  rtt(n, m) \in Nat /\ rtt(n, m) # GXP_NO_RTT
<1>1. n \in Nat /\ m \in Nat /\ n + m \in Nat /\ gxp_num_execs \in Nat \ {0}
  BY NodeFacts
<1>. DEFINE a == n + m
<1>2. a % gxp_num_execs \in Nat
  <2>1. a \in Nat
    BY <1>1
  <2>. HIDE DEF a
  <2>2. QED
    BY <1>1, <2>1
<1>3. QED
  BY <1>2 DEF rtt, GXP_NO_RTT

LEMMA ConnFacts ==
  ASSUME NEW n \in Node, NEW p \in SUBSET Node
  PROVE  LET r == ConnLines(n, p) IN
         /\ r \in Seq(LineType) /\ Len(r) = gxp_num_execs - 1
         /\ \A i \in 1 .. Len(r) : /\ r[i].kind = "conn_info" /\ r[i].src = n /\ r[i].dst \in Node \ {n}
                                   /\ r[i].val = IF r[i].dst \in p THEN rtt(n, r[i].dst) ELSE GXP_NO_RTT
         /\ \A m \in Node \ {n} : \E i \in 1 .. Len(r) : r[i].dst = m
<1>. DEFINE peer(i) == IF i <= n THEN i - 1 ELSE i
            val(i) == IF peer(i) \in p THEN rtt(n, peer(i)) ELSE GXP_NO_RTT
            r == [i \in 1 .. gxp_num_execs - 1 |-> Line("conn_info", n, peer(i), val(i))]
<1>1. gxp_num_execs - 1 \in Nat /\ n \in Nat /\ n <= gxp_num_execs - 1
  BY NodeFacts
<1>2. ASSUME NEW i \in 1 .. gxp_num_execs - 1
      PROVE  peer(i) \in Node \ {n} /\ peer(i) \in Int
  BY <1>1, NodeFacts
<1>3. ASSUME NEW m \in Node \ {n}
      PROVE  \E i \in 1 .. gxp_num_execs - 1 : peer(i) = m
  <2>1. m \in Nat /\ m <= gxp_num_execs - 1 /\ m # n
    BY NodeFacts
  <2>2. CASE m < n
    <3>1. m + 1 \in 1 .. gxp_num_execs - 1 /\ peer(m + 1) = m
      BY <1>1, <2>1, <2>2
    <3>2. QED
      BY <3>1
  <2>3. CASE m > n
    <3>1. m \in 1 .. gxp_num_execs - 1 /\ peer(m) = m
      BY <1>1, <2>1, <2>3
    <3>2. QED
      BY <3>1
  <2>4. QED
    BY <1>1, <2>1, <2>2, <2>3
<1>. HIDE DEF peer
<1>4. ASSUME NEW i \in 1 .. gxp_num_execs - 1
      PROVE  val(i) \in Int
  BY <1>2, RttType DEF GXP_NO_RTT
<1>5. ASSUME NEW i \in 1 .. gxp_num_execs - 1
      PROVE  /\ r[i] \in LineType /\ r[i].kind = "conn_info" /\ r[i].src = n /\ r[i].dst = peer(i)
             /\ r[i].val = val(i)
  <2>1. n \in Int /\ peer(i) \in Int /\ val(i) \in Int /\ r[i] = Line("conn_info", n, peer(i), val(i))
    BY <1>1, <1>2, <1>4
  <2>. HIDE DEF val, r
  <2>2. QED
    BY <2>1 DEF Line, LineType
<1>6. r \in Seq(LineType) /\ Len(r) = gxp_num_execs - 1
  <2>1. r \in [1 .. gxp_num_execs - 1 -> LineType]
    BY <1>5
  <2>. HIDE DEF r
  <2>2. QED
    BY <1>1, <2>1
<1>7. ConnLines(n, p) = r
  BY DEF ConnLines, peer
<1>. HIDE DEF r
<1>8. QED
  BY <1>2, <1>3, <1>5, <1>6, <1>7

LEMMA AvgType ==
  ASSUME NEW mat, NEW n
  PROVE  avgdist(mat, n) \in Nat
<1>1. IsFiniteSet(Node \X Node)
  BY NodeFacts, FS_Product
<1>2. {c \in Overlay(mat) : c[1] = n} \in SUBSET (Node \X Node)
  BY DEF Overlay, Channel
<1>3. IsFiniteSet({c \in Overlay(mat) : c[1] = n})
  BY <1>1, <1>2, FS_Subset
<1>4. QED
  BY <1>3, FS_CardinalityType DEF avgdist

LEMMA StageFacts ==
  /\ Stage("init") = 1 /\ Stage("sync0") = 2 /\ Stage("request") = 3 /\ Stage("ports") = 4
  /\ Stage("connect") = 5 /\ Stage("conn_info") = 6 /\ Stage("compute") = 7 /\ Stage("exit") = 8
  /\ Stage("avgdist") = 9 /\ Stage("exchange_rt") = 10 /\ Stage("sync") = 11 /\ Stage("done") = 12
  /\ \A o \in Ops \ {"lost"} : Stage(o) \in Stages
BY DEF Stage, Ops, Stages

LEMMA SpeakingFacts ==
  /\ Speaking \subseteq Stages /\ Speaking \subseteq {1, 2, 3, 4, 6, 9, 11}
  /\ {1, 4, 6, 11} \subseteq Speaking
  /\ (setting.scheme = "locality" => 2 \in Speaking /\ 3 \in Speaking)
  /\ (setting.scheme # "locality" => 2 \notin Speaking /\ 3 \notin Speaking)
  /\ (setting.rttype = "ORDERED_BFS" => 9 \in Speaking)
  /\ (setting.rttype # "ORDERED_BFS" => 9 \notin Speaking)
BY DEF Speaking, Stages

(***************************************************************************)
(* The operation that reads at a stage, and the lines of each node that it *)
(* counts.                                                                 *)
(***************************************************************************)
OpAt(s) ==
  CASE s = 1 -> "init" [] s \in {2, 11} -> "sync" [] s = 3 -> "request" [] s = 4 -> "ports"
    [] s = 6 -> "conn_info" [] s = 9 -> "avgdist"
Share(s) == IF s = 6 THEN gxp_num_execs - 1 ELSE 1

LEMMA LinesFacts ==
  ASSUME Types, NEW m \in Node
  PROVE  /\ \A s \in {1, 2, 4, 9, 11} : Len(Lines(m, s)) = 1 /\ Lines(m, s) \in Seq(LineType)
         /\ Lines(m, 1)[1] = Line("init", m, Nothing, Nothing)
         /\ Lines(m, 2)[1] = SyncLine
         /\ Lines(m, 4)[1] = PortLine(m)
         /\ Lines(m, 9)[1] = Line("avgdist", m, Nothing, avgdist(conn_mat[m], m))
         /\ Lines(m, 11)[1] = SyncLine
         /\ Lines(m, 3) = RequestLines(m, request[m]) /\ request[m] \in SUBSET Node
         /\ Lines(m, 6) = ConnLines(m, plan[m]) /\ plan[m] \in SUBSET Node
<1>1. m \in Int /\ Nothing \in Int /\ avgdist(conn_mat[m], m) \in Int
  BY NodeFacts, AvgType DEF Nothing
<1>. DEFINE a == avgdist(conn_mat[m], m)
<1>2. a \in Int
  BY <1>1
<1>3. /\ Lines(m, 1) = <<Line("init", m, Nothing, Nothing)>> /\ Lines(m, 2) = <<SyncLine>>
      /\ Lines(m, 4) = <<PortLine(m)>> /\ Lines(m, 9) = <<Line("avgdist", m, Nothing, a)>>
      /\ Lines(m, 11) = <<SyncLine>>
      /\ Lines(m, 3) = RequestLines(m, request[m]) /\ Lines(m, 6) = ConnLines(m, plan[m])
  BY DEF Lines
<1>. HIDE DEF a
<1>4. /\ Line("init", m, Nothing, Nothing) \in LineType /\ SyncLine \in LineType
      /\ PortLine(m) \in LineType /\ Line("avgdist", m, Nothing, a) \in LineType
  BY <1>1, <1>2 DEF Line, LineType, SyncLine, PortLine
<1>5. \A x \in LineType : <<x>> \in Seq(LineType) /\ Len(<<x>>) = 1 /\ <<x>>[1] = x
  OBVIOUS
<1>6. request[m] \in SUBSET Node /\ plan[m] \in SUBSET Node
  BY DEF Types, DataTypes
<1>7. \A s \in {1, 2, 4, 9, 11} : s = 1 \/ s = 2 \/ s = 4 \/ s = 9 \/ s = 11
  OBVIOUS
<1>8. /\ \A s \in {1, 2, 4, 9, 11} : Len(Lines(m, s)) = 1 /\ Lines(m, s) \in Seq(LineType)
      /\ Lines(m, 9)[1] = Line("avgdist", m, Nothing, a)
  BY <1>3, <1>4, <1>5, <1>7, ZenonT(60)
<1>9. /\ Lines(m, 1)[1] = Line("init", m, Nothing, Nothing) /\ Lines(m, 2)[1] = SyncLine
      /\ Lines(m, 4)[1] = PortLine(m) /\ Lines(m, 11)[1] = SyncLine
  BY <1>3
<1>10. Lines(m, 9)[1] = Line("avgdist", m, Nothing, avgdist(conn_mat[m], m))
  BY <1>8 DEF a
<1>11. QED
  BY <1>3, <1>6, <1>8, <1>9, <1>10

LEMMA TextFacts ==
  ASSUME Types
  PROVE  /\ Text \in [Node \X Stages -> Seq(LineType)]
         /\ \A m \in Node : \A s \in Stages :
              /\ s \in Speaking => Text[<<m, s>>] = Lines(m, s)
              /\ s \notin Speaking => Text[<<m, s>>] = <<>>
<1>1. ASSUME NEW m \in Node, NEW s \in Speaking
      PROVE  Lines(m, s) \in Seq(LineType)
  <2>1. s \in {1, 2, 4, 9, 11} \/ s = 3 \/ s = 6
    BY SpeakingFacts
  <2>2. Lines(m, 3) \in Seq(LineType)
    BY LinesFacts, RequestFacts
  <2>3. Lines(m, 6) \in Seq(LineType)
    BY LinesFacts, ConnFacts
  <2>4. QED
    BY <2>1, <2>2, <2>3, LinesFacts
<1>2. <<>> \in Seq(LineType)
  OBVIOUS
<1>3. \A m \in Node : \A s \in Stages : <<m, s>> \in Node \X Stages
  OBVIOUS
<1>4. \A x \in Node \X Stages : /\ x[1] \in Node /\ x[2] \in Stages /\ x = <<x[1], x[2]>>
  OBVIOUS
<1>5. QED
  BY <1>1, <1>2, <1>3, <1>4 DEF Text

LEMMA PostedFacts ==
  ASSUME Types, Outs
  PROVE  /\ Filled(Text, Posted)
         /\ \A m \in Node : \A s \in Stages :
              /\ s < At(m) => Posted[<<m, s>>] = Len(Text[<<m, s>>])
              /\ s = At(m) => Posted[<<m, s>>] = Len(Text[<<m, s>>]) - Len(out[m])
              /\ s > At(m) => Posted[<<m, s>>] = 0
         /\ \A m \in Node : At(m) \in Stages /\ Len(out[m]) \in Nat /\ (out[m] = <<>> <=> Len(out[m]) = 0)
                            /\ Len(out[m]) <= Len(Text[<<m, At(m)>>])
<1>1. \A m \in Node : At(m) \in Stages
  BY StageFacts DEF Types, DataTypes, At
<1>2. \A m \in Node : out[m] \in Seq(LineType)
  BY DEF Types, DataTypes
<1>3. \A m \in Node : Len(out[m]) \in Nat /\ (out[m] = <<>> <=> Len(out[m]) = 0)
  BY <1>2
<1>4. \A m \in Node : Len(out[m]) <= Len(Text[<<m, At(m)>>])
  BY DEF Outs
<1>5. \A m \in Node : \A s \in Stages : Len(Text[<<m, s>>]) \in Nat
  <2>1. \A x \in Node \X Stages : Text[x] \in Seq(LineType)
    BY TextFacts
  <2>2. SUFFICES ASSUME NEW m \in Node, NEW s \in Stages
                 PROVE  Len(Text[<<m, s>>]) \in Nat
    OBVIOUS
  <2>3. Text[<<m, s>>] \in Seq(LineType)
    BY <2>1
  <2>4. QED
    BY <2>3
<1>6. \A m \in Node : \A s \in Stages :
        <<m, s>> \in Node \X Stages /\ <<m, s>>[1] = m /\ <<m, s>>[2] = s
  OBVIOUS
<1>7. ASSUME NEW m \in Node, NEW s \in Stages
      PROVE  /\ s < At(m) => Posted[<<m, s>>] = Len(Text[<<m, s>>])
             /\ s = At(m) => Posted[<<m, s>>] = Len(Text[<<m, s>>]) - Len(out[m])
             /\ s > At(m) => Posted[<<m, s>>] = 0
  <2>1. s \in 1 .. 12 /\ At(m) \in 1 .. 12
    BY <1>1 DEF Stages
  <2>4. /\ (s < At(m) => s # At(m)) /\ (s > At(m) => s # At(m) /\ ~ (s < At(m)))
        /\ (s = At(m) => ~ (s < At(m)))
    BY <2>1
  <2>2. Posted[<<m, s>>] = IF s < At(m) THEN Len(Text[<<m, s>>])
                           ELSE IF s = At(m) THEN Len(Text[<<m, s>>]) - Len(out[m]) ELSE 0
    BY <1>6 DEF Posted
  <2>3. QED
    BY <2>2, <2>4
<1>8. \A m \in Node : \A s \in Stages : /\ Posted[<<m, s>>] \in Nat
                                        /\ Posted[<<m, s>>] <= Len(Text[<<m, s>>])
  <2>1. SUFFICES ASSUME NEW m \in Node, NEW s \in Stages
                 PROVE  Posted[<<m, s>>] \in Nat /\ Posted[<<m, s>>] <= Len(Text[<<m, s>>])
    OBVIOUS
  <2>2. s \in 1 .. 12 /\ At(m) \in 1 .. 12 /\ Len(Text[<<m, s>>]) \in Nat /\ Len(out[m]) \in Nat
    BY <1>1, <1>3, <1>5 DEF Stages
  <2>3. s = At(m) => Len(out[m]) <= Len(Text[<<m, s>>])
    BY <1>4
  <2>. DEFINE p == Posted[<<m, s>>]
              l == Len(Text[<<m, s>>])
              o == Len(out[m])
  <2>8. l \in Nat /\ o \in Nat
    BY <2>2
  <2>5. CASE s < At(m)
    <3>1. p = l
      BY <1>7, <2>5
    <3>. HIDE DEF p, l
    <3>2. p \in Nat /\ p <= l
      BY <2>8, <3>1
    <3>3. QED
      BY <3>2 DEF p, l
  <2>6. CASE s = At(m)
    <3>1. p = l - o /\ o <= l
      BY <1>7, <2>3, <2>6
    <3>. HIDE DEF p, l, o
    <3>2. p \in Nat /\ p <= l
      BY <2>8, <3>1
    <3>3. QED
      BY <3>2 DEF p, l
  <2>7. CASE s > At(m)
    <3>1. Posted[<<m, s>>] = 0
      BY <1>7, <2>7
    <3>2. QED
      BY <2>2, <3>1
  <2>4. QED
    BY <2>2, <2>5, <2>6, <2>7
<1>9. \A x \in Node \X Stages : \E m \in Node : \E s \in Stages : x = <<m, s>>
  OBVIOUS
<1>10. DOMAIN Posted = Node \X Stages /\ Posted = [x \in Node \X Stages |-> Posted[x]]
  BY DEF Posted
<1>11. Filled(Text, Posted)
  <2>1. \A x \in Node \X Stages : Posted[x] \in Nat /\ Posted[x] <= Len(Text[x])
    BY <1>8, <1>9
  <2>2. Posted \in [Node \X Stages -> Nat]
    BY <1>10, <2>1
  <2>3. QED
    BY <2>1, <2>2, TextFacts DEF Filled
<1>12. QED
  BY <1>1, <1>3, <1>4, <1>7, <1>11

(***************************************************************************)
(* Every loop counts just the lines of its stage.                          *)
(***************************************************************************)
LEMMA LinesCounted ==
  ASSUME Types, NEW c \in Speaking
  PROVE  Counted(OpAt(c), c, Share(c), Text)
<1>1. c \in Stages /\ (c \in {1, 2, 4, 9, 11} \/ c = 3 \/ c = 6)
  BY SpeakingFacts
<1>2. \A m \in Node : Text[<<m, c>>] = Lines(m, c)
  BY <1>1, TextFacts
<1>3. gxp_num_execs \in Nat /\ gxp_num_execs # 0
  BY NodeFacts
<1>4. CASE c \in {1, 2, 4, 9, 11}
  <2>1. Share(c) = 1 /\ OpAt(c) \notin {"conn_info", "request"}
    BY <1>4 DEF Share, OpAt
  <2>2. Quota(OpAt(c)) = gxp_num_execs
    BY <2>1 DEF Quota
  <2>3. \A l : Counts(OpAt(c), l)
    BY <2>1 DEF Counts
  <2>4. \A m \in Node : Len(Text[<<m, c>>]) = 1
    BY <1>2, <1>4, LinesFacts
  <2>6. Quota(OpAt(c)) = gxp_num_execs * 1
    BY <1>3, <2>2
  <2>7. \A i \in 1 .. 1 : i > 1 - 1
    OBVIOUS
  <2>8. \A m \in Node : /\ Len(Text[<<m, c>>]) >= 1 /\ Len(Text[<<m, c>>]) # 0
                        /\ \A i \in 1 .. Len(Text[<<m, c>>]) : Counts(OpAt(c), Text[<<m, c>>][i])
                                                               /\ i > Len(Text[<<m, c>>]) - 1
    <3>1. SUFFICES ASSUME NEW m \in Node
                   PROVE  /\ Len(Text[<<m, c>>]) >= 1 /\ Len(Text[<<m, c>>]) # 0
                          /\ \A i \in 1 .. Len(Text[<<m, c>>]) : Counts(OpAt(c), Text[<<m, c>>][i])
                                                                 /\ i > Len(Text[<<m, c>>]) - 1
      OBVIOUS
    <3>. DEFINE r == Text[<<m, c>>]
                k == Len(r)
    <3>2. k = 1 /\ \A i : Counts(OpAt(c), r[i])
      BY <2>3, <2>4
    <3>. HIDE DEF k
    <3>3. k >= 1 /\ k # 0 /\ \A i \in 1 .. k : i > k - 1
      BY <3>2
    <3>4. QED
      BY <3>2, <3>3 DEF k
  <2>5. QED
    BY <2>1, <2>6, <2>8 DEF Counted
<1>5. CASE c = 3
  <2>1. Share(c) = 1 /\ OpAt(c) = "request"
    BY <1>5 DEF Share, OpAt
  <2>2. Quota(OpAt(c)) = gxp_num_execs
    BY <2>1 DEF Quota
  <2>3. \A l : Counts(OpAt(c), l) <=> l.src = -1
    BY <2>1 DEF Counts
  <2>4. ASSUME NEW m \in Node
        PROVE  /\ Len(Text[<<m, c>>]) >= 1
               /\ \A i \in 1 .. Len(Text[<<m, c>>]) : Counts(OpAt(c), Text[<<m, c>>][i]) <=> i > Len(Text[<<m, c>>]) - 1
    <3>. DEFINE r == RequestLines(m, request[m])
    <3>1. Text[<<m, c>>] = r /\ request[m] \in SUBSET Node
      BY <1>2, <1>5, LinesFacts
    <3>2. Len(r) \in Nat \ {0} /\ \A i \in 1 .. Len(r) : r[i].src = -1 <=> i = Len(r)
      BY <3>1, RequestFacts
    <3>. HIDE DEF r
    <3>3. \A i \in 1 .. Len(r) : i > Len(r) - 1 <=> i = Len(r)
      BY <3>2
    <3>4. QED
      BY <2>3, <3>1, <3>2, <3>3
  <2>6. Quota(OpAt(c)) = gxp_num_execs * 1
    BY <1>3, <2>2
  <2>5. QED
    BY <2>1, <2>4, <2>6 DEF Counted
<1>6. CASE c = 6
  <2>1. Share(c) = gxp_num_execs - 1 /\ OpAt(c) = "conn_info" /\ gxp_num_execs - 1 \in Nat
    BY <1>3, <1>6 DEF Share, OpAt
  <2>2. Quota(OpAt(c)) = gxp_num_execs * (gxp_num_execs - 1)
    BY <2>1 DEF Quota
  <2>3. \A l : Counts(OpAt(c), l)
    BY <2>1 DEF Counts
  <2>4. \A m \in Node : Len(Text[<<m, c>>]) = gxp_num_execs - 1
    <3>1. SUFFICES ASSUME NEW m \in Node
                   PROVE  Len(Text[<<m, c>>]) = gxp_num_execs - 1
      OBVIOUS
    <3>2. Text[<<m, c>>] = ConnLines(m, plan[m]) /\ plan[m] \in SUBSET Node
      BY <1>2, <1>6, LinesFacts
    <3>3. QED
      BY <3>2, ConnFacts
  <2>. DEFINE q == gxp_num_execs - 1
  <2>5. q \in Nat /\ Share(c) = q /\ Quota(OpAt(c)) = gxp_num_execs * q
        /\ \A m \in Node : Len(Text[<<m, c>>]) = q
    BY <2>1, <2>2, <2>4
  <2>. HIDE DEF q
  <2>6. \A i \in 1 .. q : i > q - q
    BY <2>5
  <2>7. QED
    BY <2>3, <2>5, <2>6 DEF Counted
<1>7. QED
  BY <1>1, <1>4, <1>5, <1>6

-----------------------------------------------------------------------------
(***************************************************************************)
(* Reading: a loop ends only when all have written what it waits for, and  *)
(* takes just that.                                                        *)
(***************************************************************************)
LEMMA Reading ==
  ASSUME Talk, NEW n \in Node, NEW c \in Speaking, At(n) = c, Reads(n, OpAt(c))
  PROVE  /\ out[n] = <<>> /\ \A m \in Node : Behind(m, c)
         /\ \A l \in Taken(n, OpAt(c)) : \E m \in Node : \E i \in 1 .. Len(Lines(m, c)) : l = Lines(m, c)[i]
         /\ \A m \in Node : \A i \in 1 .. Len(Lines(m, c)) : Lines(m, c)[i] \in Taken(n, OpAt(c))
         /\ \E f : /\ feed' = [feed EXCEPT ![n] = f] /\ f \in Seq(LineType)
                   /\ \A d \in Stages : d > c /\ (\A s \in Speaking : ~ (c < s /\ s < d))
                                        => FeedOK(f, d, Text, Posted)
<1>. DEFINE op == OpAt(c)
            f == feed[n]
<1>0. Types /\ Outs /\ Passed /\ FeedOK(f, c, Text, Posted)
  BY DEF Talk, Feeds
<1>1. c \in Stages /\ c \in 1 .. 12 /\ \A s \in Speaking : s \in Stages
  BY SpeakingFacts DEF Stages
<1>2. Filled(Text, Posted) /\ Counted(op, c, Share(c), Text)
  BY <1>0, PostedFacts, LinesCounted
<1>3. \A m \in Node : /\ At(m) \in 1 .. 12 /\ Len(out[m]) \in Nat /\ (out[m] = <<>> <=> Len(out[m]) = 0)
                      /\ Text[<<m, c>>] = Lines(m, c) /\ Len(Text[<<m, c>>]) \in Nat
  <2>1. \A m \in Node : At(m) \in Stages /\ Len(out[m]) \in Nat /\ (out[m] = <<>> <=> Len(out[m]) = 0)
    BY <1>0, PostedFacts
  <2>2. \A m \in Node : Text[<<m, c>>] = Lines(m, c)
    BY <1>0, <1>1, TextFacts
  <2>3. \A m \in Node : <<m, c>> \in Node \X Stages
    BY <1>1
  <2>4. \A m \in Node : Len(Text[<<m, c>>]) \in Nat
    BY <1>2, <2>3 DEF Filled
  <2>5. QED
    BY <2>1, <2>2, <2>4 DEF Stages
<1>4. out[n] = <<>> /\ LastLine(op, f) # {}
      /\ \E k \in LastLine(op, f) : feed' = [feed EXCEPT ![n] = SubSeq(f, k + 1, Len(f))]
  BY DEF Reads
<1>. HIDE DEF f, op
<1>5. ASSUME NEW m \in Node, ~ Behind(m, c), NEW x \in Node \X Stages, x[2] > c
      PROVE  Posted[x] = 0
  <2>1. PICK k \in Node, s \in Stages : x = <<k, s>>
    OBVIOUS
  <2>2. s \in 1 .. 12 /\ s > c
    BY <1>5, <2>1 DEF Stages
  <2>3. ~ (c < At(k))
    BY <1>0, <1>5 DEF Passed
  <2>4. At(k) \in 1 .. 12
    BY <1>3
  <2>5. s > At(k)
    BY <1>1, <2>2, <2>3, <2>4
  <2>6. QED
    BY <1>0, <2>1, <2>5, PostedFacts
<1>6. ASSUME NEW m \in Node, ~ Behind(m, c)
      PROVE  ~ Complete(c, Text, Posted)
  <2>1. ~ (At(m) > c) /\ (At(m) = c => Len(out[m]) # 0 /\ Len(out[m]) \in Nat)
    BY <1>3, <1>6 DEF Behind
  <2>2. CASE At(m) = c
    <3>1. Posted[<<m, c>>] = Len(Text[<<m, c>>]) - Len(out[m])
      BY <1>0, <1>1, <2>2, PostedFacts
    <3>. DEFINE p == Posted[<<m, c>>]
                l == Len(Text[<<m, c>>])
                o == Len(out[m])
    <3>2. p = l - o /\ l \in Nat /\ o \in Nat /\ o # 0
      BY <1>3, <2>1, <2>2, <3>1
    <3>3. p # l
      <4>. HIDE DEF p, l, o
      <4>1. QED
        BY <3>2
    <3>4. QED
      BY <3>3 DEF Complete
  <2>3. CASE At(m) < c
    <3>1. Posted[<<m, c>>] = 0
      BY <1>0, <1>1, <1>3, <2>3, PostedFacts
    <3>2. m # n
      BY <1>1, <1>3, <2>3
    <3>3. Share(c) # 0 /\ Share(c) \in Nat
      <4>1. gxp_num_execs # 1
        BY <3>2, NodeFacts
      <4>2. QED
        BY <4>1, NodeFacts DEF Share
    <3>4. Len(Text[<<m, c>>]) # 0
      BY <1>2, <1>3, <3>3 DEF Counted
    <3>5. QED
      BY <3>1, <3>4 DEF Complete
  <2>4. At(m) \in 1 .. 12 /\ c \in 1 .. 12
    BY <1>1, <1>3
  <2>5. At(m) = c \/ At(m) < c
    BY <2>1, <2>4
  <2>6. QED
    BY <2>2, <2>3, <2>5
<1>7. \A m \in Node : Behind(m, c)
  <2>1. SUFFICES ASSUME NEW m \in Node, ~ Behind(m, c)
                 PROVE  FALSE
    OBVIOUS
  <2>2. ~ Complete(c, Text, Posted)
    BY <1>6, <2>1
  <2>3. \A x \in Node \X Stages : x[2] > c => Posted[x] = 0
    BY <1>5, <2>1
  <2>4. LastLine(op, f) = {}
    BY <1>0, <1>1, <1>2, <2>2, <2>3, FeedShort
  <2>5. QED
    BY <1>4, <2>4
<1>8. Complete(c, Text, Posted)
  <2>1. SUFFICES ASSUME NEW m \in Node
                 PROVE  Posted[<<m, c>>] = Len(Text[<<m, c>>])
    BY DEF Complete
  <2>2. At(m) > c \/ (At(m) = c /\ Len(out[m]) = 0)
    BY <1>3, <1>7 DEF Behind
  <2>3. CASE At(m) > c
    <3>1. c < At(m)
      BY <1>1, <1>3, <2>3
    <3>2. QED
      BY <1>0, <1>1, <3>1, PostedFacts
  <2>4. CASE At(m) = c /\ Len(out[m]) = 0
    <3>1. Posted[<<m, c>>] = Len(Text[<<m, c>>]) - Len(out[m])
      BY <1>0, <1>1, <2>4, PostedFacts
    <3>2. QED
      BY <1>3, <2>4, <3>1
  <2>5. QED
    BY <2>2, <2>3, <2>4
<1>9. PICK e \in 0 .. Len(f) :
        LastLine(op, f) = {e} /\ Leaves(e, f, c, Text, Posted)
  <2>1. /\ c \in Stages /\ Filled(Text, Posted) /\ FeedOK(f, c, Text, Posted)
        /\ Counted(op, c, Share(c), Text) /\ Complete(c, Text, Posted)
    BY <1>0, <1>1, <1>2, <1>8
  <2>2. QED
    BY <2>1, FeedFull
<1>10. feed' = [feed EXCEPT ![n] = SubSeq(f, e + 1, Len(f))]
  BY <1>4, <1>9
<1>11. Taken(n, op) = {f[i] : i \in 1 .. e}
  <2>1. (CHOOSE k \in {e} : TRUE) = e
    OBVIOUS
  <2>2. Taken(n, op) = {f[i] : i \in 1 .. CHOOSE k \in LastLine(op, f) : TRUE}
    BY DEF Taken, f
  <2>3. QED
    BY <1>9, <2>1, <2>2
<1>12. /\ \A l \in Taken(n, op) : \E m \in Node : \E i \in 1 .. Len(Lines(m, c)) : l = Lines(m, c)[i]
       /\ \A m \in Node : \A i \in 1 .. Len(Lines(m, c)) : Lines(m, c)[i] \in Taken(n, op)
  <2>1. ASSUME NEW l \in Taken(n, op)
        PROVE  \E m \in Node : \E i \in 1 .. Len(Lines(m, c)) : l = Lines(m, c)[i]
    <3>1. PICK k \in 1 .. e : l = f[k]
      BY <1>11
    <3>2. PICK m \in Node : \E i \in 1 .. Len(Text[<<m, c>>]) : f[k] = Text[<<m, c>>][i]
      BY <1>9 DEF Leaves
    <3>3. Text[<<m, c>>] = Lines(m, c)
      BY <1>3
    <3>4. QED
      BY <3>1, <3>2, <3>3
  <2>2. ASSUME NEW m \in Node, NEW i \in 1 .. Len(Lines(m, c))
        PROVE  Lines(m, c)[i] \in Taken(n, op)
    <3>1. Text[<<m, c>>] = Lines(m, c)
      BY <1>3
    <3>2. PICK k \in 1 .. e : f[k] = Lines(m, c)[i]
      BY <1>9, <3>1 DEF Leaves
    <3>3. QED
      BY <1>11, <3>2
  <2>3. QED
    BY <2>1, <2>2
<1>13. ASSUME NEW d \in Stages, d > c, \A s \in Speaking : ~ (c < s /\ s < d)
       PROVE  FeedOK(SubSeq(f, e + 1, Len(f)), d, Text, Posted)
  <2>1. ASSUME NEW x \in Node \X Stages, c < x[2], x[2] < d
        PROVE  Posted[x] = 0
    <3>1. PICK k \in Node, s \in Stages : x = <<k, s>>
      OBVIOUS
    <3>2. s \notin Speaking
      BY <1>13, <2>1, <3>1
    <3>3. Text[x] = <<>>
      BY <1>0, <3>1, <3>2, TextFacts
    <3>4. Posted[x] \in Nat /\ Posted[x] <= Len(Text[x]) /\ Len(Text[x]) = 0
      BY <1>2, <3>3 DEF Filled
    <3>5. QED
      BY <3>4
  <2>2. QED
    BY <1>9, <1>13, <2>1 DEF Leaves
<1>14. SubSeq(f, e + 1, Len(f)) \in Seq(LineType)
  <2>1. f \in Seq(LineType)
    BY <1>0 DEF FeedOK
  <2>2. QED
    BY <2>1
<1>15. QED
  BY <1>4, <1>7, <1>10, <1>11, <1>12, <1>13, <1>14, <1>9 DEF op

(***************************************************************************)
(* Going on where nothing is read.                                         *)
(***************************************************************************)
LEMMA FeedLater ==
  ASSUME NEW f, NEW c \in Stages, NEW d \in Stages, NEW T, NEW W, FeedOK(f, c, T, W), d >= c,
         \A x \in Node \X Stages : c <= x[2] /\ x[2] < d => W[x] = 0
  PROVE  FeedOK(f, d, T, W)
<1>1. PICK at \in [DOMAIN f -> Ticket] : Holds(f, at, c, T, W)
  BY DEF FeedOK
<1>2. c \in 1 .. 12 /\ d \in 1 .. 12
  BY DEF Stages
<1>3. \A t \in Ticket : t[2] \in 1 .. 12 /\ <<t[1], t[2]>> \in Node \X Stages
  BY DEF Ticket, Stages
<1>4. \A t \in Ticket : t[2] >= c /\ Written(t, W) => t[2] >= d
  <2>1. SUFFICES ASSUME NEW t \in Ticket, t[2] >= c, Written(t, W), ~ (t[2] >= d)
                 PROVE  FALSE
    OBVIOUS
  <2>. DEFINE s == t[2]
              x == <<t[1], t[2]>>
  <2>5. s \in 1 .. 12 /\ x \in Node \X Stages /\ x[2] = s /\ s >= c /\ ~ (s >= d)
    BY <1>3, <2>1
  <2>2. c <= x[2] /\ x[2] < d
    <3>1. c <= s /\ s < d
      <4>. HIDE DEF s, x
      <4>1. QED
        BY <1>2, <2>5
    <3>2. QED
      BY <2>5, <3>1
  <2>3. W[<<t[1], t[2]>>] = 0
    BY <2>5, <2>2
  <2>4. QED
    BY <2>1, <2>3 DEF Written
<1>5. \A t \in Ticket : t[2] >= d => t[2] >= c
  <2>1. SUFFICES ASSUME NEW t \in Ticket, t[2] >= d
                 PROVE  t[2] >= c
    OBVIOUS
  <2>. DEFINE s == t[2]
  <2>2. s \in 1 .. 12 /\ s >= d
    BY <1>3, <2>1
  <2>3. s >= c
    <3>. HIDE DEF s
    <3>1. QED
      BY <1>2, <2>2
  <2>4. QED
    BY <2>3
<1>6. Holds(f, at, d, T, W)
  BY <1>1, <1>4, <1>5 DEF Holds
<1>7. QED
  BY <1>1, <1>6 DEF FeedOK

-----------------------------------------------------------------------------
(***************************************************************************)
(* Lines of a node do not change any more once it has come to them.        *)
(***************************************************************************)
LEMMA TextSame ==
  ASSUME Types, setting' = setting,
         \A m \in Node : /\ At(m) < 3 \/ request'[m] = request[m]
                         /\ At(m) < 6 \/ plan'[m] = plan[m]
                         /\ At(m) < 9 \/ conn_mat'[m] = conn_mat[m]
  PROVE  /\ Speaking' = Speaking
         /\ \A m \in Node : \A s \in Stages : s <= At(m) => Text'[<<m, s>>] = Text[<<m, s>>]
<1>1. Speaking' = Speaking
  BY DEF Speaking
<1>2. ASSUME NEW m \in Node, NEW s \in Stages, s <= At(m)
      PROVE  Text'[<<m, s>>] = Text[<<m, s>>]
  <2>1. Text[<<m, s>>] = IF s \in Speaking THEN Lines(m, s) ELSE <<>>
    BY DEF Text
  <2>2. Text'[<<m, s>>] = IF s \in Speaking' THEN Lines(m, s)' ELSE <<>>
    BY DEF Text
  <2>3. At(m) \in 1 .. 12 /\ s \in 1 .. 12
    BY StageFacts DEF Types, DataTypes, At, Stages
  <2>4. /\ s = 3 => request'[m] = request[m]
        /\ s = 6 => plan'[m] = plan[m]
        /\ s = 9 => conn_mat'[m] = conn_mat[m]
    BY <1>2, <2>3
  <2>5. s \in Speaking => s \in {1, 2, 4, 11} \/ s = 3 \/ s = 6 \/ s = 9
    BY SpeakingFacts
  <2>6. s \in Speaking => Lines(m, s)' = Lines(m, s)
    <3>1. s \in {1, 2, 4, 11} => Lines(m, s)' = Lines(m, s)
      BY DEF Lines
    <3>2. s = 3 => Lines(m, s)' = Lines(m, s)
      BY <2>4 DEF Lines
    <3>3. s = 6 => Lines(m, s)' = Lines(m, s)
      BY <2>4 DEF Lines
    <3>4. s = 9 => Lines(m, s)' = Lines(m, s)
      BY <2>4 DEF Lines
    <3>5. QED
      BY <2>5, <3>1, <3>2, <3>3, <3>4
  <2>7. QED
    BY <1>1, <2>1, <2>2, <2>6
<1>3. QED
  BY <1>1, <1>2

(***************************************************************************)
(* A node goes on to a later operation.                                    *)
(***************************************************************************)
LEMMA Advance ==
  ASSUME Talk, Types', setting' = setting,
         NEW n \in Node, NEW o \in Ops \ {"lost"}, NEW d, d = Stage(o), d > At(n),
         \A s \in Speaking : ~ (At(n) < s /\ s < d),
         At(n) \in Speaking => \A m \in Node : Behind(m, At(n)),
         out[n] = <<>>,
         pc' = [pc EXCEPT ![n] = o],
         out' = [out EXCEPT ![n] = IF d \in Speaking THEN Lines(n, d)' ELSE <<>>],
         NEW f, feed' = [feed EXCEPT ![n] = f], FeedOK(f, d, Text, Posted),
         \A m \in Node : /\ At(m) < 3 \/ request'[m] = request[m]
                         /\ At(m) < 6 \/ plan'[m] = plan[m]
                         /\ At(m) < 9 \/ conn_mat'[m] = conn_mat[m]
  PROVE  Talk' /\ \A m \in Node : At(m)' = IF m = n THEN d ELSE At(m)
<1>0. Types /\ Outs /\ Passed /\ Feeds /\ Types'
  BY DEF Talk
<1>1. \A m \in Node : At(m)' = IF m = n THEN d ELSE At(m)
  <2>1. \A m \in Node : pc'[m] = IF m = n THEN o ELSE pc[m]
    BY <1>0 DEF Types, DataTypes
  <2>2. QED
    BY <2>1 DEF At
<1>2. Speaking' = Speaking
      /\ \A m \in Node : \A s \in Stages : s <= At(m) => Text'[<<m, s>>] = Text[<<m, s>>]
  BY <1>0, TextSame
<1>3. d \in Stages /\ d \in 1 .. 12 /\ \A m \in Node : At(m) \in Stages /\ At(m) \in 1 .. 12
  BY StageFacts, <1>0 DEF Types, DataTypes, At, Stages
<1>4. Text'[<<n, d>>] = IF d \in Speaking THEN Lines(n, d)' ELSE <<>>
  BY <1>2, <1>3 DEF Text
<1>5. \A m \in Node : out'[m] = IF m = n THEN Text'[<<n, d>>] ELSE out[m]
  BY <1>0, <1>4 DEF Types, DataTypes
<1>6. Text' \in [Node \X Stages -> Seq(LineType)]
  <2>1. (Text \in [Node \X Stages -> Seq(LineType)])'
    BY <1>0, TextFacts, PTL
  <2>2. QED
    BY <2>1 DEF Stages, LineType
<1>7. \A m \in Node : \A s \in Stages : Text'[<<m, s>>] \in Seq(LineType) /\ Len(Text'[<<m, s>>]) \in Nat
  <2>1. SUFFICES ASSUME NEW m \in Node, NEW s \in Stages
                 PROVE  Text'[<<m, s>>] \in Seq(LineType) /\ Len(Text'[<<m, s>>]) \in Nat
    OBVIOUS
  <2>. DEFINE T == Text'
              x == <<m, s>>
  <2>2. x \in Node \X Stages /\ T \in [Node \X Stages -> Seq(LineType)]
    BY <1>6
  <2>. HIDE DEF T, x
  <2>3. T[x] \in Seq(LineType)
    BY <2>2
  <2>4. T[x] \in Seq(LineType) /\ Len(T[x]) \in Nat
    BY <2>3
  <2>5. QED
    BY <2>4 DEF T, x
<1>8. Outs'
  <2>1. ASSUME NEW m \in Node
        PROVE  LET all == Text'[<<m, At(m)'>>] IN
               Len(out'[m]) <= Len(all)
               /\ out'[m] = SubSeq(all, Len(all) - Len(out'[m]) + 1, Len(all))
    <3>1. CASE m = n
      <4>. DEFINE all == Text'[<<n, d>>]
      <4>1. all \in Seq(LineType) /\ Len(all) \in Nat
        BY <1>3, <1>7
      <4>2. out'[m] = all /\ At(m)' = d
        BY <1>1, <1>5, <3>1
      <4>. HIDE DEF all
      <4>3. Len(all) <= Len(all) /\ all = SubSeq(all, Len(all) - Len(all) + 1, Len(all))
        BY <4>1
      <4>4. QED
        BY <3>1, <4>2, <4>3 DEF all
    <3>2. CASE m # n
      <4>. DEFINE all == Text[<<m, At(m)>>]
      <4>1. Len(out[m]) <= Len(all) /\ out[m] = SubSeq(all, Len(all) - Len(out[m]) + 1, Len(all))
        BY <1>0 DEF Outs
      <4>2. out'[m] = out[m] /\ At(m)' = At(m)
        BY <1>1, <1>5, <3>2
      <4>3. Text'[<<m, At(m)>>] = all
        BY <1>2, <1>3
      <4>. HIDE DEF all
      <4>4. QED
        BY <4>1, <4>2, <4>3
    <3>3. QED
      BY <3>1, <3>2
  <2>2. QED
    BY <2>1 DEF Outs
<1>9. Passed'
  <2>1. ASSUME NEW m \in Node, NEW k \in Node, NEW s \in Speaking, s < At(m)'
        PROVE  At(k)' > s \/ (At(k)' = s /\ out'[k] = <<>>)
    <3>1. s \in 1 .. 12
      BY SpeakingFacts DEF Stages
    <3>2. Behind(k, s)
      <4>1. CASE s < At(m)
        BY <1>0, <4>1 DEF Passed
      <4>2. CASE ~ (s < At(m))
        <5>1. m = n /\ s < d
          BY <1>1, <2>1, <4>2
        <5>2. s = At(n)
          BY <1>3, <3>1, <4>2, <5>1
        <5>3. QED
          BY <5>2
      <4>3. QED
        BY <4>1, <4>2
    <3>3. CASE k = n
      <4>1. At(n) >= s
        BY <1>3, <3>1, <3>2, <3>3 DEF Behind
      <4>2. d > s
        BY <1>3, <3>1, <4>1
      <4>3. QED
        BY <1>1, <3>3, <4>2
    <3>4. CASE k # n
      BY <1>1, <1>5, <3>2, <3>4 DEF Behind
    <3>5. QED
      BY <3>3, <3>4
  <2>2. QED
    BY <1>2, <2>1 DEF Passed, Behind
<1>10. Filled(Text, Posted)
       /\ \A m \in Node : \A s \in Stages :
            /\ s < At(m) => Posted[<<m, s>>] = Len(Text[<<m, s>>])
            /\ s = At(m) => Posted[<<m, s>>] = Len(Text[<<m, s>>]) - Len(out[m])
            /\ s > At(m) => Posted[<<m, s>>] = 0
  BY <1>0, PostedFacts
<1>11. \A m \in Node : \A s \in Stages :
            /\ s < At(m)' => Posted'[<<m, s>>] = Len(Text'[<<m, s>>])
            /\ s = At(m)' => Posted'[<<m, s>>] = Len(Text'[<<m, s>>]) - Len(out'[m])
            /\ s > At(m)' => Posted'[<<m, s>>] = 0
  <2>1. (\A m \in Node : \A s \in Stages :
            /\ s < At(m) => Posted[<<m, s>>] = Len(Text[<<m, s>>])
            /\ s = At(m) => Posted[<<m, s>>] = Len(Text[<<m, s>>]) - Len(out[m])
            /\ s > At(m) => Posted[<<m, s>>] = 0)'
    BY <1>0, <1>8, PostedFacts, PTL
  <2>2. QED
    BY <2>1 DEF Stages
<1>12. ASSUME NEW m \in Node, NEW s \in Stages
       PROVE  /\ Posted'[<<m, s>>] = Posted[<<m, s>>]
              /\ Posted[<<m, s>>] # 0 => Text'[<<m, s>>] = Text[<<m, s>>]
  <2>1. s \in 1 .. 12 /\ At(m) \in 1 .. 12
    BY <1>3 DEF Stages
  <2>5. /\ s < At(m) => Posted[<<m, s>>] = Len(Text[<<m, s>>])
        /\ s = At(m) => Posted[<<m, s>>] = Len(Text[<<m, s>>]) - Len(out[m])
        /\ s > At(m) => Posted[<<m, s>>] = 0
    BY <1>10
  <2>6. /\ s < At(m)' => Posted'[<<m, s>>] = Len(Text'[<<m, s>>])
        /\ s = At(m)' => Posted'[<<m, s>>] = Len(Text'[<<m, s>>]) - Len(out'[m])
        /\ s > At(m)' => Posted'[<<m, s>>] = 0
    BY <1>11
  <2>2. CASE m # n
    <3>1. At(m)' = At(m) /\ out'[m] = out[m]
      BY <1>1, <1>5, <2>2
    <3>2. CASE s > At(m)
      BY <2>5, <2>6, <3>1, <3>2
    <3>3. CASE s <= At(m)
      <4>1. Text'[<<m, s>>] = Text[<<m, s>>] /\ (s < At(m) \/ s = At(m))
        BY <1>2, <2>1, <3>3
      <4>2. QED
        BY <2>5, <2>6, <3>1, <4>1
    <3>4. QED
      BY <2>1, <3>2, <3>3
  <2>3. CASE m = n
    <3>1. At(m)' = d /\ out'[m] = Text'[<<n, d>>] /\ out[m] = <<>> /\ Len(<<>>) = 0
      BY <1>1, <1>5, <2>3
    <3>2. CASE s <= At(m)
      <4>1. Text'[<<m, s>>] = Text[<<m, s>>] /\ s < d
        BY <1>2, <1>3, <2>1, <2>3, <3>2
      <4>. DEFINE l == Len(Text[<<m, s>>])
      <4>2. l \in Nat
        BY <1>7, <4>1
      <4>3. Posted'[<<m, s>>] = l
        BY <2>6, <3>1, <4>1
      <4>4. Posted[<<m, s>>] = l
        <5>1. s < At(m) => Posted[<<m, s>>] = l
          BY <2>5
        <5>2. s = At(m) => Posted[<<m, s>>] = l - 0
          BY <2>3, <2>5, <3>1
        <5>. HIDE DEF l
        <5>3. l - 0 = l
          BY <4>2
        <5>4. s < At(m) \/ s = At(m)
          BY <2>1, <3>2
        <5>5. QED
          BY <5>1, <5>2, <5>3, <5>4
      <4>5. QED
        BY <4>1, <4>3, <4>4
    <3>3. CASE s > At(m)
      <4>1. Posted[<<m, s>>] = 0
        BY <2>5, <3>3
      <4>2. CASE s > d
        BY <2>6, <3>1, <4>1, <4>2
      <4>3. CASE s = d
        <5>. DEFINE l == Len(Text'[<<n, d>>])
        <5>1. l \in Nat
          BY <1>3, <1>7
        <5>4. Posted'[<<m, s>>] = l - l
          BY <2>3, <2>6, <3>1, <4>3
        <5>. HIDE DEF l
        <5>2. l - l = 0
          BY <5>1
        <5>3. QED
          BY <4>1, <5>2, <5>4
      <4>4. CASE s < d
        <5>1. s \notin Speaking
          BY <2>3, <3>3, <4>4
        <5>2. Text'[<<m, s>>] = <<>>
          BY <1>2, <5>1 DEF Text
        <5>3. QED
          BY <2>6, <3>1, <4>1, <4>4, <5>2
      <4>5. QED
        BY <1>3, <2>1, <4>2, <4>3, <4>4
    <3>4. QED
      BY <2>1, <3>2, <3>3
  <2>4. QED
    BY <2>2, <2>3
<1>13. \A x \in Node \X Stages : /\ Posted'[x] = Posted[x]
                                 /\ Posted[x] # 0 => Text'[x] = Text[x]
  BY <1>12
<1>14. ASSUME NEW g, NEW c \in Stages, FeedOK(g, c, Text, Posted)
       PROVE  FeedOK(g, c, Text', Posted')
  <2>1. PICK at \in [DOMAIN g -> Ticket] : Holds(g, at, c, Text, Posted)
    BY <1>14 DEF FeedOK
  <2>2. \A t \in Ticket : <<t[1], t[2]>> \in Node \X Stages
    BY DEF Ticket
  <2>. DEFINE T2 == Text'
              W2 == Posted'
  <2>3. \A t \in Ticket : /\ Written(t, W2) <=> Written(t, Posted)
                          /\ Written(t, Posted) => T2[<<t[1], t[2]>>] = Text[<<t[1], t[2]>>]
    <3>1. SUFFICES ASSUME NEW t \in Ticket
                   PROVE  /\ Written(t, W2) <=> Written(t, Posted)
                          /\ Written(t, Posted) => T2[<<t[1], t[2]>>] = Text[<<t[1], t[2]>>]
      OBVIOUS
    <3>. DEFINE x == <<t[1], t[2]>>
    <3>2. x \in Node \X Stages
      BY <2>2
    <3>3. W2[x] = Posted[x] /\ (Posted[x] # 0 => T2[x] = Text[x])
      BY <1>13, <3>2
    <3>4. t[3] \in 1 .. Posted[x] => Posted[x] # 0
      OBVIOUS
    <3>. HIDE DEF T2, W2
    <3>5. QED
      BY <3>3, <3>4 DEF Written
  <2>. HIDE DEF T2, W2
  <2>4. \A t \in Ticket : Written(t, W2) <=> Written(t, Posted)
    BY <2>3
  <2>5. \A t \in Ticket : Written(t, Posted) => T2[<<t[1], t[2]>>] = Text[<<t[1], t[2]>>]
    BY <2>3
  <2>6. Holds(g, at, c, T2, W2)
    BY <2>1, <2>4, <2>5 DEF Holds
  <2>7. QED
    BY <1>14, <2>1, <2>6 DEF FeedOK, T2, W2
<1>15. Feeds'
  <2>1. ASSUME NEW m \in Node
        PROVE  FeedOK(feed'[m], At(m)', Text', Posted')
    <3>1. CASE m = n
      <4>1. feed'[m] = f /\ At(m)' = d
        BY <1>0, <1>1, <3>1 DEF Types, DataTypes
      <4>2. QED
        BY <1>3, <1>14, <4>1
    <3>2. CASE m # n
      <4>1. feed'[m] = feed[m] /\ At(m)' = At(m)
        BY <1>0, <1>1, <3>2 DEF Types, DataTypes
      <4>2. FeedOK(feed[m], At(m), Text, Posted)
        BY <1>0 DEF Feeds
      <4>3. QED
        BY <1>3, <1>14, <4>1, <4>2
    <3>3. QED
      BY <3>1, <3>2
  <2>2. QED
    BY <2>1 DEF Feeds, FeedOK, Holds, Written, Precedes, Ticket, Stages, LineType
<1>16. QED
  BY <1>0, <1>1, <1>8, <1>9, <1>15 DEF Talk

(***************************************************************************)
(* A line is written.                                                      *)
(***************************************************************************)
LEMMA Writing ==
  ASSUME Talk, NEW n \in Node, fprintf(n)
  PROVE  Talk' /\ \A m \in Node : At(m)' = At(m)
<1>0. Types /\ Outs /\ Passed /\ Feeds
  BY DEF Talk
<1>. DEFINE o == out[n]
            c == At(n)
            all == Text[<<n, c>>]
            w == Posted[<<n, c>>]
<1>1. o # <<>> /\ o \in Seq(LineType) /\ Len(o) \in Nat \ {0}
      /\ Head(o) \in LineType /\ Tail(o) \in Seq(LineType) /\ Len(Tail(o)) = Len(o) - 1
      /\ Head(o) = o[1]
  <2>1. o # <<>> /\ o \in Seq(LineType)
    BY <1>0 DEF Types, DataTypes, fprintf
  <2>. HIDE DEF o
  <2>2. QED
    BY <2>1
<1>2. /\ feed' = [m \in Node |-> Append(feed[m], Head(o))]
      /\ out' = [out EXCEPT ![n] = Tail(o)]
      /\ setting' = setting /\ pc' = pc /\ peer_hostnames' = peer_hostnames /\ peer_eps' = peer_eps
      /\ request' = request /\ plan' = plan /\ links' = links
      /\ conn_mat' = conn_mat /\ avgdist_map' = avgdist_map /\ rts' = rts
  BY DEF fprintf, known, tables
<1>3. \A m \in Node : At(m)' = At(m) /\ At(m) \in Stages /\ At(m) \in 1 .. 12
  BY <1>0, <1>2, StageFacts DEF At, Types, DataTypes, Stages
<1>4. Types'
  <2>1. feed \in [Node -> Seq(LineType)] /\ out \in [Node -> Seq(LineType)]
    BY <1>0 DEF Types, DataTypes
  <2>2. feed' \in [Node -> Seq(LineType)] /\ out' \in [Node -> Seq(LineType)]
    <3>. HIDE DEF o
    <3>1. QED
      BY <1>1, <1>2, <2>1
  <2>3. QED
    BY <1>0, <1>2, <2>2 DEF Types, DataTypes, LineType
<1>5. Text' = Text /\ Speaking' = Speaking
  <2>1. Speaking' = Speaking
    BY <1>2 DEF Speaking
  <2>2. \A m \in Node : \A s \in Stages : Lines(m, s)' = Lines(m, s)
    BY <1>2 DEF Lines
  <2>3. \A x \in Node \X Stages : Lines(x[1], x[2])' = Lines(x[1], x[2])
    BY <2>2
  <2>4. Text' = [x \in Node \X Stages |-> IF x[2] \in Speaking' THEN Lines(x[1], x[2])' ELSE <<>>]
    BY DEF Text, Stages
  <2>5. QED
    BY <2>1, <2>3, <2>4 DEF Text
<1>6. /\ Filled(Text, Posted)
      /\ \A m \in Node : \A s \in Stages :
           /\ s < At(m) => Posted[<<m, s>>] = Len(Text[<<m, s>>])
           /\ s = At(m) => Posted[<<m, s>>] = Len(Text[<<m, s>>]) - Len(out[m])
           /\ s > At(m) => Posted[<<m, s>>] = 0
  BY <1>0, PostedFacts
<1>7. /\ Len(o) <= Len(all) /\ o = SubSeq(all, Len(all) - Len(o) + 1, Len(all))
      /\ all \in Seq(LineType) /\ Len(all) \in Nat
  <2>1. Len(o) <= Len(all) /\ o = SubSeq(all, Len(all) - Len(o) + 1, Len(all))
    BY <1>0 DEF Outs
  <2>2. <<n, c>> \in Node \X Stages
    BY <1>3
  <2>3. all \in Seq(LineType)
    BY <1>6, <2>2 DEF Filled
  <2>. HIDE DEF all, o
  <2>4. QED
    BY <2>1, <2>3
<1>8. w = Len(all) - Len(o)
  BY <1>3, <1>6
<1>. HIDE DEF o, c, all, w
<1>9. w \in Nat /\ w < Len(all) /\ Head(o) = all[w + 1]
      /\ Tail(o) = SubSeq(all, Len(all) - Len(Tail(o)) + 1, Len(all)) /\ Len(Tail(o)) <= Len(all)
      /\ w + 1 = Len(all) - Len(Tail(o))
  <2>. DEFINE l == Len(all)
              k == Len(o)
  <2>1. l \in Nat /\ k \in Nat /\ k # 0 /\ k <= l /\ w = l - k /\ Len(Tail(o)) = k - 1
    BY <1>1, <1>7, <1>8
  <2>2. w \in Nat /\ w < l /\ w + 1 = l - (k - 1) /\ k - 1 <= l /\ w + 1 = l - k + 1
        /\ w + 1 \in 1 .. l
    <3>. HIDE DEF l, k
    <3>1. QED
      BY <2>1
  <2>3. o = SubSeq(all, w + 1, l)
    BY <1>7, <2>2
  <2>. DEFINE a == w + 1
              p == Tail(o)
  <2>4. a \in 1 .. l /\ a \in Nat /\ l - (k - 1) + 1 = a + 1
    <3>. HIDE DEF l, k
    <3>1. QED
      BY <2>1, <2>2
  <2>5. Head(o) = all[a] /\ p = SubSeq(all, a + 1, l)
    <3>1. o = SubSeq(all, a, l) /\ all \in Seq(LineType) /\ l = Len(all)
      BY <1>7, <2>3
    <3>. HIDE DEF a
    <3>2. o[1] = all[a]
      BY <2>4, <3>1
    <3>3. p = SubSeq(all, a + 1, l)
      <4>. DEFINE q == SubSeq(all, a + 1, l)
      <4>1. p \in Seq(LineType) /\ Len(p) = Len(o) - 1 /\ Len(o) = l - a + 1
            /\ \A i \in 1 .. Len(o) - 1 : p[i] = o[i + 1] /\ o[i + 1] = all[i + a]
        <5>1. Len(o) = l - a + 1 /\ \A i \in 1 .. l - a + 1 : o[i] = all[i + a - 1]
          BY <2>4, <3>1
        <5>2. p \in Seq(LineType) /\ Len(p) = Len(o) - 1 /\ \A i \in 1 .. Len(o) - 1 : p[i] = o[i + 1]
          BY <1>1
        <5>. HIDE DEF l, p
        <5>3. \A i \in 1 .. Len(o) - 1 : i + 1 \in 1 .. l - a + 1 /\ i + 1 + a - 1 = i + a
          BY <2>1, <2>4, <5>1 DEF l
        <5>4. QED
          BY <5>1, <5>2, <5>3
      <4>2. q \in Seq(LineType) /\ Len(q) = l - a /\ \A i \in 1 .. l - a : q[i] = all[i + a]
        BY <2>4, <3>1
      <4>. HIDE DEF p, q
      <4>3. Len(p) = Len(q) /\ \A i \in 1 .. Len(p) : p[i] = q[i]
        <5>1. Len(o) - 1 = l - a
          <6>1. l \in Nat
            BY <2>1
          <6>. HIDE DEF l
          <6>2. QED
            BY <2>4, <4>1, <6>1
        <5>2. QED
          BY <4>1, <4>2, <5>1
      <4>4. p = q
        BY <4>1, <4>2, <4>3, SeqEqual
      <4>5. QED
        BY <4>4 DEF q
    <3>4. QED
      BY <1>1, <3>2, <3>3
  <2>6. QED
    BY <2>1, <2>2, <2>4, <2>5
<1>10. c \in Speaking /\ c \in Stages /\ c \in 1 .. 12
  <2>1. all # <<>>
    BY <1>9, <1>7
  <2>2. c \in Stages
    BY <1>3 DEF c
  <2>3. c \in Speaking
    BY <1>0, <2>1, <2>2, TextFacts DEF all
  <2>4. QED
    BY <2>2, <2>3 DEF Stages
<1>11. \A m \in Node : At(m) <= c
  <2>1. SUFFICES ASSUME NEW m \in Node, c < At(m)
                 PROVE  FALSE
    BY <1>3, <1>10
  <2>2. Behind(n, c)
    BY <1>0, <1>10, <2>1 DEF Passed
  <2>3. QED
    BY <1>1, <1>10, <2>2 DEF Behind, c, o
<1>12. Outs'
  <2>1. ASSUME NEW m \in Node
        PROVE  LET b == Text[<<m, At(m)>>] IN
               Len(out'[m]) <= Len(b) /\ out'[m] = SubSeq(b, Len(b) - Len(out'[m]) + 1, Len(b))
    <3>1. CASE m = n
      <4>1. out'[m] = Tail(o) /\ Text[<<m, At(m)>>] = all
        BY <1>0, <1>2, <3>1 DEF Types, DataTypes, all, c
      <4>2. QED
        BY <1>9, <4>1
    <3>2. CASE m # n
      <4>1. out'[m] = out[m]
        BY <1>0, <1>2, <3>2 DEF Types, DataTypes
      <4>2. QED
        BY <1>0, <4>1 DEF Outs
    <3>3. QED
      BY <3>1, <3>2
  <2>2. QED
    BY <1>3, <1>5, <2>1 DEF Outs
<1>13. Passed'
  <2>1. ASSUME NEW m \in Node, NEW k \in Node, NEW s \in Speaking, s < At(m)
        PROVE  At(k) > s \/ (At(k) = s /\ out'[k] = <<>>)
    <3>1. At(k) > s \/ (At(k) = s /\ out[k] = <<>>)
      BY <1>0, <2>1 DEF Passed, Behind
    <3>2. CASE k = n
      BY <1>1, <3>1, <3>2 DEF o
    <3>3. CASE k # n
      <4>1. out'[k] = out[k]
        BY <1>0, <1>2, <3>3 DEF Types, DataTypes
      <4>2. QED
        BY <3>1, <4>1
    <3>4. QED
      BY <3>2, <3>3
  <2>2. QED
    BY <1>3, <1>5, <2>1 DEF Passed, Behind
<1>14. Posted' = [Posted EXCEPT ![<<n, c>>] = @ + 1]
  <2>1. (\A m \in Node : \A s \in Stages :
            /\ s < At(m) => Posted[<<m, s>>] = Len(Text[<<m, s>>])
            /\ s = At(m) => Posted[<<m, s>>] = Len(Text[<<m, s>>]) - Len(out[m])
            /\ s > At(m) => Posted[<<m, s>>] = 0)'
    BY <1>4, <1>12, PostedFacts, PTL
  <2>. DEFINE W2 == Posted'
              W3 == [Posted EXCEPT ![<<n, c>>] = @ + 1]
  <2>2. ASSUME NEW m \in Node, NEW s \in Stages
        PROVE  W2[<<m, s>>] = W3[<<m, s>>]
    <3>1. /\ s < At(m) => W2[<<m, s>>] = Len(Text[<<m, s>>])
          /\ s = At(m) => W2[<<m, s>>] = Len(Text[<<m, s>>]) - Len(out'[m])
          /\ s > At(m) => W2[<<m, s>>] = 0
      BY <1>3, <1>5, <2>1 DEF Stages
    <3>2. /\ s < At(m) => Posted[<<m, s>>] = Len(Text[<<m, s>>])
          /\ s = At(m) => Posted[<<m, s>>] = Len(Text[<<m, s>>]) - Len(out[m])
          /\ s > At(m) => Posted[<<m, s>>] = 0
      BY <1>6
    <3>3. CASE m = n /\ s = c
      <4>1. W2[<<m, s>>] = Len(all) - Len(Tail(o))
        <5>1. out'[m] = Tail(o)
          BY <1>0, <1>2, <3>3 DEF Types, DataTypes
        <5>2. QED
          BY <3>1, <3>3, <5>1 DEF all, c
      <4>2. W3[<<m, s>>] = w + 1
        BY <1>6, <3>3 DEF Filled, w
      <4>3. QED
        BY <1>9, <4>1, <4>2
    <3>4. CASE ~ (m = n /\ s = c)
      <4>1. <<m, s>> # <<n, c>>
        BY <3>4
      <4>2. W3[<<m, s>>] = Posted[<<m, s>>]
        BY <1>6, <4>1 DEF Filled
      <4>3. s = At(m) => out'[m] = out[m]
        BY <1>0, <1>2, <3>4 DEF Types, DataTypes, c
      <4>4. s \in 1 .. 12 /\ At(m) \in 1 .. 12
        BY <1>3 DEF Stages
      <4>5. s < At(m) \/ s = At(m) \/ s > At(m)
        BY <4>4
      <4>. HIDE DEF W2, W3
      <4>6. QED
        BY <3>1, <3>2, <4>2, <4>3, <4>5
    <3>5. QED
      BY <3>3, <3>4
  <2>3. W2 = [x \in Node \X Stages |-> W2[x]] /\ W3 = [x \in Node \X Stages |-> W3[x]]
    <3>1. W2 = [x \in Node \X Stages |-> W2[x]]
      BY DEF Posted, Stages
    <3>2. W3 = [x \in Node \X Stages |-> W3[x]]
      BY <1>6 DEF Filled
    <3>3. QED
      BY <3>1, <3>2
  <2>. HIDE DEF W2, W3
  <2>4. \A x \in Node \X Stages : W2[x] = W3[x]
    BY <2>2
  <2>5. W2 = W3
    BY <2>3, <2>4
  <2>6. QED
    BY <2>5 DEF W2, W3
<1>15. Feeds'
  <2>. DEFINE W2 == [Posted EXCEPT ![<<n, c>>] = @ + 1]
  <2>1. ASSUME NEW m \in Node
        PROVE  FeedOK(feed'[m], At(m), Text, W2)
    <3>1. FeedOK(feed[m], At(m), Text, Posted) /\ At(m) \in Stages /\ c >= At(m)
      BY <1>0, <1>3, <1>10, <1>11 DEF Feeds
    <3>2. \A x \in Node \X Stages : x[2] > c => Posted[x] = 0
      <4>1. SUFFICES ASSUME NEW k \in Node, NEW s \in Stages, s > c
                     PROVE  Posted[<<k, s>>] = 0
        OBVIOUS
      <4>2. s \in 1 .. 12 /\ At(k) \in 1 .. 12 /\ At(k) <= c
        BY <1>3, <1>11 DEF Stages
      <4>3. s > At(k)
        BY <1>10, <4>1, <4>2
      <4>4. QED
        BY <1>6, <4>3
    <3>3. Posted[<<n, c>>] < Len(Text[<<n, c>>])
      BY <1>9 DEF w, all
    <3>. HIDE DEF W2
    <3>4. W2 = [Posted EXCEPT ![<<n, c>>] = @ + 1]
      BY DEF W2
    <3>5. FeedOK(Append(feed[m], Text[<<n, c>>][Posted[<<n, c>>] + 1]), At(m), Text, W2)
      BY <1>6, <1>10, <3>1, <3>2, <3>3, <3>4, FeedAppend
    <3>6. feed'[m] = Append(feed[m], Text[<<n, c>>][Posted[<<n, c>>] + 1])
      BY <1>2, <1>9 DEF w, all
    <3>7. QED
      BY <3>5, <3>6
  <2>2. ASSUME NEW m \in Node
        PROVE  FeedOK(feed'[m], At(m)', Text', Posted')
    BY <1>3, <1>5, <1>14, <2>1
  <2>3. QED
    BY <2>2 DEF Feeds, FeedOK, Holds, Written, Precedes, Ticket, Stages, LineType
<1>16. QED
  BY <1>3, <1>4, <1>12, <1>13, <1>15 DEF Talk

(***************************************************************************)
(* A read loop gets all it waits for, and the node goes on.                *)
(***************************************************************************)
LEMMA ReadOn ==
  ASSUME Talk, DataTypes', setting' = setting,
         NEW n \in Node, NEW c \in Speaking, At(n) = c, Reads(n, OpAt(c)),
         NEW o \in Ops \ {"lost"}, NEW d, d = Stage(o), d > c,
         \A s \in Speaking : ~ (c < s /\ s < d),
         NEW lines \in Seq(LineType), lines = IF d \in Speaking THEN Lines(n, d)' ELSE <<>>,
         Go(n, o, lines),
         o \in {"sync0", "request"} => setting.scheme = "locality",
         o = "avgdist" => setting.rttype = "ORDERED_BFS",
         \A m \in Node : /\ At(m) < 3 \/ request'[m] = request[m]
                         /\ At(m) < 6 \/ plan'[m] = plan[m]
                         /\ At(m) < 9 \/ conn_mat'[m] = conn_mat[m]
  PROVE  Talk' /\ \A m \in Node : At(m)' = IF m = n THEN d ELSE At(m)
<1>1. out[n] = <<>> /\ \A m \in Node : Behind(m, c)
  BY Reading
<1>2. PICK f : /\ feed' = [feed EXCEPT ![n] = f] /\ f \in Seq(LineType)
               /\ \A e \in Stages : e > c /\ (\A s \in Speaking : ~ (c < s /\ s < e))
                                    => FeedOK(f, e, Text, Posted)
  BY Reading
<1>3. d \in Stages
  BY StageFacts
<1>4. FeedOK(f, d, Text, Posted)
  BY <1>2, <1>3
<1>5. Types'
  <2>1. pc' = [pc EXCEPT ![n] = o] /\ out' = [out EXCEPT ![n] = lines]
    BY DEF Go
  <2>2. /\ pc \in [Node -> Ops \ {"lost"}] /\ out \in [Node -> Seq(LineType)]
        /\ feed \in [Node -> Seq(LineType)] /\ setting \in Settings
        /\ \A m \in Node : /\ pc[m] \in {"sync0", "request"} => setting.scheme = "locality"
                           /\ pc[m] = "avgdist" => setting.rttype = "ORDERED_BFS"
    BY DEF Talk, Types
  <2>3. /\ pc' \in [Node -> Ops \ {"lost"}] /\ out' \in [Node -> Seq(LineType)]
        /\ feed' \in [Node -> Seq(LineType)] /\ setting' \in Settings
    BY <1>2, <2>1, <2>2
  <2>4. \A m \in Node : /\ pc'[m] \in {"sync0", "request"} => setting'.scheme = "locality"
                        /\ pc'[m] = "avgdist" => setting'.rttype = "ORDERED_BFS"
    BY <2>1, <2>2
  <2>5. QED
    BY <2>3, <2>4 DEF Types, LineType, Ops
<1>6. out' = [out EXCEPT ![n] = IF d \in Speaking THEN Lines(n, d)' ELSE <<>>]
      /\ pc' = [pc EXCEPT ![n] = o]
  BY DEF Go
<1>7. /\ d > At(n) /\ (\A s \in Speaking : ~ (At(n) < s /\ s < d))
      /\ (At(n) \in Speaking => \A m \in Node : Behind(m, At(n)))
  BY <1>1
<1>8. QED
  BY <1>1, <1>2, <1>4, <1>5, <1>6, <1>7, Advance

(***************************************************************************)
(* A node goes on from an operation in which nothing is read.              *)
(***************************************************************************)
LEMMA GoOn ==
  ASSUME Talk, DataTypes', setting' = setting, feed' = feed,
         NEW n \in Node, At(n) \notin Speaking,
         NEW o \in Ops \ {"lost"}, NEW d, d = Stage(o), d > At(n),
         \A s \in Speaking : ~ (At(n) < s /\ s < d),
         NEW lines \in Seq(LineType), lines = IF d \in Speaking THEN Lines(n, d)' ELSE <<>>,
         Go(n, o, lines),
         o \in {"sync0", "request"} => setting.scheme = "locality",
         o = "avgdist" => setting.rttype = "ORDERED_BFS",
         \A m \in Node : /\ At(m) < 3 \/ request'[m] = request[m]
                         /\ At(m) < 6 \/ plan'[m] = plan[m]
                         /\ At(m) < 9 \/ conn_mat'[m] = conn_mat[m]
  PROVE  Talk' /\ \A m \in Node : At(m)' = IF m = n THEN d ELSE At(m)
<1>0. Types /\ Outs /\ Feeds
  BY DEF Talk
<1>1. /\ pc \in [Node -> Ops \ {"lost"}] /\ out \in [Node -> Seq(LineType)]
      /\ feed \in [Node -> Seq(LineType)] /\ setting \in Settings
      /\ \A m \in Node : /\ pc[m] \in {"sync0", "request"} => setting.scheme = "locality"
                         /\ pc[m] = "avgdist" => setting.rttype = "ORDERED_BFS"
  BY <1>0 DEF Types
<1>2. At(n) \in Stages /\ d \in Stages /\ At(n) \in 1 .. 12 /\ d \in 1 .. 12
  BY <1>1, StageFacts DEF At, Stages
<1>3. out[n] = <<>>
  <2>1. Text[<<n, At(n)>>] = <<>>
    BY <1>0, <1>2, TextFacts
  <2>2. Len(out[n]) <= Len(Text[<<n, At(n)>>]) /\ Len(<<>>) = 0
    BY <1>0 DEF Outs
  <2>3. Len(out[n]) \in Nat /\ (out[n] = <<>> <=> Len(out[n]) = 0)
    BY <1>0, PostedFacts
  <2>4. QED
    BY <2>1, <2>2, <2>3
<1>4. \A x \in Node \X Stages : At(n) <= x[2] /\ x[2] < d => Posted[x] = 0
  <2>1. SUFFICES ASSUME NEW m \in Node, NEW s \in Stages, At(n) <= s, s < d
                 PROVE  Posted[<<m, s>>] = 0
    OBVIOUS
  <2>2. s \notin Speaking
    <3>1. s \in 1 .. 12
      BY DEF Stages
    <3>2. s = At(n) \/ (At(n) < s /\ s < d)
      BY <1>2, <2>1, <3>1
    <3>3. QED
      BY <3>2
  <2>3. Text[<<m, s>>] = <<>> /\ <<m, s>> \in Node \X Stages
    BY <1>0, <2>2, TextFacts
  <2>4. Posted[<<m, s>>] \in Nat /\ Posted[<<m, s>>] <= 0
    BY <1>0, <2>3, PostedFacts DEF Filled
  <2>5. QED
    BY <2>4
<1>. DEFINE f == feed[n]
<1>5. FeedOK(f, At(n), Text, Posted) /\ d >= At(n)
  BY <1>0, <1>2 DEF Feeds
<1>6. FeedOK(f, d, Text, Posted)
  BY <1>2, <1>4, <1>5, FeedLater
<1>7. feed' = [feed EXCEPT ![n] = f]
  BY <1>1
<1>8. Types'
  <2>1. pc' = [pc EXCEPT ![n] = o] /\ out' = [out EXCEPT ![n] = lines]
    BY DEF Go
  <2>3. /\ pc' \in [Node -> Ops \ {"lost"}] /\ out' \in [Node -> Seq(LineType)]
        /\ feed' \in [Node -> Seq(LineType)] /\ setting' \in Settings
    BY <1>1, <2>1
  <2>4. \A m \in Node : /\ pc'[m] \in {"sync0", "request"} => setting'.scheme = "locality"
                        /\ pc'[m] = "avgdist" => setting'.rttype = "ORDERED_BFS"
    BY <1>1, <2>1
  <2>5. QED
    BY <2>3, <2>4 DEF Types, LineType, Ops
<1>9. out' = [out EXCEPT ![n] = IF d \in Speaking THEN Lines(n, d)' ELSE <<>>]
      /\ pc' = [pc EXCEPT ![n] = o]
  BY DEF Go
<1>. HIDE DEF f
<1>10. QED
  BY <1>3, <1>6, <1>7, <1>8, <1>9, Advance

-----------------------------------------------------------------------------
(***************************************************************************)
(* What the lines tell.                                                    *)
(***************************************************************************)
May(n) == IF setting.scheme = "ring" THEN {(n + 1) % gxp_num_execs} ELSE Later(n)

Plannings ==
  /\ links = {c \in Node \X Node : At(c[1]) >= 6 /\ c[2] \in plan[c[1]]}
  /\ \A n \in Node :
       /\ At(n) >= 2 => peer_hostnames[n] = Node
       /\ At(n) >= 5 => peer_eps[n] = Node
       /\ plan[n] \subseteq May(n) /\ request[n] \subseteq Node \ {n}
       /\ setting.scheme = "locality" =>
            /\ At(n) = 3 => plan[n] = request[n] \cap Later(n)
            /\ At(n) \in {4, 5} => plan[n] = {m \in Later(n) : m \in request[n] \/ n \in request[m]}

Measured == [c \in Channel |-> IF c \in links THEN rtt(c[1], c[2]) ELSE GXP_NO_RTT]
Zeros == [m \in Node |-> 0]
Sums == [m \in Node |-> IF setting.rttype = "ORDERED_BFS" THEN avgdist(Measured, m) ELSE 0]

Results ==
  \A n \in Node :
    /\ At(n) >= 7 => conn_mat[n] = Measured
    /\ At(n) <= 9 => rts[n] = NotYet /\ avgdist_map[n] = Zeros
    /\ At(n) >= 10 => rts[n] = <<Measured, Sums>>
    /\ At(n) = 8 => CutOff(Measured, n)
    /\ At(n) >= 9 => ~ CutOff(Measured, n)

IInv == Talk /\ Plannings /\ Results

LEMMA NextOne ==
  ASSUME NEW n \in Node
  PROVE  /\ (n + 1) % gxp_num_execs = IF n = gxp_num_execs - 1 THEN 0 ELSE n + 1
         /\ (n + 1) % gxp_num_execs \in Node
<1>1. n \in 0 .. gxp_num_execs - 1 /\ gxp_num_execs \in Nat \ {0}
  BY NodeFacts
<1>2. (n + 1) % gxp_num_execs = IF n = gxp_num_execs - 1 THEN 0 ELSE n + 1
  BY <1>1
<1>3. QED
  BY <1>1, <1>2, NodeFacts

LEMMA PlansFacts ==
  ASSUME setting \in Settings, NEW n \in Node
  PROVE  /\ May(n) \subseteq Node
         /\ setting.scheme # "locality" => \A p \in Plans(setting.scheme, n) : p \subseteq May(n)
         /\ setting.scheme # "ring" => May(n) = Later(n)
<1>1. setting.scheme \in SchemeNames
  BY SettingsAssumption
<1>2. May(n) \subseteq Node /\ (setting.scheme # "ring" => May(n) = Later(n))
  BY NextOne DEF May, Later
<1>3. ASSUME setting.scheme # "locality", NEW p \in Plans(setting.scheme, n)
      PROVE  p \subseteq May(n)
  <2>1. CASE setting.scheme = "all"
    BY <1>3, <2>1 DEF Plans, May
  <2>2. CASE setting.scheme = "random"
    BY <1>3, <2>2 DEF Plans, May
  <2>3. CASE setting.scheme = "ring"
    BY <1>3, <2>3 DEF Plans, May
  <2>4. CASE setting.scheme = "line"
    <3>1. p = {n + 1} \cap Node
      BY <1>3, <2>4 DEF Plans
    <3>2. \A m \in p : m > n
      BY <3>1, NodeFacts
    <3>3. QED
      BY <2>4, <3>1, <3>2 DEF May, Later
  <2>5. CASE setting.scheme = "gateway"
    <3>1. p \in GatewayPlans(n)
      BY <1>3, <2>5 DEF Plans
    <3>2. p \subseteq Later(n)
      BY <3>1 DEF GatewayPlans
    <3>3. QED
      BY <2>5, <3>2 DEF May
  <2>6. QED
    BY <1>1, <1>3, <2>1, <2>2, <2>3, <2>4, <2>5 DEF SchemeNames
<1>4. QED
  BY <1>2, <1>3

(***************************************************************************)
(* Where a node is tells in which operation.                               *)
(***************************************************************************)
LEMMA AtFacts ==
  ASSUME Types, NEW n \in Node
  PROVE  /\ At(n) \in 1 .. 12
         /\ pc[n] = "init" <=> At(n) = 1
         /\ pc[n] = "sync0" <=> At(n) = 2
         /\ pc[n] = "request" <=> At(n) = 3
         /\ pc[n] = "ports" <=> At(n) = 4
         /\ pc[n] = "connect" <=> At(n) = 5
         /\ pc[n] = "conn_info" <=> At(n) = 6
         /\ pc[n] = "compute" <=> At(n) = 7
         /\ pc[n] = "exit" <=> At(n) = 8
         /\ pc[n] = "avgdist" <=> At(n) = 9
         /\ pc[n] = "exchange_rt" <=> At(n) = 10
         /\ pc[n] = "sync" <=> At(n) = 11
         /\ pc[n] = "done" <=> At(n) = 12
<1>1. pc[n] \in Ops \ {"lost"}
  BY DEF Types
<1>2. QED
  BY <1>1, StageFacts DEF At, Ops

(***************************************************************************)
(* Until it has all lines of the matrix, a node has no results.            *)
(***************************************************************************)
LEMMA EarlyResults ==
  ASSUME Results, setting' = setting, tables' = tables,
         NEW n \in Node, NEW d \in 1 .. 6, At(n) \in 1 .. 6,
         \A m \in Node : At(m) \in 1 .. 12 /\ At(m)' = IF m = n THEN d ELSE At(m),
         links' = links \/ \A m \in Node : At(m) <= 6
  PROVE  Results'
<1>1. \A m \in Node : conn_mat'[m] = conn_mat[m] /\ avgdist_map'[m] = avgdist_map[m] /\ rts'[m] = rts[m]
  BY DEF tables
<1>2. links' = links => Measured' = Measured /\ Sums' = Sums
  BY DEF Measured, Sums
<1>3. ASSUME NEW m \in Node
      PROVE  /\ At(m)' >= 7 => conn_mat'[m] = Measured'
             /\ At(m)' <= 9 => rts'[m] = NotYet /\ avgdist_map'[m] = Zeros
             /\ At(m)' >= 10 => rts'[m] = <<Measured', Sums'>>
             /\ At(m)' = 8 => CutOff(Measured', m)
             /\ At(m)' >= 9 => ~ CutOff(Measured', m)
  <2>1. At(m)' >= 7 => At(m)' = At(m) /\ links' = links /\ At(m) \in 1 .. 12
    BY <1>3
  <2>2. At(m)' <= 9 => At(m) <= 9
    BY <1>3
  <2>3. At(m)' \in 1 .. 12
    BY <1>3
  <2>4. At(m)' <= 9 => rts'[m] = NotYet /\ avgdist_map'[m] = Zeros
    BY <1>1, <2>2 DEF Results
  <2>5. CASE At(m)' <= 6
    BY <2>3, <2>4, <2>5
  <2>6. CASE At(m)' >= 7
    <3>1. At(m)' = At(m) /\ Measured' = Measured /\ Sums' = Sums
      BY <1>2, <2>1, <2>6
    <3>2. QED
      BY <1>1, <2>4, <3>1 DEF Results
  <2>7. QED
    BY <2>3, <2>5, <2>6
<1>4. QED
  BY <1>3 DEF Results, Zeros

(***************************************************************************)
(* Once it has connected, a node does not change its plan.                 *)
(***************************************************************************)
LEMMA LatePlannings ==
  ASSUME Plannings, setting' = setting, known' = known, request' = request, plan' = plan, links' = links,
         NEW n \in Node, NEW d \in 6 .. 12, At(n) \in 6 .. 12,
         \A m \in Node : At(m) \in 1 .. 12 /\ At(m)' = IF m = n THEN d ELSE At(m)
  PROVE  Plannings'
<1>1. \A m \in Node : /\ peer_hostnames'[m] = peer_hostnames[m] /\ peer_eps'[m] = peer_eps[m]
                      /\ request'[m] = request[m] /\ plan'[m] = plan[m] /\ May(m)' = May(m)
  BY DEF known, May
<1>2. ASSUME NEW m \in Node
      PROVE  /\ At(m)' >= 6 <=> At(m) >= 6
             /\ At(m)' >= 2 => At(m) >= 2
             /\ At(m)' >= 5 => At(m) >= 5
             /\ At(m)' = 3 => At(m) = 3
             /\ At(m)' \in {4, 5} => At(m) \in {4, 5}
  BY <1>2
<1>3. links' = {c \in Node \X Node : At(c[1])' >= 6 /\ c[2] \in plan'[c[1]]}
  <2>1. \A c \in Node \X Node : At(c[1])' >= 6 <=> At(c[1]) >= 6
    BY <1>2
  <2>2. QED
    BY <2>1 DEF Plannings
<1>4. QED
  BY <1>1, <1>2, <1>3 DEF Plannings

LEMMA OneLine ==
  ASSUME NEW n \in Node
  PROVE  /\ <<SyncLine>> \in Seq(LineType) /\ <<PortLine(n)>> \in Seq(LineType)
         /\ \A a \in Nat : <<Line("avgdist", n, Nothing, a)>> \in Seq(LineType)
<1>1. n \in Int /\ Nothing \in Int /\ \A a \in Nat : a \in Int
  BY NodeFacts DEF Nothing
<1>2. SyncLine \in LineType /\ PortLine(n) \in LineType
      /\ \A a \in Nat : Line("avgdist", n, Nothing, a) \in LineType
  BY <1>1, LineFacts DEF SyncLine, PortLine
<1>3. \A x \in LineType : <<x>> \in Seq(LineType)
  OBVIOUS
<1>4. QED
  BY <1>2, <1>3

LEMMA OneLineFacts ==
  ASSUME Types, NEW m \in Node
  PROVE  /\ Lines(m, 1)[1].kind = "init" /\ Lines(m, 1)[1].src = m
         /\ Lines(m, 2)[1].kind = "sync" /\ Lines(m, 11)[1].kind = "sync"
         /\ Lines(m, 4)[1].kind = "ports" /\ Lines(m, 4)[1].src = m
         /\ Lines(m, 9)[1].kind = "avgdist" /\ Lines(m, 9)[1].src = m
         /\ Lines(m, 9)[1].val = avgdist(conn_mat[m], m)
<1>. DEFINE a == avgdist(conn_mat[m], m)
<1>1. m \in Int /\ Nothing \in Int /\ a \in Int
  BY NodeFacts, AvgType DEF Nothing
<1>2. /\ Lines(m, 1)[1] = Line("init", m, Nothing, Nothing)
      /\ Lines(m, 2)[1] = SyncLine /\ Lines(m, 11)[1] = SyncLine
      /\ Lines(m, 4)[1] = PortLine(m)
      /\ Lines(m, 9)[1] = Line("avgdist", m, Nothing, a)
  BY LinesFacts
<1>. HIDE DEF a
<1>3. /\ Line("init", m, Nothing, Nothing).kind = "init" /\ Line("init", m, Nothing, Nothing).src = m
      /\ SyncLine.kind = "sync" /\ PortLine(m).kind = "ports" /\ PortLine(m).src = m
      /\ Line("avgdist", m, Nothing, a).kind = "avgdist" /\ Line("avgdist", m, Nothing, a).src = m
      /\ Line("avgdist", m, Nothing, a).val = a
  BY <1>1, LineFacts DEF SyncLine, PortLine
<1>4. QED
  BY <1>2, <1>3 DEF a

(***************************************************************************)
(* Where every node writes one line.                                       *)
(***************************************************************************)
LEMMA GotOne ==
  ASSUME Talk, NEW n \in Node, NEW c \in Speaking, c \in {1, 2, 4, 9, 11}, At(n) = c, Reads(n, OpAt(c))
  PROVE  /\ \A l \in Taken(n, OpAt(c)) : \E m \in Node : l = Lines(m, c)[1]
         /\ \A m \in Node : Lines(m, c)[1] \in Taken(n, OpAt(c))
<1>1. \A m \in Node : Len(Lines(m, c)) = 1
  BY LinesFacts DEF Talk
<1>2. /\ \A l \in Taken(n, OpAt(c)) : \E m \in Node : \E i \in 1 .. Len(Lines(m, c)) : l = Lines(m, c)[i]
      /\ \A m \in Node : \A i \in 1 .. Len(Lines(m, c)) : Lines(m, c)[i] \in Taken(n, OpAt(c))
  BY Reading
<1>3. ASSUME NEW l \in Taken(n, OpAt(c))
      PROVE  \E m \in Node : l = Lines(m, c)[1]
  <2>1. PICK m \in Node : \E i \in 1 .. Len(Lines(m, c)) : l = Lines(m, c)[i]
    BY <1>2
  <2>2. PICK i \in 1 .. Len(Lines(m, c)) : l = Lines(m, c)[i]
    BY <2>1
  <2>3. i \in 1 .. 1
    BY <1>1
  <2>4. i = 1
    BY <2>3
  <2>5. QED
    BY <2>2, <2>4
<1>4. ASSUME NEW m \in Node
      PROVE  Lines(m, c)[1] \in Taken(n, OpAt(c))
  <2>1. 1 \in 1 .. Len(Lines(m, c))
    BY <1>1
  <2>2. QED
    BY <1>2, <2>1
<1>5. QED
  BY <1>3, <1>4

LEMMA InvFacts ==
  ASSUME IInv
  PROVE  /\ Talk /\ Types /\ DataTypes /\ Passed /\ Plannings /\ Results
         /\ setting \in Settings /\ \A m \in Node : At(m) \in 1 .. 12
<1>1. Talk /\ Types /\ DataTypes /\ Passed /\ Plannings /\ Results /\ setting \in Settings
  BY DEF IInv, Talk, Types
<1>2. QED
  BY <1>1, AtFacts

-----------------------------------------------------------------------------
(***************************************************************************)
(* The steps.                                                              *)
(***************************************************************************)
LEMMA InitStep ==
  ASSUME IInv, NEW n \in Node, gxp_man_init(n)
  PROVE  IInv'
<1>0. /\ Talk /\ Types /\ DataTypes /\ Plannings /\ Results /\ setting \in Settings
      /\ \A m \in Node : At(m) \in 1 .. 12
  BY InvFacts
<1>1. At(n) = 1 /\ 1 \in Speaking /\ OpAt(1) = "init" /\ Reads(n, "init")
  BY <1>0, AtFacts, SpeakingFacts DEF gxp_man_init, OpAt
<1>. DEFINE got == Taken(n, "init")
<1>2. /\ \A l \in got : \E m \in Node : l = Lines(m, 1)[1]
      /\ \A m \in Node : Lines(m, 1)[1] \in got
  BY <1>0, <1>1, GotOne
<1>3. \A m \in Node : Lines(m, 1)[1].kind = "init" /\ Lines(m, 1)[1].src = m
  BY <1>0, OneLineFacts
<1>4. AllAre("init", got)
  BY <1>2, <1>3 DEF AllAre
<1>5. {l.src : l \in got} = Node
  BY <1>2, <1>3
<1>6. /\ setting' = setting /\ peer_eps' = peer_eps /\ request' = request /\ links' = links /\ tables' = tables
      /\ conn_mat' = conn_mat /\ avgdist_map' = avgdist_map /\ rts' = rts
      /\ peer_hostnames' = [peer_hostnames EXCEPT ![n] = Node]
      /\ IF setting.scheme = "locality"
         THEN Go(n, "sync0", <<SyncLine>>) /\ plan' = plan
         ELSE /\ Go(n, "ports", <<PortLine(n)>>)
              /\ \E p \in Plans(setting.scheme, n) : plan' = [plan EXCEPT ![n] = p]
  BY <1>4, <1>5 DEF gxp_man_init, tables, Same
<1>. HIDE DEF got
<1>7. /\ plan' \in [Node -> SUBSET Node] /\ \A m \in Node : plan'[m] \subseteq May(m)
      /\ \A m \in Node : m # n => plan'[m] = plan[m]
      /\ setting.scheme = "locality" => plan' = plan
  <2>1. plan \in [Node -> SUBSET Node] /\ \A m \in Node : plan[m] \subseteq May(m)
    BY <1>0 DEF DataTypes, Plannings
  <2>2. CASE setting.scheme = "locality"
    BY <1>6, <2>1, <2>2
  <2>3. CASE setting.scheme # "locality"
    <3>1. PICK p \in Plans(setting.scheme, n) : plan' = [plan EXCEPT ![n] = p]
      BY <1>6, <2>3
    <3>2. p \subseteq May(n) /\ May(n) \subseteq Node
      BY <1>0, <2>3, PlansFacts
    <3>3. QED
      BY <2>1, <2>3, <3>1, <3>2
  <2>4. QED
    BY <2>2, <2>3
<1>8. DataTypes'
  <2>1. peer_hostnames' \in [Node -> SUBSET Node]
    BY <1>0, <1>6 DEF DataTypes
  <2>2. QED
    BY <1>0, <1>6, <1>7, <2>1 DEF DataTypes
<1>9. \A m \in Node : /\ At(m) < 3 \/ request'[m] = request[m]
                      /\ At(m) < 6 \/ plan'[m] = plan[m]
                      /\ At(m) < 9 \/ conn_mat'[m] = conn_mat[m]
  BY <1>1, <1>6, <1>7
<1>10. PICK d \in {2, 4} : /\ d = 2 <=> setting.scheme = "locality"
                           /\ Talk' /\ \A m \in Node : At(m)' = IF m = n THEN d ELSE At(m)
  <2>1. CASE setting.scheme = "locality"
    <3>1. 2 \in Speaking /\ 2 = Stage("sync0") /\ "sync0" \in Ops \ {"lost"} /\ 2 > 1
      BY <2>1, SpeakingFacts, StageFacts DEF Ops
    <3>2. \A s \in Speaking : ~ (1 < s /\ s < 2)
      BY SpeakingFacts
    <3>. DEFINE lines == <<SyncLine>>
    <3>3. lines \in Seq(LineType) /\ lines = (IF 2 \in Speaking THEN Lines(n, 2)' ELSE <<>>)
      BY <3>1, OneLine DEF Lines
    <3>4. Go(n, "sync0", lines)
      BY <1>6, <2>1
    <3>. HIDE DEF lines
    <3>5. "sync0" # "avgdist"
      OBVIOUS
    <3>6. Talk' /\ \A m \in Node : At(m)' = IF m = n THEN 2 ELSE At(m)
      BY <1>0, <1>1, <1>6, <1>8, <1>9, <2>1, <3>1, <3>2, <3>3, <3>4, <3>5, ReadOn
    <3>7. QED
      BY <2>1, <3>6
  <2>2. CASE setting.scheme # "locality"
    <3>1. 4 \in Speaking /\ 4 = Stage("ports") /\ "ports" \in Ops \ {"lost"} /\ 4 > 1
      BY SpeakingFacts, StageFacts DEF Ops
    <3>2. \A s \in Speaking : ~ (1 < s /\ s < 4)
      BY <2>2, SpeakingFacts
    <3>. DEFINE lines == <<PortLine(n)>>
    <3>3. lines \in Seq(LineType) /\ lines = (IF 4 \in Speaking THEN Lines(n, 4)' ELSE <<>>)
      BY <3>1, OneLine DEF Lines
    <3>4. Go(n, "ports", lines)
      BY <1>6, <2>2
    <3>. HIDE DEF lines
    <3>5. "ports" # "avgdist" /\ "ports" \notin {"sync0", "request"}
      OBVIOUS
    <3>6. Talk' /\ \A m \in Node : At(m)' = IF m = n THEN 4 ELSE At(m)
      BY <1>0, <1>1, <1>6, <1>8, <1>9, <3>1, <3>2, <3>3, <3>4, <3>5, ReadOn
    <3>7. QED
      BY <2>2, <3>6
  <2>3. QED
    BY <2>1, <2>2
<1>11. Plannings'
  <2>1. \A m \in Node : /\ peer_eps'[m] = peer_eps[m] /\ request'[m] = request[m] /\ May(m)' = May(m)
                        /\ peer_hostnames'[m] = IF m = n THEN Node ELSE peer_hostnames[m]
                        /\ plan'[m] \subseteq May(m) /\ (m # n => plan'[m] = plan[m])
    BY <1>0, <1>6, <1>7 DEF May, DataTypes
  <2>2. links' = {c \in Node \X Node : At(c[1])' >= 6 /\ c[2] \in plan'[c[1]]}
    <3>1. \A c \in Node \X Node : (At(c[1])' >= 6 /\ c[2] \in plan'[c[1]])
                                  <=> (At(c[1]) >= 6 /\ c[2] \in plan[c[1]])
      <4>1. \A m \in Node : \A k : (At(m)' >= 6 /\ k \in plan'[m]) <=> (At(m) >= 6 /\ k \in plan[m])
        BY <1>1, <1>10, <2>1
      <4>2. QED
        BY <4>1
    <3>2. QED
      BY <1>0, <1>6, <3>1 DEF Plannings
  <2>3. ASSUME NEW m \in Node
        PROVE  /\ At(m)' >= 2 => peer_hostnames'[m] = Node
               /\ At(m)' >= 5 => peer_eps'[m] = Node
               /\ plan'[m] \subseteq May(m)' /\ request'[m] \subseteq Node \ {m}
               /\ setting.scheme = "locality" =>
                    /\ At(m)' = 3 => plan'[m] = request'[m] \cap Later(m)
                    /\ At(m)' \in {4, 5} => plan'[m] = {k \in Later(m) : k \in request'[m] \/ m \in request'[k]}
    <3>1. CASE m # n
      <4>1. At(m)' = At(m)
        BY <1>10, <3>1
      <4>2. {k \in Later(m) : k \in request'[m] \/ m \in request'[k]}
            = {k \in Later(m) : k \in request[m] \/ m \in request[k]}
        BY <1>6
      <4>3. QED
        BY <1>0, <1>6, <2>1, <3>1, <4>1, <4>2 DEF Plannings
    <3>2. CASE m = n
      <4>1. At(m)' \in {2, 4} /\ (setting.scheme = "locality" => At(m)' = 2)
        BY <1>10, <3>2
      <4>2. QED
        BY <1>0, <2>1, <3>2, <4>1 DEF Plannings
    <3>3. QED
      BY <3>1, <3>2
  <2>4. QED
    BY <1>6, <2>2, <2>3 DEF Plannings
<1>12. Results'
  <2>1. d \in 1 .. 6 /\ At(n) \in 1 .. 6
    BY <1>1
  <2>2. QED
    BY <1>0, <1>6, <1>10, <2>1, EarlyResults
<1>13. QED
  BY <1>10, <1>11, <1>12 DEF IInv

LEMMA RequestStep ==
  ASSUME IInv, NEW n \in Node, request_peers(n)
  PROVE  IInv'
<1>0. /\ Talk /\ Types /\ DataTypes /\ Passed /\ Plannings /\ Results /\ setting \in Settings
      /\ \A m \in Node : At(m) \in 1 .. 12
  BY InvFacts
<1>1. /\ At(n) = 2 /\ setting.scheme = "locality" /\ 2 \in Speaking /\ 3 \in Speaking
      /\ OpAt(2) = "sync" /\ Reads(n, "sync")
  <2>1. pc[n] = "sync0" /\ Reads(n, "sync")
    BY DEF request_peers
  <2>2. setting.scheme = "locality"
    BY <1>0, <2>1 DEF Types
  <2>3. At(n) = 2
    BY <1>0, <2>1, AtFacts
  <2>4. QED
    BY <2>1, <2>2, <2>3, SpeakingFacts DEF OpAt
<1>2. AllAre("sync", Taken(n, "sync"))
  <2>1. \A l \in Taken(n, "sync") : \E m \in Node : l = Lines(m, 2)[1]
    BY <1>0, <1>1, GotOne
  <2>2. \A m \in Node : Lines(m, 2)[1].kind = "sync"
    BY <1>0, OneLineFacts
  <2>3. QED
    BY <2>1, <2>2 DEF AllAre
<1>3. PICK wants \in Requests(n) :
        /\ request' = [request EXCEPT ![n] = wants]
        /\ plan' = [plan EXCEPT ![n] = wants \cap Later(n)]
        /\ Go(n, "request", RequestLines(n, wants))
  BY <1>2 DEF request_peers, Same
<1>4. /\ setting' = setting /\ peer_hostnames' = peer_hostnames /\ peer_eps' = peer_eps
      /\ links' = links /\ tables' = tables
      /\ conn_mat' = conn_mat /\ avgdist_map' = avgdist_map /\ rts' = rts
  BY DEF request_peers, known, tables
<1>5. wants \in SUBSET Node /\ wants \subseteq Node \ {n}
  BY DEF Requests
<1>6. \A m \in Node : /\ request'[m] = IF m = n THEN wants ELSE request[m]
                      /\ plan'[m] = IF m = n THEN wants \cap Later(n) ELSE plan[m]
  BY <1>0, <1>3 DEF DataTypes
<1>7. \A m \in Node : At(m) <= 3
  <2>1. SUFFICES ASSUME NEW m \in Node, 3 < At(m)
                 PROVE  FALSE
    BY <1>0
  <2>2. Behind(n, 3)
    BY <1>0, <1>1, <2>1 DEF Passed
  <2>3. QED
    BY <1>1, <2>2 DEF Behind
<1>8. DataTypes'
  <2>1. request' \in [Node -> SUBSET Node]
    BY <1>0, <1>3, <1>5 DEF DataTypes
  <2>2. plan' \in [Node -> SUBSET Node]
    BY <1>0, <1>3, <1>5 DEF DataTypes
  <2>3. QED
    BY <1>0, <1>4, <2>1, <2>2 DEF DataTypes
<1>9. \A m \in Node : /\ At(m) < 3 \/ request'[m] = request[m]
                      /\ At(m) < 6 \/ plan'[m] = plan[m]
                      /\ At(m) < 9 \/ conn_mat'[m] = conn_mat[m]
  BY <1>1, <1>4, <1>6
<1>10. Talk' /\ \A m \in Node : At(m)' = IF m = n THEN 3 ELSE At(m)
  <2>1. 3 = Stage("request") /\ "request" \in Ops \ {"lost"} /\ 3 > 2 /\ "request" # "avgdist"
    BY StageFacts DEF Ops
  <2>2. \A s \in Speaking : ~ (2 < s /\ s < 3)
    BY SpeakingFacts
  <2>. DEFINE lines == RequestLines(n, wants)
  <2>3. lines \in Seq(LineType)
    BY <1>5, RequestFacts
  <2>4. lines = (IF 3 \in Speaking THEN Lines(n, 3)' ELSE <<>>)
    BY <1>1, <1>6 DEF Lines
  <2>5. Go(n, "request", lines)
    BY <1>3
  <2>. HIDE DEF lines
  <2>6. QED
    BY <1>0, <1>1, <1>4, <1>8, <1>9, <2>1, <2>2, <2>3, <2>4, <2>5, ReadOn
<1>11. Plannings'
  <2>0. May(n) = Later(n) /\ \A m \in Node : May(m)' = May(m)
    BY <1>1, <1>4 DEF May
  <2>1. links' = {c \in Node \X Node : At(c[1])' >= 6 /\ c[2] \in plan'[c[1]]}
    <3>1. \A m \in Node : ~ (At(m) >= 6) /\ ~ (At(m)' >= 6)
      BY <1>0, <1>7, <1>10
    <3>2. \A c \in Node \X Node : ~ (At(c[1]) >= 6) /\ ~ (At(c[1])' >= 6)
      BY <3>1
    <3>3. QED
      BY <1>0, <1>4, <3>2 DEF Plannings
  <2>2. ASSUME NEW m \in Node
        PROVE  /\ At(m)' >= 2 => peer_hostnames'[m] = Node
               /\ At(m)' >= 5 => peer_eps'[m] = Node
               /\ plan'[m] \subseteq May(m)' /\ request'[m] \subseteq Node \ {m}
               /\ At(m)' = 3 => plan'[m] = request'[m] \cap Later(m)
               /\ ~ (At(m)' \in {4, 5})
    <3>1. At(m)' <= 3 /\ At(m)' \in 1 .. 12 /\ (At(m)' >= 2 => At(m) >= 2)
          /\ (m # n => At(m)' = At(m))
      BY <1>0, <1>1, <1>7, <1>10
    <3>2. ~ (At(m)' \in {4, 5}) /\ ~ (At(m)' >= 5)
      BY <3>1
    <3>3. At(m)' >= 2 => peer_hostnames'[m] = Node
      BY <1>0, <1>4, <3>1 DEF Plannings
    <3>4. CASE m = n
      BY <1>5, <1>6, <2>0, <3>2, <3>3, <3>4
    <3>5. CASE m # n
      BY <1>0, <1>1, <1>6, <2>0, <3>1, <3>2, <3>3, <3>5 DEF Plannings
    <3>6. QED
      BY <3>4, <3>5
  <2>3. QED
    BY <2>1, <2>2 DEF Plannings
<1>12. Results'
  <2>1. 3 \in 1 .. 6 /\ At(n) \in 1 .. 6
    BY <1>1
  <2>2. QED
    BY <1>0, <1>4, <1>10, <2>1, EarlyResults
<1>13. QED
  BY <1>10, <1>11, <1>12 DEF IInv

LEMMA LocalityStep ==
  ASSUME IInv, NEW n \in Node, gxp_man_connect_locality_aware(n)
  PROVE  IInv'
<1>0. /\ Talk /\ Types /\ DataTypes /\ Passed /\ Plannings /\ Results /\ setting \in Settings
      /\ \A m \in Node : At(m) \in 1 .. 12
  BY InvFacts
<1>1. /\ At(n) = 3 /\ setting.scheme = "locality" /\ 3 \in Speaking /\ 4 \in Speaking
      /\ OpAt(3) = "request" /\ Reads(n, "request")
  <2>1. pc[n] = "request" /\ Reads(n, "request")
    BY DEF gxp_man_connect_locality_aware
  <2>2. setting.scheme = "locality"
    BY <1>0, <2>1 DEF Types
  <2>3. At(n) = 3
    BY <1>0, <2>1, AtFacts
  <2>4. QED
    BY <2>1, <2>2, <2>3, SpeakingFacts DEF OpAt
<1>. DEFINE got == Taken(n, "request")
            back == {m \in Node : n \in request[m] \ Later(m)}
<1>2. \A m \in Node : Lines(m, 3) = RequestLines(m, request[m]) /\ request[m] \in SUBSET Node
  BY <1>0, LinesFacts
<1>3. /\ \A l \in got : \E m \in Node : \E i \in 1 .. Len(RequestLines(m, request[m])) :
           l = RequestLines(m, request[m])[i]
      /\ \A m \in Node : \A i \in 1 .. Len(RequestLines(m, request[m])) :
           RequestLines(m, request[m])[i] \in got
  <2>1. /\ \A l \in got : \E m \in Node : \E i \in 1 .. Len(Lines(m, 3)) : l = Lines(m, 3)[i]
        /\ \A m \in Node : \A i \in 1 .. Len(Lines(m, 3)) : Lines(m, 3)[i] \in got
    BY <1>0, <1>1, Reading
  <2>2. ASSUME NEW l \in got
        PROVE  \E m \in Node : \E i \in 1 .. Len(RequestLines(m, request[m])) :
                 l = RequestLines(m, request[m])[i]
    <3>1. PICK m \in Node : \E i \in 1 .. Len(Lines(m, 3)) : l = Lines(m, 3)[i]
      BY <2>1
    <3>2. QED
      BY <1>2, <3>1
  <2>3. ASSUME NEW m \in Node, NEW i \in 1 .. Len(RequestLines(m, request[m]))
        PROVE  RequestLines(m, request[m])[i] \in got
    BY <1>2, <2>1
  <2>4. QED
    BY <2>2, <2>3
<1>. HIDE DEF got
<1>4. n # -1
  BY NodeFacts
<1>5. ASSUME NEW l \in got
      PROVE  l.kind = "request" /\ (l.src = n => l.dst \in back)
  <2>1. PICK m \in Node : \E i \in 1 .. Len(RequestLines(m, request[m])) : l = RequestLines(m, request[m])[i]
    BY <1>3
  <2>2. PICK i \in 1 .. Len(RequestLines(m, request[m])) : l = RequestLines(m, request[m])[i]
    BY <2>1
  <2>. DEFINE r == RequestLines(m, request[m])
  <2>3. /\ r[i].kind = "request" /\ r[i].dst = m /\ (r[i].src = -1 <=> i = Len(r))
        /\ i # Len(r) => r[i].src \in request[m] \ Later(m)
    BY <1>2, RequestFacts
  <2>. HIDE DEF r
  <2>4. QED
    BY <1>4, <2>2, <2>3 DEF r
<1>6. ASSUME NEW m \in back
      PROVE  \E l \in got : l.src = n /\ l.dst = m
  <2>. DEFINE r == RequestLines(m, request[m])
  <2>1. m \in Node /\ n \in request[m] \ Later(m)
    OBVIOUS
  <2>2. PICK i \in 1 .. Len(r) : r[i].src = n
    BY <1>2, <2>1, RequestFacts
  <2>3. r[i].dst = m
    BY <1>2, <2>1, RequestFacts
  <2>4. r[i] \in got
    BY <1>3, <2>1
  <2>5. QED
    BY <2>2, <2>3, <2>4
<1>7. AllAre("request", got) /\ {l.dst : l \in {g \in got : g.src = n}} = back
  <2>1. AllAre("request", got)
    BY <1>5 DEF AllAre
  <2>2. \A x \in {l.dst : l \in {g \in got : g.src = n}} : x \in back
    <3>. HIDE DEF back
    <3>1. QED
      BY <1>5
  <2>3. \A x \in back : x \in {l.dst : l \in {g \in got : g.src = n}}
    <3>. HIDE DEF back
    <3>1. QED
      BY <1>6
  <2>4. QED
    BY <2>1, <2>2, <2>3
<1>8. /\ setting' = setting /\ peer_hostnames' = peer_hostnames /\ peer_eps' = peer_eps
      /\ request' = request /\ links' = links /\ tables' = tables
      /\ conn_mat' = conn_mat /\ avgdist_map' = avgdist_map /\ rts' = rts
      /\ plan' = [plan EXCEPT ![n] = plan[n] \cup back] /\ Go(n, "ports", <<PortLine(n)>>)
  <2>1. /\ UNCHANGED <<setting, known, request, links, tables>>
        /\ plan' = [plan EXCEPT ![n] = plan[n] \cup {l.dst : l \in {g \in got : g.src = n}}]
        /\ Go(n, "ports", <<PortLine(n)>>)
    BY <1>7 DEF gxp_man_connect_locality_aware, Same, got
  <2>2. QED
    BY <1>7, <2>1 DEF known, tables
<1>9. plan[n] \cup back = {m \in Later(n) : m \in request[n] \/ n \in request[m]}
  <2>1. plan[n] = request[n] \cap Later(n) /\ Later(n) \subseteq Node
    BY <1>0, <1>1 DEF Plannings, Later
  <2>2. \A m \in Node : request[m] \subseteq Node \ {m}
    BY <1>0 DEF Plannings
  <2>3. \A m \in Node : m \in back <=> (m \in Later(n) /\ n \in request[m])
    <3>1. SUFFICES ASSUME NEW m \in Node, n \in request[m]
                   PROVE  ~ (n \in Later(m)) <=> m \in Later(n)
      OBVIOUS
    <3>2. m # n /\ m \in Nat /\ n \in Nat
      BY <2>2, <3>1, NodeFacts
    <3>3. QED
      BY <3>2 DEF Later
  <2>4. back \subseteq Node
    OBVIOUS
  <2>. HIDE DEF back
  <2>5. QED
    BY <2>1, <2>3, <2>4
<1>. HIDE DEF back
<1>10. /\ plan' \in [Node -> SUBSET Node] /\ \A m \in Node : plan'[m] \subseteq May(m)
       /\ \A m \in Node : m # n => plan'[m] = plan[m]
       /\ plan'[n] = {m \in Later(n) : m \in request[n] \/ n \in request[m]}
  <2>1. May(n) = Later(n) /\ Later(n) \subseteq Node
    BY <1>1 DEF May, Later
  <2>2. \A m \in Node : plan[m] \subseteq May(m)
    BY <1>0 DEF Plannings
  <2>3. plan \in [Node -> SUBSET Node]
    BY <1>0 DEF DataTypes
  <2>. DEFINE p == {m \in Later(n) : m \in request[n] \/ n \in request[m]}
  <2>4. p \subseteq Later(n) /\ plan' = [plan EXCEPT ![n] = p]
    BY <1>8, <1>9
  <2>. HIDE DEF p
  <2>5. /\ plan' \in [Node -> SUBSET Node] /\ \A m \in Node : plan'[m] \subseteq May(m)
        /\ \A m \in Node : m # n => plan'[m] = plan[m]
        /\ plan'[n] = p
    BY <2>1, <2>2, <2>3, <2>4
  <2>6. QED
    BY <2>5 DEF p
<1>11. DataTypes'
  BY <1>0, <1>8, <1>10 DEF DataTypes
<1>12. \A m \in Node : /\ At(m) < 3 \/ request'[m] = request[m]
                       /\ At(m) < 6 \/ plan'[m] = plan[m]
                       /\ At(m) < 9 \/ conn_mat'[m] = conn_mat[m]
  BY <1>1, <1>8, <1>10
<1>13. Talk' /\ \A m \in Node : At(m)' = IF m = n THEN 4 ELSE At(m)
  <2>1. 4 = Stage("ports") /\ "ports" \in Ops \ {"lost"} /\ 4 > 3 /\ "ports" \notin {"sync0", "request", "avgdist"}
    BY StageFacts DEF Ops
  <2>2. \A s \in Speaking : ~ (3 < s /\ s < 4)
    BY SpeakingFacts
  <2>. DEFINE lines == <<PortLine(n)>>
  <2>3. lines \in Seq(LineType) /\ lines = (IF 4 \in Speaking THEN Lines(n, 4)' ELSE <<>>)
    BY <1>1, OneLine DEF Lines
  <2>5. Go(n, "ports", lines)
    BY <1>8
  <2>. HIDE DEF lines
  <2>6. QED
    BY <1>0, <1>1, <1>8, <1>11, <1>12, <2>1, <2>2, <2>3, <2>5, ReadOn
<1>14. Plannings'
  <2>0. \A m \in Node : May(m)' = May(m)
    BY <1>8 DEF May
  <2>1. links' = {c \in Node \X Node : At(c[1])' >= 6 /\ c[2] \in plan'[c[1]]}
    <3>1. \A m \in Node : \A k : (At(m)' >= 6 /\ k \in plan'[m]) <=> (At(m) >= 6 /\ k \in plan[m])
      BY <1>1, <1>10, <1>13
    <3>2. \A c \in Node \X Node : (At(c[1])' >= 6 /\ c[2] \in plan'[c[1]])
                                  <=> (At(c[1]) >= 6 /\ c[2] \in plan[c[1]])
      BY <3>1
    <3>3. QED
      BY <1>0, <1>8, <3>2 DEF Plannings
  <2>2. ASSUME NEW m \in Node
        PROVE  /\ At(m)' >= 2 => peer_hostnames'[m] = Node
               /\ At(m)' >= 5 => peer_eps'[m] = Node
               /\ plan'[m] \subseteq May(m)' /\ request'[m] \subseteq Node \ {m}
               /\ At(m)' = 3 => plan'[m] = request'[m] \cap Later(m)
               /\ At(m)' \in {4, 5} => plan'[m] = {k \in Later(m) : k \in request'[m] \/ m \in request'[k]}
    <3>1. {k \in Later(m) : k \in request'[m] \/ m \in request'[k]}
          = {k \in Later(m) : k \in request[m] \/ m \in request[k]}
      BY <1>8
    <3>2. CASE m = n
      <4>1. At(m)' = 4
        BY <1>13, <3>2
      <4>2. peer_hostnames[n] = Node
        BY <1>0, <1>1 DEF Plannings
      <4>3. ~ (At(m)' >= 5) /\ ~ (At(m)' = 3)
        BY <4>1
      <4>4. QED
        BY <1>0, <1>8, <1>10, <2>0, <3>1, <3>2, <4>2, <4>3 DEF Plannings
    <3>3. CASE m # n
      <4>1. At(m)' = At(m) /\ plan'[m] = plan[m]
        BY <1>10, <1>13, <3>3
      <4>2. QED
        BY <1>0, <1>1, <1>8, <2>0, <3>1, <4>1 DEF Plannings
    <3>4. QED
      BY <3>2, <3>3
  <2>3. QED
    BY <2>1, <2>2 DEF Plannings
<1>15. Results'
  <2>1. 4 \in 1 .. 6 /\ At(n) \in 1 .. 6
    BY <1>1
  <2>2. QED
    BY <1>0, <1>8, <1>13, <2>1, EarlyResults
<1>16. QED
  BY <1>13, <1>14, <1>15 DEF IInv

LEMMA PortsStep ==
  ASSUME IInv, NEW n \in Node, gxp_man_exchange_ports(n)
  PROVE  IInv'
<1>0. /\ Talk /\ Types /\ DataTypes /\ Passed /\ Plannings /\ Results /\ setting \in Settings
      /\ \A m \in Node : At(m) \in 1 .. 12
  BY InvFacts
<1>1. At(n) = 4 /\ 4 \in Speaking /\ OpAt(4) = "ports" /\ Reads(n, "ports")
  BY <1>0, AtFacts, SpeakingFacts DEF gxp_man_exchange_ports, OpAt
<1>. DEFINE got == Taken(n, "ports")
<1>2. /\ \A l \in got : \E m \in Node : l = Lines(m, 4)[1]
      /\ \A m \in Node : Lines(m, 4)[1] \in got
  BY <1>0, <1>1, GotOne
<1>3. \A m \in Node : Lines(m, 4)[1].kind = "ports" /\ Lines(m, 4)[1].src = m
  BY <1>0, OneLineFacts
<1>4. AllAre("ports", got)
  BY <1>2, <1>3 DEF AllAre
<1>5. {l.src : l \in got} = Node
  BY <1>2, <1>3
<1>6. /\ setting' = setting /\ peer_hostnames' = peer_hostnames /\ request' = request /\ plan' = plan
      /\ links' = links /\ tables' = tables
      /\ conn_mat' = conn_mat /\ avgdist_map' = avgdist_map /\ rts' = rts
      /\ peer_eps' = [peer_eps EXCEPT ![n] = Node] /\ Go(n, "connect", <<>>)
  BY <1>4, <1>5 DEF gxp_man_exchange_ports, tables, Same
<1>. HIDE DEF got
<1>7. DataTypes'
  <2>1. peer_eps' \in [Node -> SUBSET Node]
    BY <1>0, <1>6 DEF DataTypes
  <2>2. QED
    BY <1>0, <1>6, <2>1 DEF DataTypes
<1>8. \A m \in Node : /\ At(m) < 3 \/ request'[m] = request[m]
                      /\ At(m) < 6 \/ plan'[m] = plan[m]
                      /\ At(m) < 9 \/ conn_mat'[m] = conn_mat[m]
  BY <1>6
<1>9. Talk' /\ \A m \in Node : At(m)' = IF m = n THEN 5 ELSE At(m)
  <2>1. 5 = Stage("connect") /\ "connect" \in Ops \ {"lost"} /\ 5 > 4
        /\ "connect" \notin {"sync0", "request", "avgdist"}
    BY StageFacts DEF Ops
  <2>2. 5 \notin Speaking /\ \A s \in Speaking : ~ (4 < s /\ s < 5)
    BY SpeakingFacts
  <2>. DEFINE lines == <<>>
  <2>3. lines \in Seq(LineType) /\ lines = (IF 5 \in Speaking THEN Lines(n, 5)' ELSE <<>>)
    BY <2>2
  <2>5. Go(n, "connect", lines)
    BY <1>6
  <2>. HIDE DEF lines
  <2>6. QED
    BY <1>0, <1>1, <1>6, <1>7, <1>8, <2>1, <2>2, <2>3, <2>5, ReadOn
<1>10. Plannings'
  <2>0. \A m \in Node : May(m)' = May(m) /\ (peer_eps'[m] = IF m = n THEN Node ELSE peer_eps[m])
    BY <1>0, <1>6 DEF May, DataTypes
  <2>1. links' = {c \in Node \X Node : At(c[1])' >= 6 /\ c[2] \in plan'[c[1]]}
    <3>1. \A m \in Node : At(m)' >= 6 <=> At(m) >= 6
      BY <1>1, <1>9
    <3>2. \A c \in Node \X Node : At(c[1])' >= 6 <=> At(c[1]) >= 6
      BY <3>1
    <3>3. QED
      BY <1>0, <1>6, <3>2 DEF Plannings
  <2>2. ASSUME NEW m \in Node
        PROVE  /\ At(m)' >= 2 => peer_hostnames'[m] = Node
               /\ At(m)' >= 5 => peer_eps'[m] = Node
               /\ plan'[m] \subseteq May(m)' /\ request'[m] \subseteq Node \ {m}
               /\ setting.scheme = "locality" =>
                    /\ At(m)' = 3 => plan'[m] = request'[m] \cap Later(m)
                    /\ At(m)' \in {4, 5} => plan'[m] = {k \in Later(m) : k \in request'[m] \/ m \in request'[k]}
    <3>1. {k \in Later(m) : k \in request'[m] \/ m \in request'[k]}
          = {k \in Later(m) : k \in request[m] \/ m \in request[k]}
      BY <1>6
    <3>2. /\ At(m)' = 3 => At(m) = 3
          /\ At(m)' \in {4, 5} => At(m) \in {4, 5}
          /\ At(m)' >= 2 => At(m) >= 2
          /\ At(m)' >= 5 => m = n \/ At(m) >= 5
      BY <1>1, <1>9
    <3>3. QED
      BY <1>0, <1>6, <2>0, <3>1, <3>2 DEF Plannings
  <2>3. QED
    BY <1>6, <2>1, <2>2 DEF Plannings
<1>11. Results'
  <2>1. 5 \in 1 .. 6 /\ At(n) \in 1 .. 6
    BY <1>1
  <2>2. QED
    BY <1>0, <1>6, <1>9, <2>1, EarlyResults
<1>12. QED
  BY <1>9, <1>10, <1>11 DEF IInv

LEMMA ConnectStep ==
  ASSUME IInv, NEW n \in Node, gxp_man_connect(n)
  PROVE  IInv'
<1>0. /\ Talk /\ Types /\ DataTypes /\ Passed /\ Plannings /\ Results /\ setting \in Settings
      /\ \A m \in Node : At(m) \in 1 .. 12
  BY InvFacts
<1>1. At(n) = 5 /\ 5 \notin Speaking /\ 6 \in Speaking
  BY <1>0, AtFacts, SpeakingFacts DEF gxp_man_connect
<1>2. PICK failed \in SUBSET {m \in plan[n] : <<n, m>> \in setting.broken} :
        /\ plan' = [plan EXCEPT ![n] = plan[n] \ failed]
        /\ links' = links \cup {<<n, m>> : m \in plan[n] \ failed}
        /\ Go(n, "conn_info", ConnLines(n, plan[n] \ failed))
  BY DEF gxp_man_connect, Same, Kept
<1>. DEFINE kept == plan[n] \ failed
<1>3. /\ setting' = setting /\ feed' = feed /\ peer_hostnames' = peer_hostnames /\ peer_eps' = peer_eps
      /\ request' = request /\ tables' = tables
      /\ conn_mat' = conn_mat /\ avgdist_map' = avgdist_map /\ rts' = rts
  BY DEF gxp_man_connect, known, tables
<1>4. /\ plan \in [Node -> SUBSET Node] /\ kept \in SUBSET Node /\ kept \subseteq plan[n]
      /\ plan' = [plan EXCEPT ![n] = kept] /\ links' = links \cup {<<n, m>> : m \in kept}
      /\ Go(n, "conn_info", ConnLines(n, kept))
  BY <1>0, <1>2 DEF DataTypes
<1>. HIDE DEF kept
<1>5. \A m \in Node : plan'[m] = IF m = n THEN kept ELSE plan[m]
  BY <1>4
<1>6. \A m \in Node : At(m) <= 6
  <2>1. SUFFICES ASSUME NEW m \in Node, 6 < At(m)
                 PROVE  FALSE
    BY <1>0
  <2>2. Behind(n, 6)
    BY <1>0, <1>1, <2>1 DEF Passed
  <2>3. QED
    BY <1>1, <2>2 DEF Behind
<1>7. DataTypes'
  <2>1. plan' \in [Node -> SUBSET Node]
    BY <1>4
  <2>2. links' \subseteq Node \X Node
    <3>1. links \subseteq Node \X Node
      BY <1>0 DEF DataTypes
    <3>2. \A m \in kept : <<n, m>> \in Node \X Node
      BY <1>4
    <3>3. QED
      BY <1>4, <3>1, <3>2
  <2>3. QED
    BY <1>0, <1>3, <2>1, <2>2 DEF DataTypes
<1>8. \A m \in Node : /\ At(m) < 3 \/ request'[m] = request[m]
                      /\ At(m) < 6 \/ plan'[m] = plan[m]
                      /\ At(m) < 9 \/ conn_mat'[m] = conn_mat[m]
  BY <1>1, <1>3, <1>5
<1>9. Talk' /\ \A m \in Node : At(m)' = IF m = n THEN 6 ELSE At(m)
  <2>1. 6 = Stage("conn_info") /\ "conn_info" \in Ops \ {"lost"} /\ 6 > 5
        /\ "conn_info" \notin {"sync0", "request", "avgdist"}
    BY StageFacts DEF Ops
  <2>2. \A s \in Speaking : ~ (5 < s /\ s < 6)
    BY SpeakingFacts
  <2>. DEFINE lines == ConnLines(n, kept)
  <2>3. lines \in Seq(LineType)
    BY <1>4, ConnFacts
  <2>4. lines = (IF 6 \in Speaking THEN Lines(n, 6)' ELSE <<>>)
    BY <1>1, <1>5 DEF Lines
  <2>5. Go(n, "conn_info", lines)
    BY <1>4
  <2>. HIDE DEF lines
  <2>6. QED
    BY <1>0, <1>1, <1>3, <1>7, <1>8, <2>1, <2>2, <2>3, <2>4, <2>5, GoOn
<1>10. Plannings'
  <2>0. \A m \in Node : May(m)' = May(m)
    BY <1>3 DEF May
  <2>1. links' = {c \in Node \X Node : At(c[1])' >= 6 /\ c[2] \in plan'[c[1]]}
    <3>1. links = {c \in Node \X Node : At(c[1]) >= 6 /\ c[2] \in plan[c[1]]}
      BY <1>0 DEF Plannings
    <3>2. ASSUME NEW a \in Node, NEW b \in Node
          PROVE  <<a, b>> \in links' <=> (At(a)' >= 6 /\ b \in plan'[a])
      <4>1. <<a, b>> \in links <=> (At(a) >= 6 /\ b \in plan[a])
        BY <3>1
      <4>2. <<a, b>> \in {<<n, m>> : m \in kept} <=> (a = n /\ b \in kept)
        OBVIOUS
      <4>3. CASE a = n
        <5>1. At(a)' = 6 /\ plan'[a] = kept /\ ~ (At(a) >= 6)
          BY <1>1, <1>5, <1>9, <4>3
        <5>2. QED
          BY <1>4, <4>1, <4>2, <4>3, <5>1
      <4>4. CASE a # n
        <5>1. At(a)' = At(a) /\ plan'[a] = plan[a]
          BY <1>5, <1>9, <4>4
        <5>2. QED
          BY <1>4, <4>1, <4>2, <4>4, <5>1
      <4>5. QED
        BY <4>3, <4>4
    <3>3. links' \subseteq Node \X Node
      BY <1>7 DEF DataTypes
    <3>4. \A c \in Node \X Node : c \in links' <=> (At(c[1])' >= 6 /\ c[2] \in plan'[c[1]])
      BY <3>2
    <3>5. QED
      BY <3>3, <3>4
  <2>2. ASSUME NEW m \in Node
        PROVE  /\ At(m)' >= 2 => peer_hostnames'[m] = Node
               /\ At(m)' >= 5 => peer_eps'[m] = Node
               /\ plan'[m] \subseteq May(m)' /\ request'[m] \subseteq Node \ {m}
               /\ setting.scheme = "locality" =>
                    /\ At(m)' = 3 => plan'[m] = request'[m] \cap Later(m)
                    /\ At(m)' \in {4, 5} => plan'[m] = {k \in Later(m) : k \in request'[m] \/ m \in request'[k]}
    <3>1. {k \in Later(m) : k \in request'[m] \/ m \in request'[k]}
          = {k \in Later(m) : k \in request[m] \/ m \in request[k]}
      BY <1>3
    <3>2. /\ At(m)' = 3 => At(m) = 3 /\ m # n
          /\ At(m)' \in {4, 5} => At(m) \in {4, 5} /\ m # n
          /\ At(m)' >= 2 => At(m) >= 2
          /\ At(m)' >= 5 => At(m) >= 5
      BY <1>1, <1>9
    <3>3. plan'[m] \subseteq plan[m] /\ (m # n => plan'[m] = plan[m])
      BY <1>4, <1>5
    <3>4. QED
      BY <1>0, <1>3, <2>0, <3>1, <3>2, <3>3 DEF Plannings
  <2>3. QED
    BY <1>3, <2>1, <2>2 DEF Plannings
<1>11. Results'
  <2>1. 6 \in 1 .. 6 /\ At(n) \in 1 .. 6
    BY <1>1
  <2>2. QED
    BY <1>0, <1>3, <1>6, <1>9, <2>1, EarlyResults
<1>12. QED
  BY <1>9, <1>10, <1>11 DEF IInv

(***************************************************************************)
(* Only n has new results.                                                 *)
(***************************************************************************)
LEMMA LateResults ==
  ASSUME Results, setting' = setting, links' = links, NEW n \in Node, NEW d \in 7 .. 12,
         \A m \in Node : At(m) \in 1 .. 12 /\ At(m)' = IF m = n THEN d ELSE At(m),
         \A m \in Node : m # n => /\ conn_mat'[m] = conn_mat[m] /\ avgdist_map'[m] = avgdist_map[m]
                                  /\ rts'[m] = rts[m],
         conn_mat'[n] = Measured,
         d <= 9 => rts'[n] = NotYet /\ avgdist_map'[n] = Zeros,
         d >= 10 => rts'[n] = <<Measured, Sums>>,
         d = 8 => CutOff(Measured, n), d >= 9 => ~ CutOff(Measured, n)
  PROVE  Results'
<1>1. Measured' = Measured /\ Sums' = Sums
  BY DEF Measured, Sums
<1>2. ASSUME NEW m \in Node
      PROVE  /\ At(m)' >= 7 => conn_mat'[m] = Measured
             /\ At(m)' <= 9 => rts'[m] = NotYet /\ avgdist_map'[m] = Zeros
             /\ At(m)' >= 10 => rts'[m] = <<Measured, Sums>>
             /\ At(m)' = 8 => CutOff(Measured, m)
             /\ At(m)' >= 9 => ~ CutOff(Measured, m)
  <2>1. CASE m = n
    BY <2>1
  <2>2. CASE m # n
    <3>1. At(m)' = At(m) /\ conn_mat'[m] = conn_mat[m] /\ avgdist_map'[m] = avgdist_map[m]
          /\ rts'[m] = rts[m]
      BY <2>2
    <3>2. QED
      BY <3>1 DEF Results
  <2>3. QED
    BY <2>1, <2>2
<1>3. QED
  BY <1>1, <1>2 DEF Results, Zeros

LEMMA ConnInfoStep ==
  ASSUME IInv, NEW n \in Node, gxp_man_exchange_conn_info(n)
  PROVE  IInv'
<1>0. /\ Talk /\ Types /\ DataTypes /\ Passed /\ Plannings /\ Results /\ setting \in Settings
      /\ \A m \in Node : At(m) \in 1 .. 12
  BY InvFacts
<1>1. At(n) = 6 /\ 6 \in Speaking /\ OpAt(6) = "conn_info" /\ Reads(n, "conn_info")
  BY <1>0, AtFacts, SpeakingFacts DEF gxp_man_exchange_conn_info, OpAt
<1>. DEFINE got == Taken(n, "conn_info")
            of(c) == {l \in got : <<l.src, l.dst>> = c}
            mat == [c \in Channel |-> ValueIn(of(c), conn_mat[n][c])]
<1>2. \A m \in Node : Lines(m, 6) = ConnLines(m, plan[m]) /\ plan[m] \in SUBSET Node
  BY <1>0, LinesFacts
<1>3. /\ \A l \in got : \E m \in Node : \E i \in 1 .. Len(ConnLines(m, plan[m])) : l = ConnLines(m, plan[m])[i]
      /\ \A m \in Node : \A i \in 1 .. Len(ConnLines(m, plan[m])) : ConnLines(m, plan[m])[i] \in got
      /\ \A m \in Node : Behind(m, 6)
  <2>1. /\ \A l \in got : \E m \in Node : \E i \in 1 .. Len(Lines(m, 6)) : l = Lines(m, 6)[i]
        /\ \A m \in Node : \A i \in 1 .. Len(Lines(m, 6)) : Lines(m, 6)[i] \in got
        /\ \A m \in Node : Behind(m, 6)
    BY <1>0, <1>1, Reading
  <2>. HIDE DEF got
  <2>2. ASSUME NEW l \in got
        PROVE  \E m \in Node : \E i \in 1 .. Len(ConnLines(m, plan[m])) : l = ConnLines(m, plan[m])[i]
    <3>1. PICK m \in Node : \E i \in 1 .. Len(Lines(m, 6)) : l = Lines(m, 6)[i]
      BY <2>1
    <3>2. QED
      BY <1>2, <3>1
  <2>3. ASSUME NEW m \in Node, NEW i \in 1 .. Len(ConnLines(m, plan[m]))
        PROVE  ConnLines(m, plan[m])[i] \in got
    BY <1>2, <2>1
  <2>4. QED
    BY <2>1, <2>2, <2>3
<1>. HIDE DEF got, of
<1>4. \A a, b \in Node : <<a, b>> \in links <=> b \in plan[a]
  <2>1. \A m \in Node : At(m) >= 6
    BY <1>0, <1>3 DEF Behind
  <2>2. QED
    BY <1>0, <2>1 DEF Plannings
<1>5. ASSUME NEW l \in got
      PROVE  /\ l.kind = "conn_info" /\ <<l.src, l.dst>> \in Channel
             /\ l.val = Measured[<<l.src, l.dst>>]
  <2>1. PICK m \in Node : \E i \in 1 .. Len(ConnLines(m, plan[m])) : l = ConnLines(m, plan[m])[i]
    BY <1>3
  <2>2. PICK i \in 1 .. Len(ConnLines(m, plan[m])) : l = ConnLines(m, plan[m])[i]
    BY <2>1
  <2>. DEFINE r == ConnLines(m, plan[m])
  <2>3. /\ r[i].kind = "conn_info" /\ r[i].src = m /\ r[i].dst \in Node \ {m}
        /\ r[i].val = IF r[i].dst \in plan[m] THEN rtt(m, r[i].dst) ELSE GXP_NO_RTT
    BY <1>2, ConnFacts
  <2>. HIDE DEF r
  <2>. DEFINE b == l.dst
  <2>4. l.kind = "conn_info" /\ l.src = m /\ b \in Node \ {m}
        /\ l.val = IF b \in plan[m] THEN rtt(m, b) ELSE GXP_NO_RTT
    BY <2>2, <2>3 DEF r
  <2>. HIDE DEF b
  <2>5. <<m, b>> \in Channel /\ (<<m, b>> \in links <=> b \in plan[m])
    BY <1>4, <2>4 DEF Channel
  <2>6. Measured[<<m, b>>] = IF <<m, b>> \in links THEN rtt(m, b) ELSE GXP_NO_RTT
    BY <2>5 DEF Measured
  <2>7. QED
    BY <2>4, <2>5, <2>6 DEF b
<1>6. ASSUME NEW c \in Channel
      PROVE  ValueIn(of(c), conn_mat[n][c]) = Measured[c]
  <2>1. PICK a \in Node, b \in Node : c = <<a, b>> /\ a # b
    BY DEF Channel
  <2>. DEFINE r == ConnLines(a, plan[a])
  <2>2. PICK i \in 1 .. Len(r) : r[i].dst = b
    <3>1. b \in Node \ {a} /\ plan[a] \in SUBSET Node
      BY <1>2, <2>1
    <3>2. \A k \in Node \ {a} : \E i \in 1 .. Len(r) : r[i].dst = k
      BY <1>2, ConnFacts
    <3>. HIDE DEF r
    <3>3. QED
      BY <3>1, <3>2
  <2>3. r[i].src = a
    BY <1>2, ConnFacts
  <2>4. r[i] \in got
    BY <1>3
  <2>5. of(c) # {}
    BY <2>1, <2>2, <2>3, <2>4 DEF of
  <2>6. \A l \in of(c) : l.val = Measured[c]
    BY <1>5 DEF of
  <2>7. (CHOOSE l \in of(c) : TRUE) \in of(c)
    BY <2>5
  <2>8. QED
    BY <2>5, <2>6, <2>7 DEF ValueIn
<1>7. mat = Measured
  <2>1. Measured = [c \in Channel |-> Measured[c]]
    BY DEF Measured
  <2>2. QED
    BY <1>6, <2>1
<1>8. AllAre("conn_info", got)
  BY <1>5 DEF AllAre
<1>9. /\ setting' = setting /\ known' = known /\ peer_hostnames' = peer_hostnames /\ peer_eps' = peer_eps
      /\ request' = request /\ plan' = plan /\ links' = links
      /\ avgdist_map' = avgdist_map /\ rts' = rts
      /\ conn_mat' = [conn_mat EXCEPT ![n] = Measured] /\ Go(n, "compute", <<>>)
  <2>1. conn_mat' = [conn_mat EXCEPT ![n] = mat] /\ Go(n, "compute", <<>>)
    BY <1>8 DEF gxp_man_exchange_conn_info, Same, got, of
  <2>2. QED
    BY <1>7, <2>1 DEF gxp_man_exchange_conn_info, known
<1>. HIDE DEF mat
<1>10. Measured \in [Channel -> Nat \cup {GXP_NO_RTT}]
  <2>1. \A c \in Channel : c[1] \in Node /\ c[2] \in Node
    BY DEF Channel
  <2>2. \A c \in Channel : rtt(c[1], c[2]) \in Nat
    BY <2>1, RttType
  <2>3. QED
    BY <2>2 DEF Measured
<1>11. /\ conn_mat' \in [Node -> [Channel -> Nat \cup {GXP_NO_RTT}]]
       /\ \A m \in Node : conn_mat'[m] = IF m = n THEN Measured ELSE conn_mat[m]
  BY <1>0, <1>9, <1>10 DEF DataTypes
<1>12. DataTypes'
  BY <1>0, <1>9, <1>11 DEF DataTypes
<1>13. \A m \in Node : /\ At(m) < 3 \/ request'[m] = request[m]
                       /\ At(m) < 6 \/ plan'[m] = plan[m]
                       /\ At(m) < 9 \/ conn_mat'[m] = conn_mat[m]
  BY <1>1, <1>9, <1>11
<1>14. Talk' /\ \A m \in Node : At(m)' = IF m = n THEN 7 ELSE At(m)
  <2>1. 7 = Stage("compute") /\ "compute" \in Ops \ {"lost"} /\ 7 > 6
        /\ "compute" \notin {"sync0", "request", "avgdist"}
    BY StageFacts DEF Ops
  <2>2. 7 \notin Speaking /\ \A s \in Speaking : ~ (6 < s /\ s < 7)
    BY SpeakingFacts
  <2>. DEFINE lines == <<>>
  <2>3. lines \in Seq(LineType) /\ lines = (IF 7 \in Speaking THEN Lines(n, 7)' ELSE <<>>)
    BY <2>2
  <2>5. Go(n, "compute", lines)
    BY <1>9
  <2>. HIDE DEF lines
  <2>6. QED
    BY <1>0, <1>1, <1>9, <1>12, <1>13, <2>1, <2>2, <2>3, <2>5, ReadOn, ZenonT(60)
<1>15. Plannings'
  <2>1. 7 \in 6 .. 12 /\ At(n) \in 6 .. 12
    BY <1>1
  <2>2. QED
    BY <1>0, <1>9, <1>14, <2>1, LatePlannings
<1>16. Results'
  <2>1. 7 \in 7 .. 12 /\ rts'[n] = NotYet /\ avgdist_map'[n] = Zeros
    BY <1>0, <1>1, <1>9 DEF Results
  <2>2. ~ (7 >= 10) /\ 7 # 8 /\ ~ (7 >= 9)
    OBVIOUS
  <2>3. conn_mat'[n] = Measured
    BY <1>11
  <2>4. \A m \in Node : m # n => /\ conn_mat'[m] = conn_mat[m] /\ avgdist_map'[m] = avgdist_map[m]
                                 /\ rts'[m] = rts[m]
    BY <1>9, <1>11
  <2>5. QED
    BY <1>0, <1>9, <1>14, <2>1, <2>2, <2>3, <2>4, LateResults
<1>17. QED
  BY <1>14, <1>15, <1>16 DEF IInv

LEMMA RouterStep ==
  ASSUME IInv, NEW n \in Node, gxp_router_run(n)
  PROVE  IInv'
<1>0. /\ Talk /\ Types /\ DataTypes /\ Passed /\ Plannings /\ Results /\ setting \in Settings
      /\ \A m \in Node : At(m) \in 1 .. 12
  BY InvFacts
<1>1. At(n) = 7 /\ 7 \notin Speaking
  BY <1>0, AtFacts, SpeakingFacts DEF gxp_router_run
<1>2. /\ setting' = setting /\ feed' = feed /\ known' = known
      /\ peer_hostnames' = peer_hostnames /\ peer_eps' = peer_eps
      /\ request' = request /\ plan' = plan /\ links' = links
      /\ conn_mat' = conn_mat /\ avgdist_map' = avgdist_map
  BY DEF gxp_router_run, known
<1>3. conn_mat[n] = Measured /\ rts[n] = NotYet /\ avgdist_map[n] = Zeros
  BY <1>0, <1>1 DEF Results
<1>4. \A m \in Node : /\ At(m) < 3 \/ request'[m] = request[m]
                      /\ At(m) < 6 \/ plan'[m] = plan[m]
                      /\ At(m) < 9 \/ conn_mat'[m] = conn_mat[m]
  BY <1>2
<1>5. ASSUME DOMAIN rts' = Node
      PROVE  DataTypes'
  BY <1>0, <1>2, <1>5 DEF DataTypes
<1>6. ASSUME NEW d \in 7 .. 12, \A m \in Node : At(m)' = IF m = n THEN d ELSE At(m)
      PROVE  Plannings'
  <2>1. d \in 6 .. 12 /\ At(n) \in 6 .. 12
    BY <1>1
  <2>2. QED
    BY <1>0, <1>2, <1>6, <2>1, LatePlannings
<1>7. CASE CutOff(conn_mat[n], n)
  <2>1. Go(n, "exit", <<>>) /\ rts' = rts
    BY <1>7 DEF gxp_router_run
  <2>2. DataTypes'
    BY <1>0, <1>5, <2>1 DEF DataTypes
  <2>3. 8 = Stage("exit") /\ "exit" \in Ops \ {"lost"} /\ 8 > 7
        /\ "exit" \notin {"sync0", "request", "avgdist"}
    BY StageFacts DEF Ops
  <2>4. 8 \notin Speaking /\ \A s \in Speaking : ~ (7 < s /\ s < 8)
    BY SpeakingFacts
  <2>. DEFINE lines == <<>>
  <2>5. lines \in Seq(LineType) /\ lines = (IF 8 \in Speaking THEN Lines(n, 8)' ELSE <<>>)
    BY <2>4
  <2>6. Go(n, "exit", lines)
    BY <2>1
  <2>. HIDE DEF lines
  <2>7. Talk' /\ \A m \in Node : At(m)' = IF m = n THEN 8 ELSE At(m)
    BY <1>0, <1>1, <1>2, <1>4, <2>2, <2>3, <2>4, <2>5, <2>6, GoOn, ZenonT(60)
  <2>8. 8 \in 7 .. 12 /\ rts'[n] = NotYet /\ avgdist_map'[n] = Zeros /\ conn_mat'[n] = Measured
        /\ CutOff(Measured, n) /\ ~ (8 >= 9) /\ ~ (8 >= 10)
    BY <1>2, <1>3, <1>7, <2>1
  <2>9. \A m \in Node : m # n => /\ conn_mat'[m] = conn_mat[m] /\ avgdist_map'[m] = avgdist_map[m]
                                 /\ rts'[m] = rts[m]
    BY <1>2, <2>1
  <2>10. Results'
    BY <1>0, <1>2, <2>7, <2>8, <2>9, LateResults
  <2>11. QED
    BY <1>6, <2>7, <2>8, <2>10 DEF IInv
<1>8. CASE ~ CutOff(conn_mat[n], n) /\ setting.rttype = "ORDERED_BFS"
  <2>. DEFINE lines == <<Line("avgdist", n, Nothing, avgdist(conn_mat[n], n))>>
  <2>1. Go(n, "avgdist", lines) /\ rts' = rts
    BY <1>8 DEF gxp_router_run
  <2>2. DataTypes'
    BY <1>0, <1>5, <2>1 DEF DataTypes
  <2>3. 9 = Stage("avgdist") /\ "avgdist" \in Ops \ {"lost"} /\ 9 > 7
        /\ "avgdist" \notin {"sync0", "request"}
    BY StageFacts DEF Ops
  <2>4. 9 \in Speaking /\ \A s \in Speaking : ~ (7 < s /\ s < 9)
    BY <1>8, SpeakingFacts
  <2>5. lines \in Seq(LineType)
    BY AvgType, OneLine
  <2>6. lines = (IF 9 \in Speaking THEN Lines(n, 9)' ELSE <<>>)
    BY <1>2, <2>4 DEF Lines
  <2>. HIDE DEF lines
  <2>7. Talk' /\ \A m \in Node : At(m)' = IF m = n THEN 9 ELSE At(m)
    BY <1>0, <1>1, <1>2, <1>4, <1>8, <2>1, <2>2, <2>3, <2>4, <2>5, <2>6, GoOn
  <2>8. 9 \in 7 .. 12 /\ rts'[n] = NotYet /\ avgdist_map'[n] = Zeros /\ conn_mat'[n] = Measured
        /\ ~ CutOff(Measured, n) /\ 9 # 8 /\ ~ (9 >= 10)
    BY <1>2, <1>3, <1>8, <2>1
  <2>9. \A m \in Node : m # n => /\ conn_mat'[m] = conn_mat[m] /\ avgdist_map'[m] = avgdist_map[m]
                                 /\ rts'[m] = rts[m]
    BY <1>2, <2>1
  <2>10. Results'
    BY <1>0, <1>2, <2>7, <2>8, <2>9, LateResults
  <2>11. QED
    BY <1>6, <2>7, <2>8, <2>10 DEF IInv
<1>9. CASE ~ CutOff(conn_mat[n], n) /\ setting.rttype # "ORDERED_BFS"
  <2>1. Go(n, "exchange_rt", <<>>) /\ rts' = [rts EXCEPT ![n] = <<conn_mat[n], avgdist_map'[n]>>]
    BY <1>9 DEF gxp_router_run, SendTable, Same
  <2>2. DataTypes'
    BY <1>0, <1>5, <2>1 DEF DataTypes
  <2>3. 10 = Stage("exchange_rt") /\ "exchange_rt" \in Ops \ {"lost"} /\ 10 > 7
        /\ "exchange_rt" \notin {"sync0", "request", "avgdist"}
    BY StageFacts DEF Ops
  <2>4. 10 \notin Speaking /\ \A s \in Speaking : ~ (7 < s /\ s < 10)
    BY <1>9, SpeakingFacts
  <2>. DEFINE lines == <<>>
  <2>5. lines \in Seq(LineType) /\ lines = (IF 10 \in Speaking THEN Lines(n, 10)' ELSE <<>>)
    BY <2>4
  <2>6. Go(n, "exchange_rt", lines)
    BY <2>1
  <2>. HIDE DEF lines
  <2>7. Talk' /\ \A m \in Node : At(m)' = IF m = n THEN 10 ELSE At(m)
    BY <1>0, <1>1, <1>2, <1>4, <2>2, <2>3, <2>4, <2>5, <2>6, GoOn, ZenonT(60)
  <2>8. Sums = Zeros
    BY <1>9 DEF Sums, Zeros
  <2>9. 10 \in 7 .. 12 /\ rts'[n] = <<Measured, Sums>> /\ conn_mat'[n] = Measured
        /\ ~ CutOff(Measured, n) /\ ~ (10 <= 9) /\ 10 # 8
    BY <1>0, <1>2, <1>3, <1>9, <2>1, <2>8 DEF DataTypes
  <2>10. \A m \in Node : m # n => /\ conn_mat'[m] = conn_mat[m] /\ avgdist_map'[m] = avgdist_map[m]
                                  /\ rts'[m] = rts[m]
    BY <1>2, <2>1
  <2>11. Results'
    BY <1>0, <1>2, <2>7, <2>9, <2>10, LateResults
  <2>12. QED
    BY <1>6, <2>7, <2>9, <2>11 DEF IInv
<1>10. QED
  BY <1>7, <1>8, <1>9

LEMMA AvgStep ==
  ASSUME IInv, NEW n \in Node, exchange_avgdist(n)
  PROVE  IInv'
<1>0. /\ Talk /\ Types /\ DataTypes /\ Passed /\ Plannings /\ Results /\ setting \in Settings
      /\ \A m \in Node : At(m) \in 1 .. 12
  BY InvFacts
<1>1. At(n) = 9 /\ setting.rttype = "ORDERED_BFS" /\ 9 \in Speaking /\ OpAt(9) = "avgdist" /\ Reads(n, "avgdist")
  <2>1. pc[n] = "avgdist" /\ Reads(n, "avgdist")
    BY DEF exchange_avgdist
  <2>2. setting.rttype = "ORDERED_BFS"
    BY <1>0, <2>1 DEF Types
  <2>3. QED
    BY <1>0, <2>1, <2>2, AtFacts, SpeakingFacts DEF OpAt
<1>. DEFINE got == Taken(n, "avgdist")
            of(m) == {l \in got : l.src = m}
<1>2. /\ \A l \in got : \E m \in Node : l = Lines(m, 9)[1]
      /\ \A m \in Node : Lines(m, 9)[1] \in got
      /\ \A m \in Node : Behind(m, 9)
  <2>1. \A m \in Node : Behind(m, 9)
    BY <1>0, <1>1, Reading
  <2>2. /\ \A l \in got : \E m \in Node : l = Lines(m, 9)[1]
        /\ \A m \in Node : Lines(m, 9)[1] \in got
    BY <1>0, <1>1, GotOne
  <2>3. QED
    BY <2>1, <2>2
<1>3. \A m \in Node : conn_mat[m] = Measured
  <2>1. \A m \in Node : At(m) >= 7
    BY <1>0, <1>2 DEF Behind
  <2>2. QED
    BY <1>0, <2>1 DEF Results
<1>4. \A m \in Node : Lines(m, 9)[1].kind = "avgdist" /\ Lines(m, 9)[1].src = m
                      /\ Lines(m, 9)[1].val = avgdist(Measured, m)
  BY <1>0, <1>3, OneLineFacts
<1>5. AllAre("avgdist", got)
  BY <1>2, <1>4 DEF AllAre
<1>6. Averages(n, got) = Sums
  <2>1. ASSUME NEW m \in Node
        PROVE  ValueIn(of(m), avgdist_map[n][m]) = avgdist(Measured, m)
    <3>. HIDE DEF got
    <3>1. Lines(m, 9)[1] \in of(m)
      BY <1>2, <1>4
    <3>2. \A l \in of(m) : l.val = avgdist(Measured, m)
      BY <1>2, <1>4
    <3>. HIDE DEF of
    <3>3. (CHOOSE l \in of(m) : TRUE) \in of(m)
      BY <3>1
    <3>4. QED
      BY <3>1, <3>2, <3>3 DEF ValueIn
  <2>2. Averages(n, got) = [m \in Node |-> ValueIn(of(m), avgdist_map[n][m])]
    BY DEF Averages
  <2>3. Sums = [m \in Node |-> avgdist(Measured, m)]
    BY <1>1 DEF Sums
  <2>. HIDE DEF of
  <2>4. QED
    BY <2>1, <2>2, <2>3
<1>7. /\ setting' = setting /\ known' = known /\ peer_hostnames' = peer_hostnames /\ peer_eps' = peer_eps
      /\ request' = request /\ plan' = plan /\ links' = links /\ conn_mat' = conn_mat
      /\ avgdist_map' = [avgdist_map EXCEPT ![n] = Sums]
      /\ rts' = [rts EXCEPT ![n] = <<conn_mat[n], avgdist_map'[n]>>]
      /\ Go(n, "exchange_rt", <<>>)
  BY <1>5, <1>6 DEF exchange_avgdist, SendTable, Same, known
<1>. HIDE DEF got, of
<1>8. Sums \in [Node -> Nat]
  BY AvgType DEF Sums
<1>9. /\ avgdist_map' \in [Node -> [Node -> Nat]] /\ DOMAIN rts' = Node
      /\ \A m \in Node : /\ avgdist_map'[m] = IF m = n THEN Sums ELSE avgdist_map[m]
                         /\ rts'[m] = IF m = n THEN <<Measured, Sums>> ELSE rts[m]
  <2>1. /\ avgdist_map' \in [Node -> [Node -> Nat]]
        /\ \A m \in Node : avgdist_map'[m] = IF m = n THEN Sums ELSE avgdist_map[m]
    BY <1>0, <1>7, <1>8 DEF DataTypes
  <2>2. DOMAIN rts' = Node /\ \A m \in Node : rts'[m] = IF m = n THEN <<Measured, Sums>> ELSE rts[m]
    BY <1>0, <1>3, <1>7, <2>1 DEF DataTypes
  <2>3. QED
    BY <2>1, <2>2
<1>10. DataTypes'
  BY <1>0, <1>7, <1>9 DEF DataTypes
<1>11. \A m \in Node : /\ At(m) < 3 \/ request'[m] = request[m]
                       /\ At(m) < 6 \/ plan'[m] = plan[m]
                       /\ At(m) < 9 \/ conn_mat'[m] = conn_mat[m]
  BY <1>7
<1>12. Talk' /\ \A m \in Node : At(m)' = IF m = n THEN 10 ELSE At(m)
  <2>1. 10 = Stage("exchange_rt") /\ "exchange_rt" \in Ops \ {"lost"} /\ 10 > 9
        /\ "exchange_rt" \notin {"sync0", "request", "avgdist"}
    BY StageFacts DEF Ops
  <2>2. 10 \notin Speaking /\ \A s \in Speaking : ~ (9 < s /\ s < 10)
    BY SpeakingFacts
  <2>. DEFINE lines == <<>>
  <2>3. lines \in Seq(LineType) /\ lines = (IF 10 \in Speaking THEN Lines(n, 10)' ELSE <<>>)
    BY <2>2
  <2>4. Go(n, "exchange_rt", lines)
    BY <1>7
  <2>. HIDE DEF lines
  <2>5. QED
    BY <1>0, <1>1, <1>7, <1>10, <1>11, <2>1, <2>2, <2>3, <2>4, ReadOn
<1>13. Plannings'
  <2>1. 10 \in 6 .. 12 /\ At(n) \in 6 .. 12
    BY <1>1
  <2>2. QED
    BY <1>0, <1>7, <1>12, <2>1, LatePlannings
<1>14. Results'
  <2>1. 10 \in 7 .. 12 /\ ~ (10 <= 9) /\ 10 # 8 /\ rts'[n] = <<Measured, Sums>> /\ conn_mat'[n] = Measured
    BY <1>3, <1>7, <1>9
  <2>2. ~ CutOff(Measured, n)
    BY <1>0, <1>1 DEF Results
  <2>3. \A m \in Node : m # n => /\ conn_mat'[m] = conn_mat[m] /\ avgdist_map'[m] = avgdist_map[m]
                                 /\ rts'[m] = rts[m]
    BY <1>7, <1>9
  <2>4. QED
    BY <1>0, <1>7, <1>12, <2>1, <2>2, <2>3, LateResults
<1>15. QED
  BY <1>12, <1>13, <1>14 DEF IInv

(***************************************************************************)
(* A barrier: nothing but the place of n changes.                          *)
(***************************************************************************)
LEMMA BarrierData ==
  ASSUME IInv, NEW n \in Node, NEW d \in {11, 12}, At(n) \in {10, 11},
         setting' = setting, known' = known, request' = request, plan' = plan, links' = links,
         tables' = tables, Talk', \A m \in Node : At(m)' = IF m = n THEN d ELSE At(m)
  PROVE  IInv'
<1>0. /\ Plannings /\ Results /\ \A m \in Node : At(m) \in 1 .. 12
  BY InvFacts
<1>1. conn_mat' = conn_mat /\ avgdist_map' = avgdist_map /\ rts' = rts
  BY DEF tables
<1>2. d \in 7 .. 12 /\ d \in 6 .. 12 /\ At(n) \in 6 .. 12 /\ ~ (d <= 9) /\ d # 8
      /\ At(n) >= 10 /\ At(n) >= 9 /\ At(n) >= 7
  OBVIOUS
<1>3. conn_mat'[n] = Measured /\ rts'[n] = <<Measured, Sums>> /\ ~ CutOff(Measured, n)
  BY <1>0, <1>1, <1>2 DEF Results
<1>4. Plannings'
  BY <1>0, <1>2, LatePlannings
<1>5. \A m \in Node : m # n => /\ conn_mat'[m] = conn_mat[m] /\ avgdist_map'[m] = avgdist_map[m]
                               /\ rts'[m] = rts[m]
  BY <1>1
<1>6. Results'
  BY <1>0, <1>2, <1>3, <1>5, LateResults
<1>7. QED
  BY <1>4, <1>6 DEF IInv

LEMMA ComputeStep ==
  ASSUME IInv, NEW n \in Node, gxp_man_compute_rt(n)
  PROVE  IInv'
<1>0. Talk /\ Types /\ DataTypes
  BY InvFacts
<1>1. At(n) = 10 /\ 10 \notin Speaking /\ 11 \in Speaking
  BY <1>0, AtFacts, SpeakingFacts DEF gxp_man_compute_rt
<1>2. /\ setting' = setting /\ feed' = feed /\ known' = known /\ request' = request /\ plan' = plan
      /\ links' = links /\ tables' = tables /\ conn_mat' = conn_mat
  BY DEF gxp_man_compute_rt, tables
<1>3. DataTypes'
  BY <1>0, <1>2 DEF DataTypes, known, tables
<1>4. 11 = Stage("sync") /\ "sync" \in Ops \ {"lost"} /\ 11 > 10
      /\ "sync" \notin {"sync0", "request", "avgdist"}
  BY StageFacts DEF Ops
<1>5. \A s \in Speaking : ~ (10 < s /\ s < 11)
  BY SpeakingFacts
<1>. DEFINE lines == <<SyncLine>>
<1>6. lines \in Seq(LineType) /\ lines = (IF 11 \in Speaking THEN Lines(n, 11)' ELSE <<>>)
  BY <1>1, OneLine DEF Lines
<1>7. Go(n, "sync", lines)
  BY DEF gxp_man_compute_rt
<1>8. \A m \in Node : /\ At(m) < 3 \/ request'[m] = request[m]
                      /\ At(m) < 6 \/ plan'[m] = plan[m]
                      /\ At(m) < 9 \/ conn_mat'[m] = conn_mat[m]
  BY <1>2
<1>. HIDE DEF lines
<1>9. Talk' /\ \A m \in Node : At(m)' = IF m = n THEN 11 ELSE At(m)
  BY <1>0, <1>1, <1>2, <1>3, <1>4, <1>5, <1>6, <1>7, <1>8, GoOn
<1>10. QED
  BY <1>1, <1>2, <1>9, BarrierData

LEMMA SyncStep ==
  ASSUME IInv, NEW n \in Node, gxp_man_sync(n)
  PROVE  IInv'
<1>0. Talk /\ Types /\ DataTypes
  BY InvFacts
<1>1. At(n) = 11 /\ 11 \in Speaking /\ OpAt(11) = "sync" /\ Reads(n, "sync")
  BY <1>0, AtFacts, SpeakingFacts DEF gxp_man_sync, OpAt
<1>2. AllAre("sync", Taken(n, "sync"))
  <2>1. \A l \in Taken(n, "sync") : \E m \in Node : l = Lines(m, 11)[1]
    BY <1>0, <1>1, GotOne
  <2>2. \A m \in Node : Lines(m, 11)[1].kind = "sync"
    BY <1>0, OneLineFacts
  <2>3. QED
    BY <2>1, <2>2 DEF AllAre
<1>3. /\ setting' = setting /\ known' = known /\ request' = request /\ plan' = plan
      /\ links' = links /\ tables' = tables /\ conn_mat' = conn_mat /\ Go(n, "done", <<>>)
  BY <1>2 DEF gxp_man_sync, tables
<1>4. DataTypes'
  BY <1>0, <1>3 DEF DataTypes, known, tables
<1>5. 12 = Stage("done") /\ "done" \in Ops \ {"lost"} /\ 12 > 11
      /\ "done" \notin {"sync0", "request", "avgdist"}
  BY StageFacts DEF Ops
<1>6. 12 \notin Speaking /\ \A s \in Speaking : ~ (11 < s /\ s < 12)
  BY SpeakingFacts
<1>. DEFINE lines == <<>>
<1>7. lines \in Seq(LineType) /\ lines = (IF 12 \in Speaking THEN Lines(n, 12)' ELSE <<>>)
  BY <1>6
<1>8. Go(n, "done", lines)
  BY <1>3
<1>9. \A m \in Node : /\ At(m) < 3 \/ request'[m] = request[m]
                      /\ At(m) < 6 \/ plan'[m] = plan[m]
                      /\ At(m) < 9 \/ conn_mat'[m] = conn_mat[m]
  BY <1>3
<1>. HIDE DEF lines
<1>10. Talk' /\ \A m \in Node : At(m)' = IF m = n THEN 12 ELSE At(m)
  BY <1>0, <1>1, <1>3, <1>4, <1>5, <1>6, <1>7, <1>8, <1>9, ReadOn, ZenonT(60)
<1>11. QED
  BY <1>1, <1>3, <1>10, BarrierData

LEMMA WriteStep ==
  ASSUME IInv, NEW n \in Node, fprintf(n)
  PROVE  IInv'
<1>0. Talk /\ Plannings /\ Results
  BY DEF IInv
<1>1. Talk' /\ \A m \in Node : At(m)' = At(m)
  BY <1>0, Writing
<1>2. /\ setting' = setting /\ peer_hostnames' = peer_hostnames /\ peer_eps' = peer_eps
      /\ request' = request /\ plan' = plan /\ links' = links
      /\ conn_mat' = conn_mat /\ avgdist_map' = avgdist_map /\ rts' = rts
  BY DEF fprintf, known, tables
<1>3. Plannings'
  <2>1. \A m \in Node : May(m)' = May(m)
    BY <1>2 DEF May
  <2>2. \A c \in Node \X Node : At(c[1])' = At(c[1])
    BY <1>1
  <2>3. QED
    BY <1>0, <1>1, <1>2, <2>1, <2>2 DEF Plannings
<1>4. Results'
  <2>1. Measured' = Measured /\ Sums' = Sums
    BY <1>2 DEF Measured, Sums
  <2>2. QED
    BY <1>0, <1>1, <1>2, <2>1 DEF Results, Zeros
<1>5. QED
  BY <1>1, <1>3, <1>4 DEF IInv

-----------------------------------------------------------------------------
(***************************************************************************)
(* At first every node has its first line to write.                        *)
(***************************************************************************)
LEMMA InitInv ==
  ASSUME Init
  PROVE  IInv
<1>1. \A n \in Node : At(n) = 1
  BY StageFacts DEF Init, At
<1>2. Types
  <2>1. \A n \in Node : <<Line("init", n, Nothing, Nothing)>> \in Seq(LineType)
    <3> TAKE n \in Node
    <3>1. n \in Int /\ Nothing \in Int
      BY NodeFacts DEF Nothing
    <3>2. Line("init", n, Nothing, Nothing) \in LineType
      BY <3>1, LineFacts
    <3> QED BY <3>2
  <2>2. out \in [Node -> Seq(LineType)]
    BY <2>1 DEF Init
  <2>3. feed \in [Node -> Seq(LineType)]
    BY DEF Init
  <2>4. setting \in Settings /\ pc \in [Node -> Ops \ {"lost"}]
    BY DEF Init, Ops
  <2>5. DataTypes
    BY DEF Init, DataTypes, GXP_NO_RTT
  <2> QED BY <2>2, <2>3, <2>4, <2>5 DEF Types, Init
<1>3. \A n \in Node : Text[<<n, At(n)>>] = out[n] /\ Len(out[n]) = 1
  <2> TAKE n \in Node
  <2>1. 1 \in Speaking /\ 1 \in Stages
    BY SpeakingFacts DEF Stages
  <2>2. Text[<<n, 1>>] = Lines(n, 1)
    BY <1>2, <2>1, TextFacts
  <2>3. Lines(n, 1) = out[n]
    BY DEF Lines, Init
  <2>4. Len(out[n]) = 1
    BY DEF Init
  <2> QED BY <1>1, <2>2, <2>3, <2>4
<1>4. Outs
  <2> SUFFICES ASSUME NEW n \in Node
               PROVE  LET all == Text[<<n, At(n)>>] IN
                      Len(out[n]) <= Len(all) /\ out[n] = SubSeq(all, Len(all) - Len(out[n]) + 1, Len(all))
    BY DEF Outs
  <2> DEFINE o == out[n]
  <2>1. o \in Seq(LineType) /\ Len(o) = 1 /\ Text[<<n, At(n)>>] = o
    BY <1>2, <1>3 DEF Types
  <2> HIDE DEF o
  <2>2. o = SubSeq(o, 1, Len(o))
    BY <2>1
  <2>3. Len(o) - Len(o) + 1 = 1 /\ Len(o) <= Len(o)
    BY <2>1
  <2> QED BY <2>1, <2>2, <2>3 DEF o
<1>5. Passed
  BY <1>1, SpeakingFacts DEF Passed, Stages
<1>6. Feeds
  <2>1. \A x \in Node \X Stages : Posted[x] = 0
    <3> SUFFICES ASSUME NEW m \in Node, NEW s \in Stages PROVE Posted[<<m, s>>] = 0
      OBVIOUS
    <3>1. CASE s = 1
      <4>1. s = At(m) => Posted[<<m, s>>] = Len(Text[<<m, s>>]) - Len(out[m])
        BY <1>2, <1>4, PostedFacts
      <4>2. s = At(m) /\ Text[<<m, s>>] = out[m] /\ Len(out[m]) = 1
        BY <1>1, <1>3, <3>1
      <4> QED BY <4>1, <4>2
    <3>2. CASE s > 1
      BY <1>1, <1>2, <1>4, <3>2, PostedFacts
    <3> QED BY <3>1, <3>2 DEF Stages
  <2>2. \A n \in Node : feed[n] = <<>>
    BY DEF Init
  <2>3. \A t \in Ticket : ~ Written(t, Posted)
    <3> SUFFICES ASSUME NEW t \in Ticket PROVE ~ Written(t, Posted)
      OBVIOUS
    <3>1. <<t[1], t[2]>> \in Node \X Stages
      BY DEF Ticket
    <3> QED BY <2>1, <3>1 DEF Written
  <2>4. Holds(<<>>, <<>>, 1, Text, Posted)
    BY <2>3 DEF Holds
  <2>5. <<>> \in [DOMAIN <<>> -> Ticket] /\ <<>> \in Seq(LineType)
    OBVIOUS
  <2>6. FeedOK(<<>>, 1, Text, Posted)
    BY <2>4, <2>5 DEF FeedOK
  <2> QED BY <1>1, <2>2, <2>6 DEF Feeds
<1>7. Plannings
  <2>1. links = {c \in Node \X Node : At(c[1]) >= 6 /\ c[2] \in plan[c[1]]}
    BY <1>1 DEF Init
  <2>2. \A n \in Node : plan[n] = {} /\ request[n] = {}
    BY DEF Init
  <2> QED BY <1>1, <2>1, <2>2 DEF Plannings
<1>8. Results
  BY <1>1 DEF Results, Init, Zeros
<1> QED BY <1>2, <1>4, <1>5, <1>6, <1>7, <1>8 DEF IInv, Talk

(***************************************************************************)
(* Every step keeps it.                                                    *)
(***************************************************************************)
LEMMA NextInv ==
  ASSUME IInv, [Next]_vars
  PROVE  IInv'
<1>1. CASE UNCHANGED vars
  <2>1. /\ setting' = setting /\ pc' = pc /\ out' = out /\ feed' = feed /\ peer_hostnames' = peer_hostnames
        /\ peer_eps' = peer_eps /\ request' = request /\ plan' = plan /\ links' = links
        /\ conn_mat' = conn_mat /\ avgdist_map' = avgdist_map /\ rts' = rts
    BY <1>1 DEF vars, known, tables
  <2>2. /\ \A m \in Node : At(m)' = At(m) /\ May(m)' = May(m)
        /\ Speaking' = Speaking /\ Measured' = Measured /\ Sums' = Sums
    BY <2>1 DEF At, May, Speaking, Measured, Sums
  <2>3. Types' = Types
    BY <2>1 DEF Types, DataTypes
  <2>4. Text' = Text
    BY <2>1, <2>2 DEF Text, Lines
  <2>5. Posted' = Posted
    BY <2>1, <2>2, <2>4 DEF Posted
  <2>6. Outs'
    BY <2>1, <2>2, <2>4 DEF Outs, IInv, Talk
  <2>7. Passed'
    BY <2>1, <2>2 DEF Passed, Behind, IInv, Talk
  <2>8. Feeds'
    BY <2>1, <2>2, <2>4, <2>5 DEF Feeds, IInv, Talk
  <2>9. Plannings' = Plannings
    BY <2>1, <2>2 DEF Plannings, At
  <2>10. Results'
    BY <2>1, <2>2 DEF Results, Zeros, IInv
  <2> QED BY <2>3, <2>6, <2>7, <2>8, <2>9, <2>10 DEF IInv, Talk
<1>2. CASE Next
  <2>1. PICK n \in Node : Step(n)
    BY <1>2 DEF Next
  <2> QED BY <2>1, WriteStep, InitStep, RequestStep, LocalityStep, PortsStep, ConnectStep, ConnInfoStep,
             RouterStep, AvgStep, ComputeStep, SyncStep DEF Step
<1> QED BY <1>1, <1>2

(***************************************************************************)
(* Lines, plans and results are as the invariant says in every state.      *)
(***************************************************************************)
THEOREM Invariance == Spec => []IInv
<1>1. Init => IInv
  BY InitInv
<1>2. IInv /\ [Next]_vars => IInv'
  BY NextInv
<1> QED BY <1>1, <1>2, PTL DEF Spec
-----------------------------------------------------------------------------
(***************************************************************************)
(* Recursive functions: f[y] is a[y] at a base point y, and else comes     *)
(* from y and f[p[y]], where p[y] has a smaller rank.  There is such a     *)
(* function, and only one.                                                 *)
(***************************************************************************)
Descends(P, B, r, p) == r \in [P -> Nat] /\ \A y \in P \ B : p[y] \in P /\ r[p[y]] < r[y]

Recurs(f, P, B, p, a, g) == \A y \in P : f[y] = IF y \in B THEN a[y] ELSE g[<<f[p[y]], y>>]

RecursBelow(k, f, P, B, r, p, a, g) ==
  \A y \in P : r[y] < k => f[y] = IF y \in B THEN a[y] ELSE g[<<f[p[y]], y>>]

LEMMA RecursionUnique ==
  ASSUME NEW P, NEW B, NEW r, NEW p, NEW a, NEW g, NEW k \in Nat, NEW f, NEW h,
         Descends(P, B, r, p), RecursBelow(k, f, P, B, r, p, a, g),
         RecursBelow(k, h, P, B, r, p, a, g)
  PROVE  \A y \in P : r[y] < k => f[y] = h[y]
<1>. DEFINE Bad == {r[y] : y \in {z \in P : r[z] < k /\ f[z] # h[z]}}
<1>. USE DEF Descends, RecursBelow
<1>1. SUFFICES ASSUME Bad # {}
               PROVE  FALSE
  OBVIOUS
<1>2. PICK m \in Bad : \A n \in Bad : m <= n
  <2>1. Bad \in SUBSET Nat
    OBVIOUS
  <2>. HIDE DEF Bad
  <2>2. QED
    BY <1>1, <2>1, Least
<1>3. PICK y \in P : r[y] = m /\ r[y] < k /\ f[y] # h[y]
  BY <1>2
<1>4. y \notin B
  BY <1>3
<1>5. p[y] \in P /\ r[p[y]] < r[y] /\ r[p[y]] \in Nat /\ r[y] \in Nat
  BY <1>4
<1>6. r[p[y]] < k
  BY <1>3, <1>5
<1>7. f[p[y]] # h[p[y]]
  BY <1>3, <1>4
<1>8. r[p[y]] \in Bad
  BY <1>5, <1>6, <1>7
<1>9. QED
  BY <1>2, <1>3, <1>5, <1>8

LEMMA Recursion ==
  ASSUME NEW P, NEW T, NEW B, NEW r, NEW p, NEW a \in [P -> T], NEW g,
         Descends(P, B, r, p),
         \A t \in T, y \in P : g[<<t, y>>] \in T
  PROVE  \E f \in [P -> T] : Recurs(f, P, B, p, a, g)
<1>. DEFINE Upto(k, h) == RecursBelow(k, h, P, B, r, p, a, g)
            Some == {k \in Nat : \E h \in [P -> T] : Upto(k, h)}
<1>0. r \in [P -> Nat] /\ \A y \in P \ B : p[y] \in P /\ r[p[y]] < r[y]
  BY DEF Descends
<1>1. 0 \in Some
  BY <1>0 DEF RecursBelow
<1>2. ASSUME NEW k \in Nat, k \in Some
      PROVE  k + 1 \in Some
  <2>1. PICK h \in [P -> T] : Upto(k, h)
    BY <1>2
  <2>. DEFINE h1 == [y \in P |-> IF y \in B THEN a[y] ELSE g[<<h[p[y]], y>>]]
  <2>2. h1 \in [P -> T]
    BY <1>0
  <2>3. ASSUME NEW y \in P, r[y] < k + 1, y \notin B
        PROVE  h1[p[y]] = h[p[y]]
    <3>1. p[y] \in P /\ r[p[y]] < k
      BY <1>0, <2>3
    <3>2. QED
      BY <2>1, <3>1 DEF RecursBelow
  <2>4. Upto(k + 1, h1)
    BY <2>3 DEF RecursBelow
  <2>. HIDE DEF h1
  <2>5. QED
    BY <2>2, <2>4
<1>3. \A k \in Nat : \E h \in [P -> T] : Upto(k, h)
  <2>1. Nat \subseteq Some
    <3>. HIDE DEF Some
    <3>1. QED
      BY <1>1, <1>2, AllNaturals
  <2>2. QED
    BY <2>1
<1>. DEFINE H(k) == CHOOSE h \in [P -> T] : Upto(k, h)
            f == [y \in P |-> H(r[y] + 1)[y]]
<1>4. \A k \in Nat : H(k) \in [P -> T] /\ Upto(k, H(k))
  BY <1>3
<1>. HIDE DEF H
<1>5. f \in [P -> T]
  BY <1>0, <1>4
<1>6. ASSUME NEW y \in P
      PROVE  f[y] = IF y \in B THEN a[y] ELSE g[<<f[p[y]], y>>]
  <2>1. r[y] \in Nat /\ r[y] + 1 \in Nat /\ r[y] < r[y] + 1
    BY <1>0
  <2>2. f[y] = IF y \in B THEN a[y] ELSE g[<<H(r[y] + 1)[p[y]], y>>]
    BY <1>4, <2>1 DEF RecursBelow
  <2>3. ASSUME y \notin B
        PROVE  H(r[y] + 1)[p[y]] = f[p[y]]
    <3>. DEFINE z == p[y]
                k == r[z] + 1
                h1 == H(r[y] + 1)
                h2 == H(r[z] + 1)
    <3>1. z \in P /\ r[z] \in Nat /\ r[z] < r[y] /\ k \in Nat /\ r[z] < k /\ k <= r[y] + 1
      BY <1>0, <2>1, <2>3
    <3>2. Upto(k, h1) /\ Upto(k, h2)
      <4>1. Upto(r[y] + 1, h1) /\ Upto(k, h2)
        BY <1>4, <2>1, <3>1
      <4>2. \A x \in P : r[x] < k => r[x] < r[y] + 1
        BY <1>0, <2>1, <3>1
      <4>. HIDE DEF h1, h2, k
      <4>3. QED
        BY <4>1, <4>2 DEF RecursBelow
    <3>. HIDE DEF h1, h2, k, z
    <3>3. \A x \in P : r[x] < k => h1[x] = h2[x]
      BY <3>1, <3>2, RecursionUnique
    <3>4. h1[z] = h2[z]
      BY <3>1, <3>3
    <3>5. QED
      BY <3>1, <3>4 DEF h1, h2, z
  <2>4. QED
    BY <2>2, <2>3
<1>7. QED
  BY <1>5, <1>6 DEF Recurs

-----------------------------------------------------------------------------
(***************************************************************************)
(* Reach: as many steps as there are nodes reach whatever can be reached,  *)
(* so it is the smallest set of nodes that holds the first ones and, for   *)
(* each channel that starts in it, the node where the channel ends.        *)
(***************************************************************************)
Onward(E, S) == S \cup {c[2] : c \in {d \in E : d[1] \in S}}

Closed(E, S) == \A c \in E : c[1] \in S => c[2] \in S

Spreads(step, E, U) ==
  step = [k \in Nat |-> IF k = 0 THEN U
                        ELSE step[k - 1] \cup {c[2] : c \in {d \in E : d[1] \in step[k - 1]}}]

LEMMA Spread ==
  ASSUME NEW E \in SUBSET Channel, NEW U \in SUBSET Node
  PROVE  \E step : Spreads(step, E, U)
<1>. DEFINE r == [k \in Nat |-> k]
            p == [k \in Nat |-> k - 1]
            a == [k \in Nat |-> U]
            g == [z \in (SUBSET Node) \X Nat |-> Onward(E, z[1])]
<1>1. Descends(Nat, {0}, r, p)
  BY DEF Descends
<1>2. a \in [Nat -> SUBSET Node]
  OBVIOUS
<1>3. \A t \in SUBSET Node, y \in Nat : g[<<t, y>>] = Onward(E, t)
  OBVIOUS
<1>4. \A t \in SUBSET Node, y \in Nat : g[<<t, y>>] \in SUBSET Node
  BY <1>3 DEF Onward, Channel
<1>5. PICK step \in [Nat -> SUBSET Node] : Recurs(step, Nat, {0}, p, a, g)
  <2>. HIDE DEF r, p, a, g
  <2>1. QED
    BY <1>1, <1>2, <1>4, Recursion
<1>6. \A k \in Nat : step[k] = IF k \in {0} THEN a[k] ELSE g[<<step[p[k]], k>>]
  <2>. HIDE DEF p, a, g
  <2>1. QED
    BY <1>5 DEF Recurs
<1>7. \A k \in Nat : k # 0 => p[k] = k - 1 /\ k - 1 \in Nat
  OBVIOUS
<1>8. \A k \in Nat : a[k] = U
  OBVIOUS
<1>. HIDE DEF p, a, g
<1>9. \A k \in Nat : k # 0 => step[k] = Onward(E, step[k - 1])
  <2>. SUFFICES ASSUME NEW k \in Nat, k # 0
                PROVE  step[k] = Onward(E, step[k - 1])
    OBVIOUS
  <2>1. step[k] = g[<<step[k - 1], k>>]
    BY <1>6, <1>7
  <2>2. step[k - 1] \in SUBSET Node
    BY <1>7
  <2>3. QED
    BY <1>3, <2>1, <2>2
<1>10. step[0] = U
  BY <1>6, <1>8
<1>11. QED
  BY <1>9, <1>10 DEF Spreads, Onward

LEMMA ReachSteps ==
  ASSUME NEW E \in SUBSET Channel, NEW U \in SUBSET Node
  PROVE  \E step : /\ step[0] = U
                   /\ \A k \in Nat : step[k + 1] = Onward(E, step[k])
                   /\ Reach(E, U) = step[Cardinality(Node)]
<1>. DEFINE top == CHOOSE step : Spreads(step, E, U)
<1>1. Spreads(top, E, U)
  BY Spread
<1>2. Reach(E, U) = top[Cardinality(Node)]
  BY DEF Reach, Spreads
<1>. HIDE DEF top
<1>3. \A k \in Nat : k + 1 \in Nat /\ k + 1 # 0 /\ (k + 1) - 1 = k
  OBVIOUS
<1>4. top[0] = U /\ \A k \in Nat : top[k + 1] = Onward(E, top[k])
  BY <1>1, <1>3 DEF Spreads, Onward
<1>5. QED
  BY <1>2, <1>4

(***************************************************************************)
(* Each step adds a node, or there is none left to add.                    *)
(***************************************************************************)
LEMMA ReachCloses ==
  ASSUME NEW E \in SUBSET Channel, NEW step, step[0] \in SUBSET Node,
         \A k \in Nat : step[k + 1] = Onward(E, step[k])
  PROVE  step[Cardinality(Node)] \in SUBSET Node /\ Closed(E, step[Cardinality(Node)])
<1>. DEFINE N == Cardinality(Node)
            Grown(k) == /\ step[k] \in SUBSET Node
                        /\ Closed(E, step[k]) \/ Cardinality(step[k]) >= k
            All == {k \in Nat : Grown(k)}
<1>1. N \in Nat /\ IsFiniteSet(Node)
  BY NodeAssumption, FS_CardinalityType
<1>2. \A S \in SUBSET Node : IsFiniteSet(S) /\ Cardinality(S) \in Nat /\ Cardinality(S) <= N
  BY <1>1, FS_Subset, FS_CardinalityType
<1>3. 0 \in All
  BY <1>2
<1>4. ASSUME NEW k \in Nat, k \in All
      PROVE  k + 1 \in All
  <2>1. PICK S \in SUBSET Node : S = step[k] /\ (Closed(E, S) \/ Cardinality(S) >= k)
    BY <1>4
  <2>2. PICK T : T = Onward(E, S) /\ T = step[k + 1]
    BY <2>1
  <2>3. T \in SUBSET Node /\ S \subseteq T
    BY <2>2 DEF Onward, Channel
  <2>4. CASE T = S
    <3>1. Closed(E, S)
      BY <2>2, <2>4 DEF Onward, Closed
    <3>2. step[k + 1] = S
      BY <2>2, <2>4
    <3>3. QED
      BY <3>1, <3>2
  <2>5. CASE T # S
    <3>1. ~ Closed(E, S)
      BY <2>2, <2>3, <2>5 DEF Onward, Closed
    <3>2. Cardinality(S) <= Cardinality(T) /\ Cardinality(S) # Cardinality(T)
      BY <2>3, <2>5, <1>2, FS_Subset
    <3>3. Cardinality(S) \in Nat /\ Cardinality(T) \in Nat /\ Cardinality(S) >= k
      BY <1>2, <2>1, <2>3, <3>1
    <3>4. Cardinality(T) >= k + 1
      BY <3>2, <3>3
    <3>5. step[k + 1] = T /\ T \in SUBSET Node
      BY <2>2, <2>3
    <3>6. QED
      BY <3>4, <3>5
  <2>6. QED
    BY <2>4, <2>5
<1>5. N \in All
  <2>1. Nat \subseteq All
    <3>. HIDE DEF All
    <3>1. QED
      BY <1>3, <1>4, AllNaturals
  <2>2. QED
    BY <1>1, <2>1
<1>6. PICK S \in SUBSET Node : S = step[N] /\ (Closed(E, S) \/ Cardinality(S) >= N)
  BY <1>5
<1>7. CASE Cardinality(S) >= N
  <2>1. Cardinality(S) = N
    BY <1>1, <1>2, <1>7
  <2>2. S = Node
    BY <1>1, <2>1, FS_Subset
  <2>3. Closed(E, S)
    BY <2>2 DEF Closed, Channel
  <2>4. QED
    BY <1>6, <2>3
<1>8. QED
  BY <1>6, <1>7

LEMMA ReachFacts ==
  ASSUME NEW E \in SUBSET Channel, NEW U \in SUBSET Node
  PROVE  /\ U \subseteq Reach(E, U) /\ Reach(E, U) \subseteq Node
         /\ Closed(E, Reach(E, U))
         /\ \A T : U \subseteq T /\ Closed(E, T) => Reach(E, U) \subseteq T
<1>1. PICK step : /\ step[0] = U
                  /\ \A k \in Nat : step[k + 1] = Onward(E, step[k])
                  /\ Reach(E, U) = step[Cardinality(Node)]
  BY ReachSteps
<1>2. Cardinality(Node) \in Nat
  BY NodeAssumption, FS_CardinalityType
<1>3. ASSUME NEW T, U \subseteq T, Closed(E, T)
      PROVE  step[Cardinality(Node)] \subseteq T
  <2>. DEFINE Inside == {k \in Nat : step[k] \subseteq T}
  <2>1. 0 \in Inside /\ \A k \in Nat : k \in Inside => k + 1 \in Inside
    BY <1>1, <1>3 DEF Closed, Onward
  <2>2. Nat \subseteq Inside
    <3>. HIDE DEF Inside
    <3>1. QED
      BY <2>1, AllNaturals
  <2>3. QED
    BY <1>2, <2>2
<1>4. U \subseteq step[Cardinality(Node)]
  <2>. DEFINE Inside == {k \in Nat : U \subseteq step[k]}
  <2>1. 0 \in Inside /\ \A k \in Nat : k \in Inside => k + 1 \in Inside
    BY <1>1 DEF Onward
  <2>2. Nat \subseteq Inside
    <3>. HIDE DEF Inside
    <3>1. QED
      BY <2>1, AllNaturals
  <2>3. QED
    BY <1>2, <2>2
<1>5. Reach(E, U) \subseteq Node /\ Closed(E, Reach(E, U))
  BY <1>1, ReachCloses
<1>6. QED
  BY <1>1, <1>3, <1>4, <1>5

LEMMA ReachTrans ==
  ASSUME NEW E \in SUBSET Channel, NEW u \in Node,
         NEW v \in Reach(E, {u}), NEW w \in Reach(E, {v})
  PROVE  w \in Reach(E, {u})
<1>1. Closed(E, Reach(E, {u})) /\ v \in Node
  BY ReachFacts
<1>2. {v} \subseteq Reach(E, {u})
  OBVIOUS
<1>3. Reach(E, {v}) \subseteq Reach(E, {u})
  BY <1>1, <1>2, ReachFacts
<1>4. QED
  BY <1>3

LEMMA ReachOne ==
  ASSUME NEW E \in SUBSET Channel, NEW c \in E
  PROVE  c[1] \in Reach(E, {c[1]}) /\ c[2] \in Reach(E, {c[1]})
<1>1. c[1] \in Node
  BY DEF Channel
<1>2. {c[1]} \subseteq Reach(E, {c[1]}) /\ Closed(E, Reach(E, {c[1]}))
  BY <1>1, ReachFacts
<1>3. QED
  BY <1>2 DEF Closed

(***************************************************************************)
(* More channels reach no less, and the same channels backwards lead back. *)
(***************************************************************************)
LEMMA ReachBack ==
  ASSUME NEW E \in SUBSET Channel, NEW F \in SUBSET Channel, \A c \in E : Back(c) \in F,
         NEW u \in Node, NEW v \in Reach(E, {u})
  PROVE  u \in Reach(F, {v})
<1>. DEFINE T == {x \in Node : u \in Reach(F, {x})}
<1>1. {u} \subseteq T
  BY ReachFacts
<1>2. ASSUME NEW c \in E, c[1] \in T
      PROVE  c[2] \in T
  <2>1. PICK d \in F : d = Back(c) /\ d[1] = c[2] /\ d[2] = c[1]
    BY DEF Back
  <2>2. c[1] \in Reach(F, {c[2]}) /\ c[2] \in Node
    BY <2>1, ReachOne DEF Channel
  <2>3. u \in Reach(F, {c[1]})
    BY <1>2
  <2>4. u \in Reach(F, {c[2]})
    BY <2>2, <2>3, ReachTrans
  <2>5. QED
    BY <2>2, <2>4
<1>. HIDE DEF T
<1>3. Closed(E, T)
  BY <1>2 DEF Closed
<1>4. v \in T
  BY <1>1, <1>3, ReachFacts
<1>5. QED
  BY <1>4 DEF T

-----------------------------------------------------------------------------
(***************************************************************************)
(* Channels that go both ways.                                             *)
(***************************************************************************)
TwoWay(E) == \A c \in E : Back(c) \in E

(***************************************************************************)
(* Over such channels to reach and to be reached are the same.             *)
(***************************************************************************)
LEMMA ReachSym ==
  ASSUME NEW E \in SUBSET Channel, TwoWay(E), NEW u \in Node, NEW v \in Node
  PROVE  v \in Reach(E, {u}) <=> u \in Reach(E, {v})
BY ReachBack DEF TwoWay


(***************************************************************************)
(* A link of the measured matrix goes both ways.                           *)
(***************************************************************************)
LEMMA OverlayFacts ==
  ASSUME NEW mat
  PROVE  Overlay(mat) \in SUBSET Channel /\ TwoWay(Overlay(mat))
<1>1. \A c \in Channel : Back(c) \in Channel /\ <<c[2], c[1]>> = Back(c)
                         /\ <<Back(c)[2], Back(c)[1]>> = c
  BY DEF Channel, Back
<1>2. QED
  BY <1>1 DEF Overlay, TwoWay

(***************************************************************************)
(* If one node is cut off, so are all.                                     *)
(***************************************************************************)
LEMMA AllCutOff ==
  ASSUME NEW mat, NEW m \in Node, NEW n \in Node, CutOff(mat, m)
  PROVE  CutOff(mat, n)
<1>. DEFINE E == Overlay(mat)
<1>1. E \in SUBSET Channel /\ TwoWay(E) /\ Reach(E, {m}) # Node
  BY OverlayFacts DEF CutOff
<1>. HIDE DEF E
<1>2. SUFFICES ASSUME Reach(E, {n}) = Node
               PROVE  FALSE
  BY DEF CutOff, E
<1>3. n \in Reach(E, {m})
  BY <1>1, <1>2, ReachSym
<1>4. \A w \in Reach(E, {n}) : w \in Reach(E, {m})
  BY <1>1, <1>3, ReachTrans
<1>5. Reach(E, {m}) \subseteq Node
  BY <1>1, ReachFacts
<1>6. QED
  BY <1>1, <1>2, <1>4, <1>5

-----------------------------------------------------------------------------
(***************************************************************************)
(* What follows from the invariant.                                        *)
(***************************************************************************)
LEMMA TablesFollow ==
  ASSUME IInv
  PROVE  TablesAgree
<1>1. Types /\ Results /\ \A n \in Node : At(n) \in 1 .. 12
  BY InvFacts
<1>2. TrueMatrix
  <2>1. SUFFICES ASSUME NEW n \in Node, Reported(n), NEW c \in Channel
                 PROVE  conn_mat[n][c] = IF c \in links THEN rtt(c[1], c[2]) ELSE GXP_NO_RTT
    BY DEF TrueMatrix
  <2>2. At(n) >= 7
    BY <1>1, <2>1, AtFacts DEF Reported
  <2>3. conn_mat[n] = Measured
    BY <1>1, <2>2 DEF Results
  <2>4. QED
    BY <2>3 DEF Measured
<1>3. SameTables
  <2>1. SUFFICES ASSUME NEW m \in Node, rts[m] # NotYet
                 PROVE  rts[m] = <<Measured, Sums>>
    BY DEF SameTables
  <2>2. At(m) \in 1 .. 12 /\ ~ (At(m) <= 9)
    BY <1>1, <2>1 DEF Results
  <2>3. At(m) >= 10
    BY <2>2
  <2>4. QED
    BY <1>1, <2>3 DEF Results
<1>4. QED
  BY <1>2, <1>3 DEF TablesAgree

LEMMA StepFollows ==
  ASSUME IInv
  PROVE  InStep
<1>1. Types /\ Results /\ Passed /\ \A n \in Node : At(n) \in 1 .. 12
  BY InvFacts
<1>2. BarrierHolds
  <2>1. SUFFICES ASSUME NEW m \in Node, NEW n \in Node, pc[m] = "done"
                 PROVE  rts[n] # NotYet /\ pc[n] \in {"sync", "done"}
    BY DEF BarrierHolds
  <2>2. At(m) = 12 /\ 11 \in Speaking /\ 11 < 12
    BY <1>1, <2>1, AtFacts, SpeakingFacts
  <2>3. Behind(n, 11)
    BY <1>1, <2>2 DEF Passed
  <2>4. At(n) \in {11, 12}
    BY <1>1, <2>3 DEF Behind
  <2>5. pc[n] \in {"sync", "done"}
    BY <1>1, <2>4, AtFacts
  <2>6. rts[n] = <<Measured, Sums>>
    BY <1>1, <2>4 DEF Results
  <2>7. \A a, b : <<a, b>> # <<>>
    OBVIOUS
  <2>8. QED
    BY <2>5, <2>6, <2>7 DEF NotYet
<1>3. ExitTogether
  <2>1. SUFFICES ASSUME NEW m \in Node, NEW n \in Node, pc[m] = "exit",
                        pc[n] \in {"exchange_rt", "sync", "done"}
                 PROVE  FALSE
    BY DEF ExitTogether
  <2>2. At(m) = 8 /\ At(n) >= 9
    BY <1>1, <2>1, AtFacts
  <2>3. CutOff(Measured, m) /\ ~ CutOff(Measured, n)
    BY <1>1, <2>2 DEF Results
  <2>4. QED
    BY <2>3, AllCutOff
<1>4. QED
  BY <1>2, <1>3 DEF InStep

(***************************************************************************)
(* In a ring of more than two nodes no two are each other's next one; of   *)
(* all others only the earlier one plans the connection.                   *)
(***************************************************************************)
LEMMA MayOneWay ==
  ASSUME setting.scheme = "ring" => gxp_num_execs > 2, NEW m \in Node, NEW n \in May(m)
  PROVE  n \in Node /\ m # n /\ m \notin May(n)
<1>1. CASE setting.scheme = "ring"
  <2>1. n = (m + 1) % gxp_num_execs /\ n \in Node
    BY <1>1, NextOne DEF May
  <2>2. n = (IF m = gxp_num_execs - 1 THEN 0 ELSE m + 1)
        /\ (n + 1) % gxp_num_execs = IF n = gxp_num_execs - 1 THEN 0 ELSE n + 1
    BY <2>1, NextOne
  <2>3. m \in 0 .. gxp_num_execs - 1 /\ gxp_num_execs > 2 /\ gxp_num_execs \in Nat
    BY <1>1, NodeFacts
  <2>4. m # n /\ m # (n + 1) % gxp_num_execs
    BY <2>2, <2>3
  <2>5. May(n) = {(n + 1) % gxp_num_execs}
    BY <1>1 DEF May
  <2>6. QED
    BY <2>1, <2>4, <2>5
<1>2. CASE setting.scheme # "ring"
  <2>1. n \in Node /\ n > m
    BY <1>2 DEF May, Later
  <2>2. m \in Nat /\ n \in Nat /\ \A x \in May(n) : x > n
    BY <1>2, <2>1, NodeFacts DEF May, Later
  <2>3. QED
    BY <2>1, <2>2
<1>3. QED
  BY <1>1, <1>2

LEMMA SetupFollows ==
  ASSUME IInv, \A s \in Settings : s.scheme = "ring" => gxp_num_execs > 2
  PROVE  SetupConsistent
<1>1. /\ Types /\ DataTypes /\ Plannings /\ setting \in Settings /\ \A n \in Node : At(n) \in 1 .. 12
      /\ setting.scheme = "ring" => gxp_num_execs > 2
  BY InvFacts
<1>2. \A c \in links : c \in Channel /\ <<c[2], c[1]>> \notin links
  <2>1. SUFFICES ASSUME NEW c \in links
                 PROVE  c \in Channel /\ <<c[2], c[1]>> \notin links
    OBVIOUS
  <2>2. PICK m \in Node, n \in Node : c = <<m, n>> /\ n \in plan[m]
    BY <1>1, <2>1 DEF Plannings
  <2>3. n \in May(m)
    BY <1>1, <2>2 DEF Plannings
  <2>4. m # n /\ m \notin May(n)
    BY <1>1, <2>3, MayOneWay
  <2>5. m \notin plan[n]
    BY <1>1, <2>4 DEF Plannings
  <2>6. <<n, m>> \notin links
    BY <1>1, <2>5 DEF Plannings
  <2>7. QED
    BY <2>2, <2>4, <2>6 DEF Channel
<1>3. TypeOK
  BY <1>1, <1>2 DEF TypeOK, Types, DataTypes, Ops
<1>4. NeverLost
  BY <1>1 DEF NeverLost, Types, Ops
<1>5. EndpointsKnown
  <2>1. SUFFICES ASSUME NEW n \in Node, pc[n] = "connect"
                 PROVE  peer_hostnames[n] = Node /\ peer_eps[n] = Node
    BY DEF EndpointsKnown
  <2>2. At(n) = 5
    BY <1>1, <2>1, AtFacts
  <2>3. QED
    BY <1>1, <2>2 DEF Plannings
<1>6. RequestsHonoured
  <2>1. SUFFICES ASSUME setting.scheme = "locality", NEW n \in Node, pc[n] \in {"ports", "connect"}
                 PROVE  plan[n] = {m \in Later(n) : m \in request[n] \/ n \in request[m]}
    BY DEF RequestsHonoured
  <2>2. At(n) \in {4, 5}
    BY <1>1, <2>1, AtFacts
  <2>3. QED
    BY <1>1, <2>1, <2>2 DEF Plannings
<1>7. QED
  BY <1>2, <1>3, <1>4, <1>5, <1>6 DEF SetupConsistent, OneOpens

(***************************************************************************)
(* However many nodes set up the overlay, by whatever operation, whatever  *)
(* they draw and whichever attempts fail: no read loop of gxp.c takes a    *)
(* line of another operation, a node connects only when it knows all, all  *)
(* requests of gxp_man_connect_locality_aware are honoured, and no two     *)
(* nodes connect to each other.  (The two nodes of a ring do.)             *)
(***************************************************************************)
THEOREM SetupIsConsistent ==
  ASSUME \A s \in Settings : s.scheme = "ring" => gxp_num_execs > 2
  PROVE  Spec => []SetupConsistent
<1>1. IInv => SetupConsistent
  BY SetupFollows
<1>2. QED
  BY <1>1, Invariance, PTL

(***************************************************************************)
(* Whatever happens, gxp_router_run computes the tables of all nodes from  *)
(* the same matrix, that of the connections there are, and from the same   *)
(* average distances.                                                      *)
(***************************************************************************)
THEOREM TablesDoAgree == Spec => []TablesAgree
<1>1. IInv => TablesAgree
  BY TablesFollow
<1>2. QED
  BY <1>1, Invariance, PTL

(***************************************************************************)
(* gxp_man_sync lets no node go before all have all tables, and calc_rt    *)
(* ends the program on no node if another one has got a table.             *)
(***************************************************************************)
THEOREM NodesAreInStep == Spec => []InStep
<1>1. IInv => InStep
  BY StepFollows
<1>2. QED
  BY <1>1, Invariance, PTL

-----------------------------------------------------------------------------
(***************************************************************************)
(* The overlays a scheme can plan: each node adds connections to the nodes *)
(* of one of its plans.                                                    *)
(***************************************************************************)
LEMMA PlannedEach ==
  ASSUME NEW scheme, scheme # "locality",
         \A n \in Nat : Plans(scheme, n) \in SUBSET SUBSET Node,
         NEW E \in Planned(scheme)
  PROVE  /\ E \subseteq Node \X Node
         /\ \A n \in Node : \E aims \in Plans(scheme, n) : \A m : <<n, m>> \in E <=> m \in aims
<1>. DEFINE U == Nat \X Node
            T == SUBSET SUBSET U
            More(S, n) == {D \cup ({n} \X aims) : D \in S, aims \in Plans(scheme, n)}
            Ups(u) == u = [n \in Nat |-> IF n = 0 THEN {{}}
                                         ELSE {D \cup ({n - 1} \X aims) :
                                                D \in u[n - 1], aims \in Outcomes(scheme, n - 1)}]
            r == [k \in Nat |-> k]
            p == [k \in Nat |-> k - 1]
            a == [k \in Nat |-> {{}}]
            g == [z \in T \X Nat |-> IF z[2] = 0 THEN {{}} ELSE More(z[1], z[2] - 1)]
<1>1. Descends(Nat, {0}, r, p)
  BY DEF Descends
<1>2. a \in [Nat -> T]
  OBVIOUS
<1>3. ASSUME NEW S \in T, NEW n \in Nat
      PROVE  More(S, n) \in T
  <2>. SUFFICES ASSUME NEW D \in S, NEW aims \in Plans(scheme, n)
                PROVE  D \cup ({n} \X aims) \in SUBSET U
    OBVIOUS
  <2>1. aims \subseteq Node /\ D \in SUBSET U
    OBVIOUS
  <2>2. QED
    BY <2>1
<1>. HIDE DEF More
<1>4. \A S \in T, k \in Nat : /\ g[<<S, k>>] \in T
                              /\ k # 0 => g[<<S, k>>] = More(S, k - 1)
  <2>. SUFFICES ASSUME NEW S \in T, NEW k \in Nat
                PROVE  g[<<S, k>>] \in T /\ (k # 0 => g[<<S, k>>] = More(S, k - 1))
    OBVIOUS
  <2>1. g[<<S, k>>] = IF k = 0 THEN {{}} ELSE More(S, k - 1)
    BY DEF T
  <2>2. {{}} \in T
    OBVIOUS
  <2>3. k # 0 => k - 1 \in Nat
    OBVIOUS
  <2>4. k # 0 => More(S, k - 1) \in T
    <3>. HIDE DEF T
    <3>1. QED
      BY <1>3, <2>3
  <2>. HIDE DEF T, g
  <2>5. QED
    BY <2>1, <2>2, <2>4
<1>5. PICK u \in [Nat -> T] : Recurs(u, Nat, {0}, p, a, g)
  <2>. HIDE DEF T, r, p, a, g
  <2>1. QED
    BY <1>1, <1>2, <1>4, Recursion
<1>6. \A k \in Nat : u[k] = IF k = 0 THEN {{}} ELSE More(u[k - 1], k - 1)
  <2>. SUFFICES ASSUME NEW k \in Nat
                PROVE  u[k] = IF k = 0 THEN {{}} ELSE More(u[k - 1], k - 1)
    OBVIOUS
  <2>1. u[k] = IF k \in {0} THEN a[k] ELSE g[<<u[p[k]], k>>]
    <3>. HIDE DEF T, p, a, g
    <3>1. QED
      BY <1>5 DEF Recurs
  <2>2. a[k] = {{}} /\ p[k] = k - 1 /\ (k # 0 => k - 1 \in Nat)
    OBVIOUS
  <2>3. k # 0 => u[k - 1] \in T
    BY <1>5, <2>2
  <2>. HIDE DEF T, p, a, g
  <2>4. QED
    BY <1>4, <2>1, <2>2, <2>3
<1>7. \A v : Ups(v) <=> v = [n \in Nat |-> IF n = 0 THEN {{}} ELSE More(v[n - 1], n - 1)]
  BY DEF More, Outcomes
<1>. HIDE DEF Ups
<1>8. Ups(u)
  <2>1. u = [n \in Nat |-> u[n]]
    BY <1>5
  <2>2. u = [n \in Nat |-> IF n = 0 THEN {{}} ELSE More(u[n - 1], n - 1)]
    BY <1>6, <2>1
  <2>3. QED
    BY <1>7, <2>2
<1>. DEFINE w == CHOOSE v : Ups(v)
<1>9. Ups(w)
  BY <1>8
<1>10. Planned(scheme) = w[gxp_num_execs]
  BY DEF Planned, Ups
<1>. HIDE DEF w
<1>11. \A k \in Nat : w[k] = IF k = 0 THEN {{}} ELSE More(w[k - 1], k - 1)
  <2>1. w = [n \in Nat |-> IF n = 0 THEN {{}} ELSE More(w[n - 1], n - 1)]
    BY <1>7, <1>9
  <2>2. QED
    BY <2>1
<1>. DEFINE Each(k) == \A D \in w[k] :
                         /\ \A c \in D : c \in Nat \X Node /\ c[1] < k
                         /\ \A n \in 0 .. k - 1 :
                              \E aims \in Plans(scheme, n) : \A m : <<n, m>> \in D <=> m \in aims
            All == {k \in Nat : Each(k)}
<1>12. 0 \in All
  <2>1. w[0] = {{}}
    BY <1>11
  <2>2. QED
    BY <2>1
<1>13. ASSUME NEW k \in Nat, k \in All
       PROVE  k + 1 \in All
  <2>. SUFFICES ASSUME NEW D \in w[k + 1]
                PROVE  /\ \A c \in D : c \in Nat \X Node /\ c[1] < k + 1
                       /\ \A n \in 0 .. (k + 1) - 1 :
                            \E aims \in Plans(scheme, n) : \A m : <<n, m>> \in D <=> m \in aims
    OBVIOUS
  <2>1. w[k + 1] = More(w[k], k)
    <3>1. k + 1 \in Nat /\ k + 1 # 0 /\ (k + 1) - 1 = k
      OBVIOUS
    <3>2. QED
      BY <1>11, <3>1
  <2>2. PICK F \in w[k], aims \in Plans(scheme, k) : D = F \cup ({k} \X aims)
    BY <2>1 DEF More
  <2>3. /\ \A c \in F : c \in Nat \X Node /\ c[1] < k
        /\ \A n \in 0 .. k - 1 : \E q \in Plans(scheme, n) : \A m : <<n, m>> \in F <=> m \in q
    BY <1>13
  <2>4. aims \subseteq Node
    OBVIOUS
  <2>5. \A c \in D : c \in Nat \X Node /\ c[1] < k + 1
    <3>. SUFFICES ASSUME NEW c \in D
                  PROVE  c \in Nat \X Node /\ c[1] < k + 1
      OBVIOUS
    <3>1. CASE c \in F
      BY <2>3, <3>1
    <3>2. CASE c \in {k} \X aims
      BY <2>4, <3>2
    <3>3. QED
      BY <2>2, <3>1, <3>2
  <2>6. ASSUME NEW n \in 0 .. (k + 1) - 1
        PROVE  \E q \in Plans(scheme, n) : \A m : <<n, m>> \in D <=> m \in q
    <3>1. CASE n = k
      <4>1. \A m : <<k, m>> \notin F
        <5>. SUFFICES ASSUME NEW m, <<k, m>> \in F
                      PROVE  FALSE
          OBVIOUS
        <5>1. <<k, m>>[1] < k
          BY <2>3
        <5>2. QED
          BY <5>1
      <4>2. \A m : <<k, m>> \in D <=> m \in aims
        BY <2>2, <4>1
      <4>3. QED
        BY <3>1, <4>2
    <3>2. CASE n # k
      <4>1. n \in 0 .. k - 1
        BY <3>2
      <4>2. PICK q \in Plans(scheme, n) : \A m : <<n, m>> \in F <=> m \in q
        BY <2>3, <4>1
      <4>3. \A m : <<n, m>> \in D <=> <<n, m>> \in F
        BY <2>2, <3>2
      <4>4. QED
        BY <4>2, <4>3
    <3>3. QED
      BY <3>1, <3>2
  <2>7. QED
    BY <2>5, <2>6
<1>14. Each(gxp_num_execs)
  <2>1. Nat \subseteq All
    <3>. HIDE DEF All
    <3>1. QED
      BY <1>12, <1>13, AllNaturals
  <2>2. QED
    BY <2>1, NodeFacts
<1>15. \A c \in E : c \in Node \X Node
  <2>1. \A c \in E : c \in Nat \X Node /\ c[1] < gxp_num_execs
    BY <1>10, <1>14
  <2>2. QED
    BY <2>1, NodeFacts
<1>16. QED
  BY <1>10, <1>14, <1>15, NodeFacts

(***************************************************************************)
(* Links that lead from each node but the first to a smaller one lead from *)
(* the first to all.                                                       *)
(***************************************************************************)
LEMMA FirstReaches ==
  ASSUME NEW E \in SUBSET Channel,
         \A m \in Node : m # 0 => \E l \in Node : l < m /\ (<<l, m>> \in E \/ <<m, l>> \in E)
  PROVE  Reach(Both(E), {0}) = Node
<1>1. Both(E) \in SUBSET Channel
  BY DEF Both, Back, Channel
<1>2. 0 \in Node
  BY NodeFacts
<1>. DEFINE R == Reach(Both(E), {0})
<1>3. 0 \in R /\ R \subseteq Node /\ Closed(Both(E), R)
  BY <1>1, <1>2, ReachFacts
<1>. HIDE DEF R
<1>4. ASSUME Node \ R # {}
      PROVE  FALSE
  <2>1. PICK m \in Node \ R : \A k \in Node \ R : m <= k
    BY <1>4, NodeFacts, Least
  <2>2. PICK l \in Node : l < m /\ (<<l, m>> \in E \/ <<m, l>> \in E)
    BY <1>3, <2>1
  <2>3. l \in R
    BY <2>1, <2>2, NodeFacts
  <2>4. <<l, m>> \in Both(E)
    BY <2>2 DEF Both, Back
  <2>5. m \in R
    BY <1>3, <2>3, <2>4 DEF Closed
  <2>6. QED
    BY <2>1, <2>5
<1>5. QED
  BY <1>3, <1>4 DEF R

(***************************************************************************)
(* The first node of a cluster is a gateway.                               *)
(***************************************************************************)
LEMMA ClustersGate ==
  ASSUME NEW m \in Node
  PROVE  \E n \in Node : n <= m /\ gxp_man_same_cluster(n, m) /\ Before(n) = 0
<1>. DEFINE S == {n \in Node : gxp_man_same_cluster(n, m)}
<1>1. S \in SUBSET Nat /\ m \in S
  BY NodeFacts DEF gxp_man_same_cluster
<1>2. PICK n \in S : \A k \in S : n <= k
  <2>. HIDE DEF S
  <2>1. QED
    BY <1>1, Least
<1>3. {k \in 0 .. n - 1 : gxp_man_same_cluster(k, n)} = {}
  <2>. SUFFICES ASSUME NEW k \in 0 .. n - 1, gxp_man_same_cluster(k, n)
                PROVE  FALSE
    OBVIOUS
  <2>1. n \in Node /\ k \in Node /\ k < n
    BY NodeFacts
  <2>2. k \in S
    BY <2>1 DEF gxp_man_same_cluster
  <2>3. n <= k /\ n \in Nat /\ k \in Nat
    BY <1>1, <1>2, <2>2
  <2>4. QED
    BY <2>1, <2>3
<1>4. Before(n) = 0
  BY <1>3, FS_EmptySet DEF Before
<1>5. QED
  BY <1>1, <1>2, <1>4

(***************************************************************************)
(* For any number of nodes, the operations that connect all nodes, a ring  *)
(* (of more than one), a line, or the gateways of clusters (if there are   *)
(* any, and a cluster connects all its nodes) plan an overlay in which     *)
(* every node can be reached, whatever the clusters are.                   *)
(***************************************************************************)
THEOREM PlansConnect ==
  /\ AlwaysConnected("all") /\ AlwaysConnected("line")
  /\ gxp_num_execs > 1 => AlwaysConnected("ring")
  /\ Dense /\ ngates > 0 => AlwaysConnected("gateway")
<1>1. ASSUME NEW scheme \in {"all", "line", "ring", "gateway"}, NEW n \in Nat
      PROVE  Plans(scheme, n) \in SUBSET SUBSET Node
  <2>1. Later(n) \subseteq Node
    BY DEF Later
  <2>2. CASE scheme = "all"
    BY <2>1, <2>2 DEF Plans
  <2>3. CASE scheme = "line"
    BY <2>3 DEF Plans
  <2>4. CASE scheme = "ring"
    <3>1. (n + 1) % gxp_num_execs \in 0 .. gxp_num_execs - 1
      BY NodeFacts
    <3>2. QED
      BY <2>4, <3>1, NodeFacts DEF Plans
  <2>5. CASE scheme = "gateway"
    <3>1. GatewayPlans(n) \in SUBSET SUBSET Node
      BY DEF GatewayPlans, Later
    <3>2. QED
      BY <2>5, <3>1 DEF Plans
  <2>6. QED
    BY <2>2, <2>3, <2>4, <2>5
<1>2. ASSUME NEW scheme \in {"all", "line", "ring", "gateway"}, NEW E \in Planned(scheme)
      PROVE  /\ E \subseteq Node \X Node
             /\ \A n \in Node : \E aims \in Plans(scheme, n) : \A m : <<n, m>> \in E <=> m \in aims
  BY <1>1, PlannedEach
<1>3. ASSUME NEW E \in SUBSET (Node \X Node), \A n \in Node : <<n, n>> \notin E
      PROVE  E \in SUBSET Channel
  BY <1>3 DEF Channel
<1>4. AlwaysConnected("all")
  <2>. SUFFICES ASSUME NEW E \in Planned("all")
                PROVE  Reach(Both(E), {0}) = Node
    BY DEF AlwaysConnected
  <2>1. E \subseteq Node \X Node /\ \A n \in Node : \A m : <<n, m>> \in E <=> m \in Later(n)
    BY <1>2 DEF Plans
  <2>2. \A n \in Node : <<n, n>> \notin E
    BY <2>1, NodeFacts DEF Later
  <2>3. \A m \in Node : m # 0 => 0 \in Node /\ 0 < m /\ <<0, m>> \in E
    BY <2>1, NodeFacts DEF Later
  <2>4. QED
    BY <1>3, <2>1, <2>2, <2>3, FirstReaches
<1>5. AlwaysConnected("line")
  <2>. SUFFICES ASSUME NEW E \in Planned("line")
                PROVE  Reach(Both(E), {0}) = Node
    BY DEF AlwaysConnected
  <2>1. E \subseteq Node \X Node /\ \A n \in Node : \A m : <<n, m>> \in E <=> m \in {n + 1} \cap Node
    BY <1>2 DEF Plans
  <2>2. \A n \in Node : <<n, n>> \notin E
    BY <2>1, NodeFacts
  <2>3. \A m \in Node : m # 0 => m - 1 \in Node /\ m - 1 < m /\ m = (m - 1) + 1
    BY NodeFacts
  <2>4. \A m \in Node : m # 0 => <<m - 1, m>> \in E
    BY <2>1, <2>3
  <2>5. QED
    BY <1>3, <2>1, <2>2, <2>3, <2>4, FirstReaches
<1>6. ASSUME gxp_num_execs > 1
      PROVE  AlwaysConnected("ring")
  <2>. SUFFICES ASSUME NEW E \in Planned("ring")
                PROVE  Reach(Both(E), {0}) = Node
    BY DEF AlwaysConnected
  <2>1. /\ E \subseteq Node \X Node
        /\ \A n \in Node : \A m : <<n, m>> \in E <=> m = (n + 1) % gxp_num_execs
    BY <1>2 DEF Plans
  <2>2. \A n \in Node : (n + 1) % gxp_num_execs = IF n = gxp_num_execs - 1 THEN 0 ELSE n + 1
    BY NextOne
  <2>3. \A n \in Node : <<n, n>> \notin E
    BY <1>6, <2>1, <2>2, NodeFacts
  <2>4. \A m \in Node : m # 0 => m - 1 \in Node /\ m - 1 < m /\ m = (m - 1) + 1 /\ m - 1 # gxp_num_execs - 1
    BY NodeFacts
  <2>5. \A m \in Node : m # 0 => <<m - 1, m>> \in E
    BY <2>1, <2>2, <2>4
  <2>6. QED
    BY <1>3, <2>1, <2>3, <2>4, <2>5, FirstReaches
<1>7. ASSUME Dense, ngates > 0
      PROVE  AlwaysConnected("gateway")
  <2>. SUFFICES ASSUME NEW E \in Planned("gateway")
                PROVE  Reach(Both(E), {0}) = Node
    BY DEF AlwaysConnected
  <2>0. ngates \in Nat
    BY GxpAssumption
  <2>1. /\ E \subseteq Node \X Node
        /\ \A n \in Node : \A m : <<n, m>> \in E <=>
             \/ gateway(n) /\ m \in Later(n) /\ ~Eliminated(m)
             \/ m \in Later(n) /\ gxp_man_same_cluster(n, m)
    <3>1. /\ E \subseteq Node \X Node
          /\ \A n \in Node : \E aims \in GatewayPlans(n) : \A m : <<n, m>> \in E <=> m \in aims
      BY <1>2 DEF Plans
    <3>2. \A n : \A aims \in GatewayPlans(n) : \A m : m \in aims <=>
             \/ gateway(n) /\ m \in Later(n) /\ ~Eliminated(m)
             \/ m \in Later(n) /\ gxp_man_same_cluster(n, m)
      BY <1>7 DEF GatewayPlans
    <3>3. QED
      BY <3>1, <3>2
  <2>2. \A n \in Node : <<n, n>> \notin E
    BY <2>1, NodeFacts DEF Later
  <2>3. ASSUME NEW m \in Node, m # 0
        PROVE  \E l \in Node : l < m /\ <<l, m>> \in E
    <3>1. PICK n \in Node : n <= m /\ gxp_man_same_cluster(n, m) /\ Before(n) = 0
      BY ClustersGate
    <3>2. CASE n # m
      <4>1. n < m /\ m \in Later(n)
        BY <3>1, <3>2, NodeFacts DEF Later
      <4>2. QED
        BY <2>1, <3>1, <4>1
    <3>3. CASE n = m
      <4>1. 0 \in Node /\ 0 < m /\ m \in Later(0)
        BY <2>3, NodeFacts DEF Later
      <4>2. Before(0) = 0
        <5>1. PICK k \in Node : k <= 0 /\ Before(k) = 0
          BY <4>1, ClustersGate
        <5>2. k = 0
          BY <5>1, NodeFacts
        <5>3. QED
          BY <5>1, <5>2
      <4>3. gateway(0) /\ ~Eliminated(m)
        BY <1>7, <2>0, <3>1, <3>3, <4>2 DEF gateway, Eliminated
      <4>4. QED
        BY <2>1, <4>1, <4>3
    <3>4. QED
      BY <3>2, <3>3
  <2>4. QED
    BY <1>3, <2>1, <2>2, <2>3, FirstReaches
<1>8. QED
  BY <1>4, <1>5, <1>6, <1>7

=============================================================================
