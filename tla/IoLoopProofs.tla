---------------------------- MODULE IoLoopProofs ----------------------------
(***************************************************************************)
(* Proofs about IoLoop, for every number of channels and threads, every    *)
(* limit of the queues and every choice of what fails: the cached          *)
(* descriptor sets, the states of the channels, the wait queues and the    *)
(* notify pipe always agree.                                               *)
(***************************************************************************)
EXTENDS IoLoop, Integers, FiniteSetTheorems, WellFoundedInduction, TLAPS

-----------------------------------------------------------------------------
(***************************************************************************)
(* The invariant.                                                          *)
(***************************************************************************)
(***************************************************************************)
(* Sets of descriptors that select() may be given: all open, nothing that  *)
(* must not be read, and the pipe.                                         *)
(***************************************************************************)
OpenSets(S) ==
  /\ PIPE \in S.R
  /\ \A c \in Chan : c \in S.R \cup S.W => c \in channels
  /\ \A c \in Queue : c \in S.R => state[c] = "ACTIVE"

Serves(S) == NeedR \subseteq S.R /\ NeedW \subseteq S.W

(***************************************************************************)
(* While the cache is valid it can be given to select(), and what it lacks *)
(* has an event in the pipe that invalidates it.                           *)
(***************************************************************************)
CacheInv ==
  /\ valid => OpenSets(cache)
  /\ valid /\ pc # "exit" => Serves(cache) \/ pipe # <<>>
  /\ pc = "select" => valid /\ fds = cache

(***************************************************************************)
(* What select() has reported stays as it was until it is served.          *)
(***************************************************************************)
Reported == {"event", "accept", "local"}

TurnInv ==
  /\ pc \in Reported => \A c \in Queue : c \in fds.R => state[c] = "ACTIVE"
  /\ pc \in Reported /\ LCHAN \in fds.R => queue[LCHAN] > 0
  /\ pc = "event" /\ EventReady => pipe # <<>>
  /\ pc \in {"read", "write"} => todo \subseteq channels
  /\ pc = "read" => \A c \in todo : state[c] = "ACTIVE"

(***************************************************************************)
(* A thread that has pushed a chunk owes an event.  Chunks that wait in    *)
(* the local channel outnumber the events that came with chunks, but for   *)
(* one per thread, and by one more when a chunk is about to be taken.      *)
(***************************************************************************)
Owing == {t \in Thread : app[t] = "notify"}

Took == pc \in {"accept", "local"} \/ (pc = "event" /\ PIPE \notin fds.R)

AccountInv ==
  /\ queue[LCHAN] <= LIMIT
  /\ Len(pipe) + Cardinality(Owing) <= queue[LCHAN] + Cardinality(Thread) + own
  /\ Took /\ LCHAN \in fds.R =>
       Len(pipe) + Cardinality(Owing) < queue[LCHAN] + Cardinality(Thread) + own

(***************************************************************************)
(* A channel of which the I/O thread does not know yet has one event.      *)
(***************************************************************************)
Announces(i, c) == pipe[i].kind = "NEWCHAN" /\ pipe[i].chan = c

PendingInv ==
  /\ \A c \in opening : state[c] = "none"
  /\ \A i \in 1 .. Len(pipe) : \A c \in Chan :
       Announces(i, c) => state[c] = "SETUP" /\ c \notin channels
  /\ \A i, j \in 1 .. Len(pipe) : \A c \in Chan : Announces(i, c) /\ Announces(j, c) => i = j

(***************************************************************************)
(* Who waits is BLOCKING or, when a write failed, destroyed, and nobody    *)
(* waits twice.  As long as nothing is destroyed, who is BLOCKING waits.   *)
(***************************************************************************)
Waits(d, i, c) == i \in 1 .. Len(waitq[d]) /\ waitq[d][i] = c

Intact == \A c \in Queue : state[c] # "destroyed"

WaitersInv ==
  /\ \A d \in Chan : \A i \in Nat : \A c \in Queue :
       Waits(d, i, c) => state[c] \in {"BLOCKING", "destroyed"}
  /\ \A d, e \in Chan : \A i, j \in Nat : \A c \in Queue :
       Waits(d, i, c) /\ Waits(e, j, c) => d = e /\ i = j
  /\ Intact => \A c \in Queue :
       state[c] = "BLOCKING" => \E d \in Chan : \E i \in Nat : Waits(d, i, c)
  /\ "write" \notin Faults => \A d \in Chan : \A i \in Nat : \A c \in Queue :
       Waits(d, i, c) => state[c] = "BLOCKING"

(***************************************************************************)
(* Without faults nothing stops the process, and a chunk in the local      *)
(* channel has somewhere to go.                                            *)
(***************************************************************************)
FaultsInv ==
  /\ "write" \notin Faults => pc # "assert"
  /\ Faults = {} /\ pc # "exit" /\ queue[LCHAN] > 0 => NextHops(LCHAN) # {}
  /\ Faults = {} => pc # "abort"

IInv ==
  /\ TypeOK
  /\ CacheInv
  /\ TurnInv
  /\ AccountInv
  /\ PendingInv
  /\ WaitersInv
  /\ FaultsInv

-----------------------------------------------------------------------------
(***************************************************************************)
(* Queues, and induction.                                                  *)
(***************************************************************************)
LEMMA AppendFacts ==
  ASSUME NEW S, NEW s \in Seq(S), NEW e \in S
  PROVE  /\ Append(s, e) \in Seq(S) /\ Append(s, e) # <<>>
         /\ Len(s) \in Nat /\ Len(Append(s, e)) = Len(s) + 1
         /\ \A i \in 1 .. Len(s) : Append(s, e)[i] = s[i]
         /\ Append(s, e)[Len(s) + 1] = e
  OBVIOUS

LEMMA TailFacts ==
  ASSUME NEW S, NEW s \in Seq(S), s # <<>>
  PROVE  /\ Tail(s) \in Seq(S) /\ Head(s) \in S /\ Head(s) = s[1]
         /\ Len(s) \in Nat \ {0} /\ Len(Tail(s)) = Len(s) - 1
         /\ \A i \in 1 .. Len(s) - 1 : Tail(s)[i] = s[i + 1]
  OBVIOUS

LEMMA SubSeqFacts ==
  ASSUME NEW S, NEW s \in Seq(S), NEW m \in 0 .. Len(s)
  PROVE  /\ SubSeq(s, m + 1, Len(s)) \in Seq(S)
         /\ Len(SubSeq(s, m + 1, Len(s))) = Len(s) - m
         /\ \A i \in 1 .. Len(s) - m : SubSeq(s, m + 1, Len(s))[i] = s[m + i]
<1>. DEFINE n == Len(s) - m
            t == SubSeq(s, m + 1, Len(s))
<1>1. n \in Nat /\ Len(s) \in Nat /\ m \in Nat /\ DOMAIN s = 1 .. Len(s) /\ \A i \in 1 .. Len(s) : s[i] \in S
  OBVIOUS
<1>2. t = [i \in 1 .. n |-> s[m + i]]
  OBVIOUS
<1>3. \A i \in 1 .. n : m + i \in 1 .. Len(s)
  OBVIOUS
<1>4. t \in [1 .. n -> S]
  BY <1>1, <1>2, <1>3
<1>5. t \in Seq(S) /\ Len(t) = n
  <2>. HIDE DEF n, t
  <2>1. n \in Nat /\ DOMAIN t = 1 .. n
    BY <1>1, <1>4
  <2>2. QED
    BY <1>4, <2>1
<1>6. QED
  BY <1>2, <1>5

LEMMA SameSeq ==
  ASSUME NEW S, NEW s \in Seq(S), NEW t \in Seq(S), Len(s) = Len(t),
         \A i \in 1 .. Len(s) : s[i] = t[i]
  PROVE  s = t
  OBVIOUS

LEMMA AllNaturals ==
  ASSUME NEW S, 0 \in S, \A n \in Nat : n \in S => n + 1 \in S
  PROVE  Nat \subseteq S
<1>. DEFINE T == Nat \ S
<1>1. SUFFICES ASSUME T # {}
               PROVE  FALSE
  OBVIOUS
<1>2. T \in SUBSET Nat
  OBVIOUS
<1>3. \E m \in T : \A k \in T : ~(<<k, m>> \in OpToRel(<, Nat))
  <2>. HIDE DEF T
  <2>1. QED
    BY <1>1, <1>2, NatLessThanWellFounded, WFMin
<1>4. PICK m \in T : \A k \in T : ~(<<k, m>> \in OpToRel(<, Nat))
  BY <1>3
<1>5. m \in Nat /\ m \notin S /\ \A k \in T : ~(k < m)
  BY <1>4 DEF OpToRel
<1>6. m # 0
  BY <1>5
<1>7. m - 1 \in Nat /\ m - 1 < m /\ (m - 1) + 1 = m
  BY <1>5, <1>6
<1>8. m - 1 \in S
  BY <1>5, <1>7
<1>9. QED
  BY <1>5, <1>7, <1>8

-----------------------------------------------------------------------------
(***************************************************************************)
(* channel_write: what is left after k messages.  Of n waiters the first   *)
(* Room(q, n, k) have been admitted, in all, when there were q messages.   *)
(***************************************************************************)
Room(q, n, k) ==
  IF k = 0 \/ LIMIT - q + k <= 0 THEN 0 ELSE IF n < LIMIT - q + k THEN n ELSE LIMIT - q + k

After(q, w, k) ==
  [q |-> q - k + Room(q, Len(w), k), w |-> SubSeq(w, Room(q, Len(w), k) + 1, Len(w))]

SendOne(b) ==
  [q |-> b.q - 1 + Admitted(b.q - 1, b.w),
   w |-> SubSeq(b.w, Admitted(b.q - 1, b.w) + 1, Len(b.w))]

Sends(f, c) ==
  f = [k \in Nat |-> IF k = 0 THEN [q |-> queue[c], w |-> waitq[c]] ELSE SendOne(f[k - 1])]

LEMMA SendOneMore ==
  ASSUME NEW q \in Nat, NEW w \in Seq(Queue), NEW k \in Nat
  PROVE  SendOne(After(q, w, k)) = After(q, w, k + 1)
<1>. DEFINE n == Len(w)
            a == Room(q, n, k)
            b == Room(q, n, k + 1)
            rest == SubSeq(w, a + 1, n)
            m == Admitted(q - k + a - 1, rest)
<1>1. n \in Nat /\ LIMIT \in Nat
  BY IoLoopAssumption
<1>2. a \in 0 .. n /\ b \in 0 .. n /\ a <= b
  BY <1>1 DEF Room
<1>3. rest \in Seq(Queue) /\ Len(rest) = n - a /\ \A i \in 1 .. n - a : rest[i] = w[a + i]
  <2>. HIDE DEF a
  <2>1. QED
    BY <1>2, SubSeqFacts
<1>4. rest = <<>> <=> n - a = 0
  <2>. HIDE DEF rest, a
  <2>1. QED
    BY <1>1, <1>2, <1>3
<1>5. m = b - a
  <2>1. m = IF n - a = 0 \/ q - k + a - 1 >= LIMIT THEN 0
            ELSE IF n - a < LIMIT - (q - k + a - 1) THEN n - a ELSE LIMIT - (q - k + a - 1)
    <3>. HIDE DEF rest, a
    <3>1. QED
      BY <1>3, <1>4 DEF Admitted
  <2>. HIDE DEF m, n
  <2>2. QED
    BY <1>1, <2>1 DEF Room
<1>6. SubSeq(rest, m + 1, Len(rest)) = SubSeq(w, b + 1, n)
  <2>. HIDE DEF a, b, m, rest
  <2>1. m \in 0 .. Len(rest)
    BY <1>1, <1>2, <1>3, <1>5
  <2>2. /\ SubSeq(rest, m + 1, Len(rest)) \in Seq(Queue)
        /\ Len(SubSeq(rest, m + 1, Len(rest))) = n - b
        /\ \A i \in 1 .. n - b : SubSeq(rest, m + 1, Len(rest))[i] = rest[m + i]
    BY <1>1, <1>2, <1>3, <1>5, <2>1, SubSeqFacts
  <2>3. /\ SubSeq(w, b + 1, n) \in Seq(Queue)
        /\ Len(SubSeq(w, b + 1, n)) = n - b
        /\ \A i \in 1 .. n - b : SubSeq(w, b + 1, n)[i] = w[b + i]
    BY <1>2, SubSeqFacts
  <2>4. \A i \in 1 .. n - b : rest[m + i] = w[b + i]
    <3>1. SUFFICES ASSUME NEW i \in 1 .. n - b
                   PROVE  rest[m + i] = w[b + i]
      OBVIOUS
    <3>2. m + i \in 1 .. n - a /\ a + (m + i) = b + i
      BY <1>1, <1>2, <1>5
    <3>3. QED
      BY <1>3, <3>2
  <2>. HIDE DEF n
  <2>5. QED
    BY <2>2, <2>3, <2>4, SameSeq
<1>7. After(q, w, k).q - 1 = q - k + a - 1 /\ After(q, w, k).w = rest
  <2>1. After(q, w, k) = [q |-> q - k + a, w |-> rest]
    BY DEF After
  <2>2. After(q, w, k).q = q - k + a /\ After(q, w, k).w = rest
    <3>. HIDE DEF a, rest
    <3>1. QED
      BY <2>1
  <2>3. a \in Int
    BY <1>1, <1>2
  <2>. HIDE DEF a, rest
  <2>4. QED
    BY <2>2, <2>3
<1>8. SendOne(After(q, w, k)) = [q |-> q - k + a - 1 + m, w |-> SubSeq(rest, m + 1, Len(rest))]
  <2>. HIDE DEF a, rest
  <2>1. QED
    BY <1>7 DEF SendOne
<1>9. After(q, w, k + 1) = [q |-> q - (k + 1) + b, w |-> SubSeq(w, b + 1, n)]
  BY DEF After
<1>10. q - k + a - 1 + m = q - (k + 1) + b
  <2>. HIDE DEF a, b, m
  <2>1. QED
    BY <1>1, <1>2, <1>5
<1>11. QED
  <2>. HIDE DEF a, b, m, rest
  <2>1. QED
    BY <1>6, <1>8, <1>9, <1>10

LEMMA SentIs ==
  ASSUME NEW c, queue[c] \in Nat, waitq[c] \in Seq(Queue), NEW k \in Nat
  PROVE  Sent(c)[k] = After(queue[c], waitq[c], k)
<1>. DEFINE q == queue[c]
            w == waitq[c]
            F == [i \in Nat |-> After(q, w, i)]
<1>1. After(q, w, 0) = [q |-> q, w |-> w]
  <2>1. Room(q, Len(w), 0) = 0 /\ q - 0 + 0 = q
    BY DEF Room
  <2>2. SubSeq(w, 0 + 1, Len(w)) = w
    OBVIOUS
  <2>3. QED
    BY <2>1, <2>2 DEF After
<1>2. Sends(F, c)
  <2>1. ASSUME NEW i \in Nat
        PROVE  F[i] = IF i = 0 THEN [q |-> q, w |-> w] ELSE SendOne(F[i - 1])
    <3>1. CASE i = 0
      BY <1>1, <3>1
    <3>2. CASE i # 0
      <4>1. i - 1 \in Nat /\ (i - 1) + 1 = i
        BY <3>2
      <4>2. SendOne(After(q, w, i - 1)) = After(q, w, (i - 1) + 1)
        BY <4>1, SendOneMore
      <4>3. QED
        BY <3>2, <4>1, <4>2
    <3>3. QED
      BY <3>1, <3>2
  <2>2. QED
    BY <2>1 DEF Sends
<1>3. Sent(c) = CHOOSE f : Sends(f, c)
  BY DEF Sent, Sends, SendOne
<1>4. Sends(Sent(c), c)
  BY <1>2, <1>3
<1>. DEFINE S == {i \in Nat : Sent(c)[i] = After(q, w, i)}
<1>5. 0 \in S
  BY <1>1, <1>4 DEF Sends
<1>6. ASSUME NEW i \in Nat, i \in S
      PROVE  i + 1 \in S
  <2>1. Sent(c)[i + 1] = SendOne(Sent(c)[i])
    <3>1. i + 1 \in Nat /\ i + 1 # 0 /\ (i + 1) - 1 = i
      OBVIOUS
    <3>2. QED
      BY <1>4, <3>1 DEF Sends
  <2>2. SendOne(After(q, w, i)) = After(q, w, i + 1)
    BY SendOneMore
  <2>3. QED
    BY <1>6, <2>1, <2>2
<1>7. Nat \subseteq S
  <2>. HIDE DEF S
  <2>1. QED
    BY <1>5, <1>6, AllNaturals
<1>8. QED
  BY <1>7

(***************************************************************************)
(* The first m waiters of c are admitted by k messages that leave.         *)
(***************************************************************************)
First(c, m) == {waitq[c][i] : i \in 1 .. m}
Rest(c, m)  == SubSeq(waitq[c], m + 1, Len(waitq[c]))

LEMMA UnblockEffect ==
  ASSUME NEW c, queue[c] \in Nat, waitq[c] \in Seq(Queue), NEW k \in Nat, Unblock(c, k)
  PROVE  \E m \in 0 .. Len(waitq[c]) :
           /\ Unblocked(c, k) = First(c, m)
           /\ Sent(c)[k].w = Rest(c, m)
           /\ Sent(c)[k].q \in Nat
           /\ k = 0 => Sent(c)[k].q = queue[c]
           /\ k # 0 => queue[c] > 0
<1>. DEFINE q == queue[c]
            n == Len(waitq[c])
            m == Room(q, n, k)
<1>1. n \in Nat /\ LIMIT \in Nat /\ q \in Nat
  BY IoLoopAssumption
<1>2. m \in 0 .. n
  BY <1>1 DEF Room
<1>3. \A j \in Nat : Sent(c)[j].q = q - j + Room(q, n, j) /\ Sent(c)[j].w = Rest(c, Room(q, n, j))
  <2>1. \A j \in Nat : Sent(c)[j] = After(q, waitq[c], j)
    BY SentIs
  <2>2. \A j \in Nat : Room(q, n, j) \in Int
    BY <1>1 DEF Room
  <2>3. SUFFICES ASSUME NEW j \in Nat
                 PROVE  Sent(c)[j].q = q - j + Room(q, n, j) /\ Sent(c)[j].w = Rest(c, Room(q, n, j))
    OBVIOUS
  <2>4. Sent(c)[j] = [q |-> q - j + Room(q, n, j), w |-> Rest(c, Room(q, n, j))]
    BY <2>1 DEF After, Rest
  <2>5. QED
    BY <2>4
<1>4. \A j \in 0 .. k - 1 : Sent(c)[j].q > 0
  BY DEF Unblock
<1>5. Sent(c)[k].q \in Nat
  <2>1. CASE k = 0
    BY <1>1, <1>3, <2>1 DEF Room
  <2>2. CASE k # 0
    <3>1. k - 1 \in Nat /\ k - 1 \in 0 .. k - 1
      BY <2>2
    <3>2. q - (k - 1) + Room(q, n, k - 1) > 0
      BY <1>3, <1>4, <3>1
    <3>3. Room(q, n, k - 1) \in Nat /\ Room(q, n, k) \in Nat /\ Room(q, n, k - 1) <= Room(q, n, k)
      BY <1>1, <3>1, SMTT(30) DEF Room
    <3>4. q - k + Room(q, n, k) \in Nat
      BY <1>1, <3>2, <3>3
    <3>5. QED
      BY <1>3, <3>4
  <2>3. QED
    BY <2>1, <2>2
<1>6. k = 0 => Sent(c)[k].q = queue[c]
  BY <1>1, <1>3 DEF Room
<1>7. k # 0 => queue[c] > 0
  <2>1. SUFFICES ASSUME k # 0
                 PROVE  q > 0
    OBVIOUS
  <2>2. 0 \in 0 .. k - 1
    BY <2>1
  <2>3. Sent(c)[0].q = q
    BY <1>1, <1>3 DEF Room
  <2>4. QED
    BY <1>4, <2>2, <2>3
<1>8. Unblocked(c, k) = First(c, m)
  <2>1. Sent(c)[k].w = Rest(c, m)
    BY <1>3
  <2>2. Len(Rest(c, m)) = n - m
    BY <1>2, SubSeqFacts DEF Rest
  <2>3. n - (n - m) = m
    <3>. HIDE DEF m, n
    <3>1. QED
      BY <1>1, <1>2
  <2>4. QED
    BY <2>1, <2>2, <2>3 DEF Unblocked, First
<1>9. Sent(c)[k].w = Rest(c, m)
  BY <1>3
<1>. HIDE DEF m, n
<1>10. QED
  BY <1>2, <1>5, <1>6, <1>7, <1>8, <1>9 DEF n

-----------------------------------------------------------------------------
(***************************************************************************)
(* Types.                                                                  *)
(***************************************************************************)
LEMMA Descriptors ==
  /\ PIPE \notin Chan /\ LSOCK \notin Chan /\ LCHAN \notin Chan
  /\ PIPE # LSOCK /\ PIPE # LCHAN /\ LSOCK # LCHAN
  /\ Queue = Chan \cup {LCHAN}
<1>1. ASSUME NEW a, NEW b
      PROVE  Cardinality({a, b}) <= 2
  <2>1. IsFiniteSet({b}) /\ Cardinality({b}) = 1
    BY FS_Singleton
  <2>2. {b} \cup {a} = {a, b}
    OBVIOUS
  <2>3. Cardinality({a, b}) = IF a \in {b} THEN Cardinality({b}) ELSE Cardinality({b}) + 1
    BY <2>1, <2>2, FS_AddElement
  <2>4. QED
    BY <2>1, <2>3
<1>2. ASSUME NEW a, NEW b, NEW c, Cardinality({a, b, c}) = 3
      PROVE  a # b /\ a # c /\ b # c
  <2>1. ~(3 <= 2)
    OBVIOUS
  <2>2. (a = b => {a, b, c} = {b, c}) /\ (a = c => {a, b, c} = {b, c}) /\ (b = c => {a, b, c} = {a, c})
    OBVIOUS
  <2>3. QED
    BY <1>1, <1>2, <2>1, <2>2
<1>3. QED
  BY <1>2, IoLoopAssumption DEF Queue

LEMMA AdmitFacts ==
  ASSUME TypeOK, NEW D
  PROVE  /\ Admit(D) \in [Queue -> {"none", "SETUP", "ACTIVE", "BLOCKING", "destroyed"}]
         /\ \A c \in Queue : Admit(D)[c] = IF c \in D /\ state[c] = "BLOCKING" THEN "ACTIVE" ELSE state[c]
  BY DEF Admit, TypeOK

(***************************************************************************)
(* Destroyed or not, a channel that leaves is as if it had never been.     *)
(***************************************************************************)
LEMMA DeleteTypes ==
  ASSUME TypeOK, NEW c \in Chan, NEW D, ioman_delete_channel(c, D)
  PROVE  /\ channels' \subseteq {d \in Chan : state'[d] \in {"SETUP", "ACTIVE", "BLOCKING"}}
         /\ state' \in [Queue -> {"none", "SETUP", "ACTIVE", "BLOCKING", "destroyed"}]
         /\ queue' \in [Queue -> Nat] /\ waitq' \in [Chan -> Seq(Queue)]
         /\ valid' = FALSE
<1>. USE Descriptors
<1>1. channels' = channels \ {c} /\ valid' = FALSE
  BY DEF ioman_delete_channel, InvalidateCache
<1>2. /\ state' \in [Queue -> {"none", "SETUP", "ACTIVE", "BLOCKING", "destroyed"}]
      /\ \A d \in Queue \ {c} : state'[d] = state[d] \/ state'[d] = "ACTIVE"
  BY AdmitFacts DEF ioman_delete_channel
<1>3. channels' \subseteq {d \in Chan : state'[d] \in {"SETUP", "ACTIVE", "BLOCKING"}}
  BY <1>1, <1>2 DEF TypeOK
<1>4. queue' \in [Queue -> Nat] /\ waitq' \in [Chan -> Seq(Queue)]
  BY DEF ioman_delete_channel, TypeOK
<1>5. QED
  BY <1>1, <1>2, <1>3, <1>4

LEMMA ChunkTypes ==
  ASSUME TypeOK, NEW c \in Queue, NEW d \in Chan \ {c}, NEW taken \in {0, 1},
         queue[c] >= taken, channel_pipeline_chunk(c, d, taken)
  PROVE  /\ state' = [state EXCEPT ![c] = state'[c]] /\ state'[c] \in {"ACTIVE", "BLOCKING"}
         /\ state' \in [Queue -> {"none", "SETUP", "ACTIVE", "BLOCKING", "destroyed"}]
         /\ queue' \in [Queue -> Nat] /\ waitq' \in [Chan -> Seq(Queue)]
<1>. USE Descriptors
<1>1. /\ state \in [Queue -> {"none", "SETUP", "ACTIVE", "BLOCKING", "destroyed"}]
      /\ queue \in [Queue -> Nat] /\ waitq \in [Chan -> Seq(Queue)]
  BY DEF TypeOK
<1>2. CASE queue[d] < LIMIT
  <2>1. /\ queue' = [queue EXCEPT ![c] = @ - taken, ![d] = @ + 1]
        /\ state' = [state EXCEPT ![c] = "ACTIVE"]
        /\ waitq' = waitq
    BY <1>1, <1>2, IoLoopAssumption DEF channel_pipeline_chunk
  <2>2. queue[c] - taken \in Nat /\ queue[d] + 1 \in Nat
    BY <1>1
  <2>3. QED
    BY <1>1, <2>1, <2>2
<1>3. CASE ~(queue[d] < LIMIT)
  <2>1. /\ queue' = [queue EXCEPT ![c] = @ - taken]
        /\ state' = [state EXCEPT ![c] = "BLOCKING"]
        /\ waitq' = [waitq EXCEPT ![d] = Append(@, c)]
    BY <1>1, <1>3, IoLoopAssumption DEF channel_pipeline_chunk
  <2>2. queue[c] - taken \in Nat /\ Append(waitq[d], c) \in Seq(Queue)
    BY <1>1
  <2>3. QED
    BY <1>1, <2>1, <2>2
<1>4. QED
  BY <1>2, <1>3

LEMMA EventFacts ==
  /\ NewMsg \in Event /\ [kind |-> "FINALIZE"] \in Event /\ [kind |-> "BCASTMSG"] \in Event
  /\ \A c \in Opened : [kind |-> "NEWCHAN", chan |-> c] \in Event
  /\ \A e \in Event : e.kind = "NEWCHAN" => e.chan \in Opened
  /\ NewMsg.kind # "NEWCHAN"
  BY DEF NewMsg, Event

(***************************************************************************)
(* The steps, but for those of the I/O thread that serve one channel.      *)
(***************************************************************************)
LEMMA TypeSimple ==
  ASSUME TypeOK, TurnInv, PendingInv,
         \/ \E t \in Thread : PushLocal(t) \/ ioman_notify_newmsg(t)
         \/ \E c \in Opened : ioman_new_connection(c)
         \/ ioman_stop \/ ioman_set_fds \/ HandlePipe \/ Accept
         \/ ReadDone \/ WriteDone \/ ioman_finalize
         \/ \E R \in SUBSET fds.R, W \in SUBSET fds.W : Select(R, W)
  PROVE  TypeOK'
<1>. USE Descriptors, EventFacts
<1>1. ASSUME NEW t \in Thread, PushLocal(t)
      PROVE  TypeOK'
  <2>1. /\ queue' \in [Queue -> Nat] /\ app' \in [Thread -> {"send", "notify"}]
        /\ pushed' \in [Thread -> 0 .. Chunks]
    <3>1. pushed[t] + 1 \in 0 .. Chunks /\ queue[LCHAN] + 1 \in Nat
      BY <1>1, IoLoopAssumption DEF PushLocal, TypeOK
    <3>2. QED
      BY <1>1, <3>1 DEF PushLocal, TypeOK
  <2>2. QED
    BY <1>1, <2>1 DEF TypeOK, PushLocal
<1>2. ASSUME NEW t \in Thread, ioman_notify_newmsg(t)
      PROVE  TypeOK'
  BY <1>2 DEF TypeOK, ioman_notify_newmsg, netvars
<1>3. ASSUME NEW c \in Opened, ioman_new_connection(c)
      PROVE  TypeOK'
  BY <1>3 DEF TypeOK, ioman_new_connection, appvars, Chan
<1>4. CASE ioman_stop
  BY <1>4 DEF TypeOK, ioman_stop, netvars
<1>5. CASE ioman_set_fds
  BY <1>5 DEF TypeOK, ioman_set_fds, netvars, appvars, Fds, NeedR, NeedW, FdSets
<1>6. CASE HandlePipe
  <2>1. /\ valid' \in BOOLEAN /\ queue' \in [Queue -> Nat]
        /\ channels' \subseteq {d \in Chan : state[d] \in {"SETUP", "ACTIVE", "BLOCKING"}}
        /\ pipe' \in Seq(Event) /\ pc' \in {"accept", "exit"}
    <3>1. CASE ~EventReady
      BY <1>6, <3>1 DEF HandlePipe, TypeOK
    <3>2. CASE EventReady
      <4>1. pipe # <<>>
        BY <1>6, <3>2 DEF HandlePipe, TurnInv
      <4>2. /\ pipe \in Seq(Event) /\ pipe' = Tail(pipe) /\ pipe' \in Seq(Event)
            /\ Head(pipe) \in Event /\ Head(pipe) = pipe[1] /\ 1 \in 1 .. Len(pipe)
        <5>1. pipe' = Tail(pipe)
          BY <1>6, <3>2 DEF HandlePipe
        <5>2. pipe \in Seq(Event)
          BY DEF TypeOK
        <5>3. 1 \in 1 .. Len(pipe)
          BY <4>1, <5>2, TailFacts
        <5>4. QED
          BY <4>1, <5>1, <5>2, <5>3, TailFacts
      <4>3. CASE Head(pipe).kind = "NEWCHAN"
        <5>1. Head(pipe).chan \in Chan /\ Announces(1, Head(pipe).chan)
          BY <4>2, <4>3 DEF Announces, Chan
        <5>2. state[Head(pipe).chan] = "SETUP"
          BY <4>2, <5>1 DEF PendingInv
        <5>3. /\ channels' = channels \cup {Head(pipe).chan} /\ valid' = FALSE /\ queue' = queue
              /\ pc' = "accept"
          BY <1>6, <3>2, <4>3 DEF HandlePipe, ioman_handle_event_newchan, InvalidateCache
        <5>4. QED
          BY <4>2, <5>1, <5>2, <5>3 DEF TypeOK
      <4>4. CASE Head(pipe).kind = "BCASTMSG"
        <5>1. /\ channels' = channels /\ valid' = FALSE /\ pc' = "accept"
              /\ \E reg : queue' = [c \in Queue |-> IF c \in reg THEN queue[c] + 1 ELSE queue[c]]
          BY <1>6, <3>2, <4>4 DEF HandlePipe, ioman_handle_event_bcastmsg, InvalidateCache
        <5>2. queue' \in [Queue -> Nat]
          BY <5>1 DEF TypeOK
        <5>3. QED
          BY <4>2, <5>1, <5>2 DEF TypeOK
      <4>5. CASE Head(pipe).kind \notin {"NEWCHAN", "BCASTMSG"}
        BY <1>6, <3>2, <4>2, <4>5 DEF HandlePipe, ioman_handle_event_newmsg, InvalidateCache, TypeOK
      <4>6. QED
        BY <4>3, <4>4, <4>5
    <3>3. QED
      BY <3>1, <3>2
  <2>2. QED
    BY <1>6, <2>1 DEF TypeOK, HandlePipe, appvars
<1>7. CASE Accept
  <2>1. CASE LSOCK \notin fds.R
    BY <1>7, <2>1 DEF TypeOK, Accept, InvalidateCache, appvars
  <2>2. CASE LSOCK \in fds.R
    <3>1. PICK c \in opening \cap Accepted :
            channels' = channels \cup {c} /\ state' = [state EXCEPT ![c] = "ACTIVE"] /\ opening' = opening \ {c}
      BY <1>7, <2>2 DEF Accept
    <3>2. c \in Chan /\ opening' \subseteq Chan /\ valid' = FALSE
      BY <1>7, <2>2, <3>1 DEF Accept, InvalidateCache, TypeOK
    <3>3. /\ state' \in [Queue -> {"none", "SETUP", "ACTIVE", "BLOCKING", "destroyed"}]
          /\ state'[c] = "ACTIVE" /\ \A d \in Queue \ {c} : state'[d] = state[d]
      BY <3>1, <3>2 DEF TypeOK
    <3>4. channels' \subseteq {d \in Chan : state'[d] \in {"SETUP", "ACTIVE", "BLOCKING"}}
      BY <3>1, <3>2, <3>3 DEF TypeOK
    <3>5. QED
      BY <1>7, <3>2, <3>3, <3>4 DEF TypeOK, Accept, appvars
  <2>3. QED
    BY <2>1, <2>2
<1>8. CASE ReadDone
  BY <1>8 DEF TypeOK, ReadDone, netvars, appvars
<1>9. CASE WriteDone
  BY <1>9 DEF TypeOK, WriteDone, netvars, appvars
<1>10. CASE ioman_finalize
  <2>1. \A c \in Chan : <<>> \in Seq(Queue)
    OBVIOUS
  <2>2. waitq' \in [Chan -> Seq(Queue)] /\ queue' \in [Queue -> Nat]
    BY <1>10, <2>1 DEF TypeOK, ioman_finalize
  <2>3. state' \in [Queue -> {"none", "SETUP", "ACTIVE", "BLOCKING", "destroyed"}]
    BY <1>10 DEF TypeOK, ioman_finalize
  <2>4. QED
    BY <1>10, <2>2, <2>3 DEF TypeOK, ioman_finalize, appvars
<1>11. ASSUME NEW R \in SUBSET fds.R, NEW W \in SUBSET fds.W, Select(R, W)
       PROVE  TypeOK'
  BY <1>11 DEF TypeOK, Select, Fds, FdSets, netvars, appvars
<1>12. QED
  BY <1>1, <1>2, <1>3, <1>4, <1>5, <1>6, <1>7, <1>8, <1>9, <1>10, <1>11

LEMMA HopFacts ==
  ASSUME TypeOK, NEW c, NEW d \in NextHops(c)
  PROVE  d \in Chan \ {c} /\ d \in channels /\ state[d] \in {"ACTIVE", "BLOCKING"}
  BY DEF TypeOK, NextHops

LEMMA TypeLocal ==
  ASSUME TypeOK, TurnInv, LocalRead
  PROVE  TypeOK'
<1>. USE Descriptors
<1>1. todo' \subseteq Chan /\ pc' \in {"abort", "read"} /\ channels' = channels
  BY DEF LocalRead, TypeOK
<1>2. CASE LCHAN \notin fds.R \/ NextHops(LCHAN) = {}
  <2>1. UNCHANGED <<state, queue, waitq, valid>>
    BY <1>2 DEF LocalRead
  <2>2. QED
    BY <1>1, <2>1 DEF LocalRead, TypeOK, appvars
<1>3. CASE LCHAN \in fds.R /\ NextHops(LCHAN) # {}
  <2>1. PICK d \in NextHops(LCHAN) : channel_pipeline_chunk(LCHAN, d, 1)
    BY <1>3 DEF LocalRead
  <2>2. d \in Chan \ {LCHAN} /\ LCHAN \in Queue /\ valid' = FALSE /\ queue[LCHAN] >= 1
    <3>1. queue[LCHAN] > 0 /\ queue[LCHAN] \in Nat
      BY <1>3 DEF TurnInv, Reported, LocalRead, TypeOK
    <3>2. QED
      BY <1>3, <3>1, <2>1, HopFacts DEF LocalRead, InvalidateCache
  <2>3. /\ state' = [state EXCEPT ![LCHAN] = state'[LCHAN]] /\ state'[LCHAN] \in {"ACTIVE", "BLOCKING"}
        /\ state' \in [Queue -> {"none", "SETUP", "ACTIVE", "BLOCKING", "destroyed"}]
        /\ queue' \in [Queue -> Nat] /\ waitq' \in [Chan -> Seq(Queue)]
    BY <2>1, <2>2, ChunkTypes
  <2>4. channels' \subseteq {e \in Chan : state'[e] \in {"SETUP", "ACTIVE", "BLOCKING"}}
    BY <1>1, <2>3 DEF TypeOK
  <2>5. QED
    BY <1>1, <2>2, <2>3, <2>4 DEF LocalRead, TypeOK, appvars
<1>4. QED
  BY <1>2, <1>3

(***************************************************************************)
(* What reading from c does, and what writing to c does.                   *)
(***************************************************************************)
LEMMA ReadCases ==
  ASSUME NEW c, Read(c)
  PROVE  /\ pc' = pc /\ pc = "read" /\ c \in todo /\ todo' = todo \ {c}
         /\ UNCHANGED <<cache, fds, opening, app, pushed, stop>>
         /\ \/ UNCHANGED <<netvars, valid, pipe, own>>
            \/ ReadForward(c) \/ ReadPing(c) \/ ReadTable \/ ReadError(c)
  BY DEF Read, ReadPart, ReadOwn, appvars

LEMMA TypeRead ==
  ASSUME TypeOK, TurnInv, NEW c \in Chan, Read(c)
  PROVE  TypeOK'
<1>. USE Descriptors, EventFacts
<1>1. /\ pc' = pc /\ c \in Queue /\ todo' \subseteq Chan /\ inputs' \in 0 .. Inputs
      /\ UNCHANGED <<cache, fds, opening, app, pushed, stop>>
  <2>1. inputs' = inputs \/ (inputs > 0 /\ inputs' = inputs - 1)
    BY DEF Read, ReadPart
  <2>2. inputs' \in 0 .. Inputs
    BY <2>1, IoLoopAssumption DEF TypeOK
  <2>3. QED
    BY <2>2, ReadCases DEF TypeOK
<1>2. SUFFICES /\ valid' \in BOOLEAN /\ pipe' \in Seq(Event) /\ own' \in Nat
               /\ channels' \subseteq {d \in Chan : state'[d] \in {"SETUP", "ACTIVE", "BLOCKING"}}
               /\ state' \in [Queue -> {"none", "SETUP", "ACTIVE", "BLOCKING", "destroyed"}]
               /\ queue' \in [Queue -> Nat] /\ waitq' \in [Chan -> Seq(Queue)]
  BY <1>1 DEF TypeOK
<1>3. CASE UNCHANGED <<netvars, valid, pipe, own>>
  BY <1>3 DEF TypeOK, netvars
<1>4. CASE ReadForward(c)
  <2>1. PICK d \in NextHops(c) : channel_pipeline_chunk(c, d, 0)
    BY <1>4 DEF ReadForward
  <2>2. d \in Chan \ {c} /\ queue[c] >= 0
    BY <1>1, <2>1, HopFacts DEF TypeOK
  <2>3. /\ state' = [state EXCEPT ![c] = state'[c]] /\ state'[c] \in {"ACTIVE", "BLOCKING"}
        /\ state' \in [Queue -> {"none", "SETUP", "ACTIVE", "BLOCKING", "destroyed"}]
        /\ queue' \in [Queue -> Nat] /\ waitq' \in [Chan -> Seq(Queue)]
    BY <1>1, <2>1, <2>2, ChunkTypes
  <2>4. channels' = channels /\ pipe' = pipe /\ own' = own /\ valid' = FALSE
    BY <1>4 DEF ReadForward, InvalidateCache
  <2>5. channels' \subseteq {e \in Chan : state'[e] \in {"SETUP", "ACTIVE", "BLOCKING"}}
    BY <2>3, <2>4 DEF TypeOK
  <2>6. QED
    BY <2>3, <2>4, <2>5 DEF TypeOK
<1>5. CASE ReadPing(c)
  BY <1>1, <1>5, AppendFacts DEF ReadPing, TypeOK
<1>6. CASE ReadTable
  BY <1>6, AppendFacts DEF ReadTable, TypeOK, netvars
<1>7. CASE ReadError(c)
  BY <1>7, DeleteTypes DEF ReadError, TypeOK
<1>8. QED
  BY <1>3, <1>4, <1>5, <1>6, <1>7, ReadCases

LEMMA WriteCases ==
  ASSUME TypeOK, NEW c \in Chan, Write(c)
  PROVE  /\ pc = "write" /\ c \in todo /\ todo' = todo \ {c}
         /\ UNCHANGED <<cache, fds, pipe, opening, app, pushed, stop, inputs, own>>
         /\ \/ /\ state[c] = "SETUP" /\ pc' = pc
               /\ state' = [state EXCEPT ![c] = "ACTIVE"]
               /\ queue' = [queue EXCEPT ![c] = @ + 1]
               /\ valid' = FALSE /\ UNCHANGED <<channels, waitq>>
            \/ /\ state[c] = "SETUP" /\ pc' = pc
               /\ ioman_delete_channel(c, {})
            \/ \E m \in 0 .. Len(waitq[c]) :
                 /\ state[c] # "SETUP"
                 /\ pc' = IF \E d \in First(c, m) : state[d] = "destroyed" THEN "assert" ELSE pc
                 /\ \/ /\ queue' = [queue EXCEPT ![c] = queue'[c]]
                       /\ queue'[c] \in Nat /\ (queue'[c] > 0 => queue[c] > 0)
                       /\ waitq' = [waitq EXCEPT ![c] = Rest(c, m)]
                       /\ state' = Admit(First(c, m))
                       /\ valid' => valid /\ First(c, m) = {}
                       /\ channels' = channels
                    \/ "write" \in Faults /\ ioman_delete_channel(c, First(c, m))
<1>. USE Descriptors
<1>1. queue[c] \in Nat /\ waitq[c] \in Seq(Queue) /\ Len(waitq[c]) \in Nat
  BY DEF TypeOK
<1>2. CASE WriteSetup(c)
  BY <1>2 DEF WriteSetup, Write, InvalidateCache, appvars
<1>3. CASE WriteQueue(c)
  <2>1. PICK k \in 0 .. queue[c] + Len(waitq[c]) :
          /\ Unblock(c, k)
          /\ queue' = [queue EXCEPT ![c] = Sent(c)[k].q]
          /\ waitq' = [waitq EXCEPT ![c] = Sent(c)[k].w]
          /\ state' = Admit(Unblocked(c, k))
          /\ WriteCache(Sent(c)[k].q, Unblocked(c, k) # {})
    BY <1>3 DEF WriteQueue
  <2>2. k \in Nat
    BY <1>1, <2>1
  <2>3. PICK m \in 0 .. Len(waitq[c]) :
          /\ Unblocked(c, k) = First(c, m)
          /\ Sent(c)[k].w = Rest(c, m)
          /\ Sent(c)[k].q \in Nat
          /\ k = 0 => Sent(c)[k].q = queue[c]
          /\ k # 0 => queue[c] > 0
    BY <1>1, <2>1, <2>2, UnblockEffect
  <2>4. queue'[c] = Sent(c)[k].q
    BY <2>1 DEF TypeOK
  <2>5. queue' = [queue EXCEPT ![c] = queue'[c]] /\ queue'[c] \in Nat /\ (queue'[c] > 0 => queue[c] > 0)
    BY <2>1, <2>3, <2>4
  <2>6. pc' = IF \E d \in First(c, m) : state[d] = "destroyed" THEN "assert" ELSE pc
    BY <2>1, <2>3 DEF Unblock
  <2>7. valid' => valid /\ First(c, m) = {}
    BY <2>1, <2>3 DEF WriteCache
  <2>8. state[c] # "SETUP" /\ channels' = channels
    BY <1>3 DEF WriteQueue
  <2>9. waitq' = [waitq EXCEPT ![c] = Rest(c, m)] /\ state' = Admit(First(c, m))
    BY <2>1, <2>3
  <2>10. QED
    BY <2>5, <2>6, <2>7, <2>8, <2>9 DEF Write, appvars
<1>4. CASE WriteError(c)
  <2>1. PICK k \in 0 .. queue[c] + Len(waitq[c]) :
          Unblock(c, k) /\ ioman_delete_channel(c, Unblocked(c, k))
    BY <1>4 DEF WriteError
  <2>2. k \in Nat
    BY <1>1, <2>1
  <2>3. PICK m \in 0 .. Len(waitq[c]) : Unblocked(c, k) = First(c, m)
    BY <1>1, <2>1, <2>2, UnblockEffect
  <2>4. pc' = IF \E d \in First(c, m) : state[d] = "destroyed" THEN "assert" ELSE pc
    BY <2>1, <2>3 DEF Unblock
  <2>5. state[c] # "SETUP" /\ "write" \in Faults /\ ioman_delete_channel(c, First(c, m))
    BY <1>4, <2>1, <2>3 DEF WriteError
  <2>6. QED
    BY <2>4, <2>5 DEF Write, appvars
<1>5. QED
  BY <1>2, <1>3, <1>4 DEF Write

LEMMA TypeWrite ==
  ASSUME TypeOK, NEW c \in Chan, Write(c)
  PROVE  TypeOK'
<1>. USE Descriptors
<1>1. /\ c \in Queue /\ todo' \subseteq Chan
      /\ UNCHANGED <<cache, fds, pipe, opening, app, pushed, stop, inputs, own>>
  BY WriteCases DEF TypeOK
<1>2. SUFFICES /\ valid' \in BOOLEAN /\ pc' \in {"write", "assert"}
               /\ channels' \subseteq {d \in Chan : state'[d] \in {"SETUP", "ACTIVE", "BLOCKING"}}
               /\ state' \in [Queue -> {"none", "SETUP", "ACTIVE", "BLOCKING", "destroyed"}]
               /\ queue' \in [Queue -> Nat] /\ waitq' \in [Chan -> Seq(Queue)]
  BY <1>1 DEF TypeOK
<1>3. pc' \in {"write", "assert"}
  BY WriteCases
<1>4. CASE \E D : ioman_delete_channel(c, D)
  BY <1>3, <1>4, DeleteTypes
<1>5. CASE /\ state' = [state EXCEPT ![c] = "ACTIVE"]
           /\ queue' = [queue EXCEPT ![c] = @ + 1]
           /\ valid' = FALSE /\ UNCHANGED <<channels, waitq>>
  <2>0. queue \in [Queue -> Nat] /\ queue[c] + 1 \in Nat
    BY <1>1 DEF TypeOK
  <2>1. queue' \in [Queue -> Nat] /\ waitq' \in [Chan -> Seq(Queue)] /\ valid' \in BOOLEAN
    BY <1>1, <1>5, <2>0 DEF TypeOK
  <2>2. /\ state' \in [Queue -> {"none", "SETUP", "ACTIVE", "BLOCKING", "destroyed"}]
        /\ \A d \in Queue : state'[d] = state[d] \/ state'[d] = "ACTIVE"
    BY <1>1, <1>5 DEF TypeOK
  <2>3. QED
    BY <1>3, <1>5, <2>1, <2>2 DEF TypeOK
<1>6. ASSUME NEW m \in 0 .. Len(waitq[c]), queue' = [queue EXCEPT ![c] = queue'[c]], queue'[c] \in Nat,
             waitq' = [waitq EXCEPT ![c] = Rest(c, m)], state' = Admit(First(c, m)),
             valid' => valid, channels' = channels
      PROVE  /\ channels' \subseteq {d \in Chan : state'[d] \in {"SETUP", "ACTIVE", "BLOCKING"}}
             /\ state' \in [Queue -> {"none", "SETUP", "ACTIVE", "BLOCKING", "destroyed"}]
             /\ queue' \in [Queue -> Nat] /\ waitq' \in [Chan -> Seq(Queue)]
  <2>1. Rest(c, m) \in Seq(Queue)
    BY SubSeqFacts DEF Rest, TypeOK
  <2>2. waitq' \in [Chan -> Seq(Queue)] /\ queue' \in [Queue -> Nat]
    BY <1>6, <2>1 DEF TypeOK
  <2>3. /\ state' \in [Queue -> {"none", "SETUP", "ACTIVE", "BLOCKING", "destroyed"}]
        /\ \A d \in Queue : state'[d] = state[d] \/ state'[d] = "ACTIVE"
    BY <1>6, AdmitFacts
  <2>4. QED
    BY <1>6, <2>2, <2>3 DEF TypeOK
<1>7. valid' \in BOOLEAN
  BY DEF Write, WriteSetup, WriteQueue, WriteError, WriteCache, InvalidateCache, ioman_delete_channel
<1>8. QED
  BY <1>3, <1>4, <1>5, <1>6, <1>7, WriteCases

-----------------------------------------------------------------------------
(***************************************************************************)
(* Channels that the I/O thread does not know yet.                         *)
(***************************************************************************)
LEMMA PendingKept ==
  ASSUME TypeOK, PendingInv, opening' \subseteq opening,
         pipe' = pipe \/ (\E e \in Event : e.kind # "NEWCHAN" /\ pipe' = Append(pipe, e)),
         \A c \in Chan : c \in channels' => c \in channels \/ (c \in opening /\ c \notin opening'),
         \A c \in Chan : state'[c] # state[c] =>
           c \in channels \/ (c \in opening /\ c \notin opening') \/ state[c] = "BLOCKING"
  PROVE  PendingInv'
<1>1. opening \subseteq Chan /\ pipe \in Seq(Event) /\ Len(pipe) \in Nat
  BY DEF TypeOK
<1>2. ASSUME NEW i \in 1 .. Len(pipe'), NEW c \in Chan, Announces(i, c)'
      PROVE  i \in 1 .. Len(pipe) /\ Announces(i, c)
  <2>1. CASE pipe' = pipe
    BY <1>2, <2>1 DEF Announces
  <2>2. CASE pipe' # pipe
    <3>1. PICK e \in Event : e.kind # "NEWCHAN" /\ pipe' = Append(pipe, e)
      BY <2>2
    <3>2. i = Len(pipe) + 1 \/ i \in 1 .. Len(pipe)
      BY <1>1, <1>2, <3>1, AppendFacts
    <3>3. i # Len(pipe) + 1
      BY <1>1, <1>2, <3>1, AppendFacts DEF Announces
    <3>4. QED
      BY <1>1, <1>2, <3>1, <3>2, <3>3, AppendFacts DEF Announces
  <2>3. QED
    BY <2>1, <2>2
<1>3. \A c \in opening' : state'[c] = "none"
  <2>1. SUFFICES ASSUME NEW c \in opening'
                 PROVE  state'[c] = "none"
    OBVIOUS
  <2>2. c \in Chan /\ state[c] = "none" /\ c \notin channels
    BY <1>1, <2>1 DEF PendingInv, TypeOK
  <2>3. QED
    BY <2>1, <2>2
<1>4. ASSUME NEW i \in 1 .. Len(pipe'), NEW c \in Chan, Announces(i, c)'
      PROVE  state'[c] = "SETUP" /\ c \notin channels'
  <2>1. state[c] = "SETUP" /\ c \notin channels
    BY <1>2, <1>4 DEF PendingInv
  <2>2. c \notin opening
    BY <2>1 DEF PendingInv
  <2>3. QED
    BY <2>1, <2>2
<1>5. ASSUME NEW i \in 1 .. Len(pipe'), NEW j \in 1 .. Len(pipe'), NEW c \in Chan,
             Announces(i, c)', Announces(j, c)'
      PROVE  i = j
  BY <1>2, <1>5 DEF PendingInv
<1>6. QED
  BY <1>3, <1>4, <1>5 DEF PendingInv

LEMMA PendingNew ==
  ASSUME TypeOK, PendingInv, NEW d \in Opened, ioman_new_connection(d)
  PROVE  PendingInv'
<1>. DEFINE e == [kind |-> "NEWCHAN", chan |-> d]
<1>. USE Descriptors, EventFacts
<1>1. /\ pipe \in Seq(Event) /\ Len(pipe) \in Nat /\ e \in Event /\ e.chan = d /\ d \in Chan
      /\ pipe' = Append(pipe, e)
  BY DEF TypeOK, Chan, ioman_new_connection
<1>2. /\ d \in opening /\ opening' = opening \ {d} /\ channels' = channels
      /\ state'[d] = "SETUP" /\ \A c \in Chan \ {d} : state'[c] = state[c]
  BY <1>1 DEF ioman_new_connection, TypeOK
<1>3. state[d] = "none" /\ d \notin channels
  BY <1>1, <1>2 DEF PendingInv, TypeOK
<1>4. ASSUME NEW i \in 1 .. Len(pipe'), NEW c \in Chan, Announces(i, c)'
      PROVE  (i = Len(pipe) + 1 /\ c = d) \/ (i \in 1 .. Len(pipe) /\ Announces(i, c) /\ c # d)
  <2>1. i = Len(pipe) + 1 \/ i \in 1 .. Len(pipe)
    BY <1>1, <1>4, AppendFacts
  <2>2. i = Len(pipe) + 1 => c = d
    <3>. HIDE DEF e
    <3>1. QED
      BY <1>1, <1>4, AppendFacts DEF Announces
  <2>3. i \in 1 .. Len(pipe) => Announces(i, c)
    <3>. HIDE DEF e
    <3>1. QED
      BY <1>1, <1>4, AppendFacts DEF Announces
  <2>4. i \in 1 .. Len(pipe) /\ Announces(i, c) => c # d
    BY <1>1, <1>3 DEF PendingInv
  <2>5. QED
    BY <2>1, <2>2, <2>3, <2>4
<1>5. \A c \in opening' : state'[c] = "none"
  BY <1>2 DEF PendingInv, TypeOK
<1>6. ASSUME NEW i \in 1 .. Len(pipe'), NEW c \in Chan, Announces(i, c)'
      PROVE  state'[c] = "SETUP" /\ c \notin channels'
  BY <1>2, <1>3, <1>4, <1>6 DEF PendingInv
<1>7. ASSUME NEW i \in 1 .. Len(pipe'), NEW j \in 1 .. Len(pipe'), NEW c \in Chan,
             Announces(i, c)', Announces(j, c)'
      PROVE  i = j
  BY <1>4, <1>7 DEF PendingInv
<1>8. QED
  BY <1>5, <1>6, <1>7 DEF PendingInv

(***************************************************************************)
(* The event of a channel makes it known, once.                            *)
(***************************************************************************)
LEMMA PendingPipe ==
  ASSUME TypeOK, TurnInv, PendingInv, HandlePipe
  PROVE  PendingInv'
<1>1. state' = state /\ opening' = opening
  BY DEF HandlePipe
<1>2. CASE ~EventReady
  BY <1>1, <1>2, PendingKept DEF HandlePipe
<1>3. CASE EventReady
  <2>1. pipe # <<>> /\ pipe \in Seq(Event)
    BY <1>3 DEF HandlePipe, TurnInv, TypeOK
  <2>2. pipe' = Tail(pipe)
    BY <1>3 DEF HandlePipe
  <2>3. /\ Len(pipe) \in Nat \ {0} /\ Len(pipe') = Len(pipe) - 1 /\ Head(pipe) = pipe[1]
        /\ \A i \in 1 .. Len(pipe) - 1 : pipe'[i] = pipe[i + 1]
    BY <2>1, <2>2, TailFacts
  <2>4. ASSUME NEW i \in 1 .. Len(pipe'), NEW c \in Chan, Announces(i, c)'
        PROVE  i + 1 \in 1 .. Len(pipe) /\ Announces(i + 1, c) /\ i + 1 # 1
    BY <2>3, <2>4 DEF Announces
  <2>5. ASSUME NEW c \in Chan, c \in channels', c \notin channels
        PROVE  Announces(1, c)
    BY <1>3, <2>3, <2>5 DEF HandlePipe, ioman_handle_event_newchan, ioman_handle_event_newmsg,
                            ioman_handle_event_bcastmsg, Announces
  <2>6. ASSUME NEW i \in 1 .. Len(pipe'), NEW c \in Chan, Announces(i, c)'
        PROVE  state'[c] = "SETUP" /\ c \notin channels'
    <3>1. i + 1 \in 1 .. Len(pipe) /\ Announces(i + 1, c) /\ i + 1 # 1 /\ 1 \in 1 .. Len(pipe)
      BY <2>3, <2>4, <2>6
    <3>2. state[c] = "SETUP" /\ c \notin channels
      BY <3>1 DEF PendingInv
    <3>3. ~Announces(1, c)
      BY <3>1 DEF PendingInv
    <3>4. QED
      BY <1>1, <2>5, <3>2, <3>3
  <2>7. ASSUME NEW i \in 1 .. Len(pipe'), NEW j \in 1 .. Len(pipe'), NEW c \in Chan,
               Announces(i, c)', Announces(j, c)'
        PROVE  i = j
    <3>1. i + 1 = j + 1
      BY <2>4, <2>7 DEF PendingInv
    <3>2. QED
      BY <2>3, <3>1
  <2>8. QED
    BY <1>1, <2>6, <2>7 DEF PendingInv
<1>4. QED
  BY <1>2, <1>3

LEMMA PendingStep ==
  ASSUME TypeOK, TurnInv, PendingInv, Next
  PROVE  PendingInv'
<1>. USE Descriptors, EventFacts
<1>1. ASSUME NEW t \in Thread, PushLocal(t) \/ ioman_notify_newmsg(t)
      PROVE  PendingInv'
  BY <1>1, PendingKept DEF PushLocal, ioman_notify_newmsg, netvars
<1>2. ASSUME NEW c \in Opened, ioman_new_connection(c)
      PROVE  PendingInv'
  BY <1>2, PendingNew
<1>3. CASE ioman_stop
  BY <1>3, PendingKept DEF ioman_stop, netvars
<1>4. CASE ioman_set_fds \/ ReadDone \/ WriteDone
  BY <1>4, PendingKept DEF ioman_set_fds, ReadDone, WriteDone, netvars
<1>5. CASE HandlePipe
  BY <1>5, PendingPipe
<1>6. CASE Accept
  <2>1. pipe' = pipe
    BY <1>6 DEF Accept
  <2>2. CASE LSOCK \notin fds.R
    BY <1>6, <2>1, <2>2, PendingKept DEF Accept
  <2>3. CASE LSOCK \in fds.R
    <3>1. PICK c \in opening \cap Accepted :
            channels' = channels \cup {c} /\ state' = [state EXCEPT ![c] = "ACTIVE"] /\ opening' = opening \ {c}
      BY <1>6, <2>3 DEF Accept
    <3>2. \A d \in Chan \ {c} : state'[d] = state[d]
      BY <3>1 DEF TypeOK
    <3>3. QED
      BY <2>1, <3>1, <3>2, PendingKept
  <2>4. QED
    BY <2>2, <2>3
<1>7. CASE LocalRead
  <2>1. \A d \in Chan : state'[d] = state[d]
    <3>1. CASE state' = state
      BY <3>1
    <3>2. CASE state' # state
      BY <1>7, <3>2 DEF LocalRead, channel_pipeline_chunk, TypeOK
    <3>3. QED
      BY <3>1, <3>2
  <2>2. QED
    BY <1>7, <2>1, PendingKept DEF LocalRead
<1>8. CASE ioman_finalize
  <2>1. \A d \in Chan : state'[d] # state[d] => d \in channels
    BY <1>8 DEF ioman_finalize
  <2>2. QED
    BY <1>8, <2>1, PendingKept DEF ioman_finalize
<1>9. ASSUME NEW R \in SUBSET fds.R, NEW W \in SUBSET fds.W, Select(R, W)
      PROVE  PendingInv'
  BY <1>9, PendingKept DEF Select, netvars
<1>10. ASSUME NEW c \in Chan, c \in channels, NEW D, ioman_delete_channel(c, D), opening' = opening,
              pipe' = pipe
       PROVE  PendingInv'
  <2>1. \A d \in Chan : state'[d] # state[d] => d = c \/ state[d] = "BLOCKING"
    BY <1>10, AdmitFacts DEF ioman_delete_channel
  <2>2. QED
    BY <1>10, <2>1, PendingKept DEF ioman_delete_channel
<1>11. ASSUME NEW c \in Chan, Read(c)
       PROVE  PendingInv'
  <2>1. c \in channels /\ opening' = opening
    BY <1>11, ReadCases DEF TurnInv
  <2>2. CASE UNCHANGED <<netvars, valid, pipe, own>>
    BY <2>1, <2>2, PendingKept DEF netvars
  <2>3. CASE ReadForward(c)
    <3>1. pipe' = pipe /\ channels' = channels
      BY <2>3 DEF ReadForward
    <3>2. \A d \in Chan \ {c} : state'[d] = state[d]
      BY <2>3 DEF ReadForward, channel_pipeline_chunk, TypeOK
    <3>3. QED
      BY <2>1, <3>1, <3>2, PendingKept
  <2>4. CASE ReadPing(c) \/ ReadTable
    <3>1. state' = state /\ channels' = channels
      BY <2>4 DEF ReadPing, ReadTable, netvars
    <3>2. pipe' = Append(pipe, NewMsg) \/ pipe' = Append(pipe, [kind |-> "BCASTMSG"])
      BY <2>4 DEF ReadPing, ReadTable
    <3>3. \E e \in Event : e.kind # "NEWCHAN" /\ pipe' = Append(pipe, e)
      BY <3>2
    <3>4. QED
      BY <2>1, <3>1, <3>3, PendingKept
  <2>5. CASE ReadError(c)
    BY <1>10, <2>1, <2>5 DEF ReadError
  <2>6. QED
    BY <1>11, <2>2, <2>3, <2>4, <2>5, ReadCases
<1>12. ASSUME NEW c \in Chan, Write(c)
       PROVE  PendingInv'
  <2>1. c \in channels /\ opening' = opening /\ pipe' = pipe
    BY <1>12, WriteCases DEF TurnInv
  <2>2. CASE \E D : ioman_delete_channel(c, D)
    BY <1>10, <2>1, <2>2
  <2>3. CASE state' = [state EXCEPT ![c] = "ACTIVE"] /\ channels' = channels
    <3>1. \A d \in Chan \ {c} : state'[d] = state[d]
      BY <2>3 DEF TypeOK
    <3>2. QED
      BY <2>1, <2>3, <3>1, PendingKept
  <2>4. CASE (\E D : state' = Admit(D)) /\ channels' = channels
    <3>1. \A d \in Chan : state'[d] # state[d] => state[d] = "BLOCKING"
      BY <2>4, AdmitFacts
    <3>2. QED
      BY <2>1, <2>4, <3>1, PendingKept
  <2>5. QED
    BY <1>12, <2>2, <2>3, <2>4, WriteCases
<1>13. QED
  BY <1>1, <1>2, <1>3, <1>4, <1>5, <1>6, <1>7, <1>8, <1>9, <1>11, <1>12 DEF Next, IoThread

-----------------------------------------------------------------------------
(***************************************************************************)
(* What select() has reported is still so when it is served.               *)
(***************************************************************************)
LEMMA TurnApp ==
  ASSUME TypeOK, TurnInv, UNCHANGED <<pc, fds, todo, channels>>,
         queue'[LCHAN] \in Nat, queue'[LCHAN] >= queue[LCHAN], pipe' = pipe \/ pipe' # <<>>,
         \A c \in Queue : state[c] = "ACTIVE" => state'[c] = "ACTIVE"
  PROVE  TurnInv'
<1>. USE Descriptors
<1>1. queue[LCHAN] \in Nat /\ todo \subseteq Queue
  BY DEF TypeOK
<1>2. QED
  BY <1>1 DEF TurnInv, Reported, EventReady

LEMMA TurnStep ==
  ASSUME TypeOK, TypeOK', CacheInv, TurnInv, PendingInv, Next
  PROVE  TurnInv'
<1>. USE Descriptors
<1>0. queue \in [Queue -> Nat] /\ queue[LCHAN] \in Nat /\ queue'[LCHAN] \in Nat /\ todo \subseteq Chan /\ channels \subseteq Chan
  BY DEF TypeOK
<1>1. ASSUME NEW t \in Thread, PushLocal(t)
      PROVE  TurnInv'
  <2>1. queue'[LCHAN] = queue[LCHAN] + 1 /\ state' = state /\ pipe' = pipe
    BY <1>0, <1>1 DEF PushLocal
  <2>2. QED
    BY <1>0, <1>1, <2>1, TurnApp DEF PushLocal
<1>2. ASSUME NEW t \in Thread, ioman_notify_newmsg(t)
      PROVE  TurnInv'
  <2>1. pipe' # <<>>
    BY <1>2, EventFacts, AppendFacts DEF ioman_notify_newmsg, TypeOK
  <2>2. QED
    BY <1>0, <1>2, <2>1, TurnApp DEF ioman_notify_newmsg, netvars
<1>3. ASSUME NEW c \in Opened, ioman_new_connection(c)
      PROVE  TurnInv'
  <2>1. pipe' # <<>>
    BY <1>3, EventFacts, AppendFacts DEF ioman_new_connection, TypeOK
  <2>2. state[c] = "none" /\ \A d \in Queue \ {c} : state'[d] = state[d]
    BY <1>3 DEF ioman_new_connection, TypeOK, PendingInv
  <2>3. \A d \in Queue : state[d] = "ACTIVE" => state'[d] = "ACTIVE"
    BY <2>2
  <2>4. UNCHANGED <<pc, fds, todo, channels, queue>>
    BY <1>3 DEF ioman_new_connection
  <2>5. QED
    BY <1>0, <2>1, <2>3, <2>4, TurnApp
<1>4. CASE ioman_stop
  <2>1. pipe' # <<>>
    BY <1>4, EventFacts, AppendFacts DEF ioman_stop, TypeOK
  <2>2. QED
    BY <1>0, <1>4, <2>1, TurnApp DEF ioman_stop, netvars
<1>5. CASE ioman_set_fds
  BY <1>5 DEF ioman_set_fds, TurnInv, Reported
<1>6. ASSUME NEW R \in SUBSET fds.R, NEW W \in SUBSET fds.W, Select(R, W)
      PROVE  TurnInv'
  <2>1. /\ pc' = "event" /\ fds'.R = R /\ R \subseteq fds.R \cap (MustBeReady \cup MayBeReady)
        /\ UNCHANGED <<state, queue, pipe>>
    BY <1>6 DEF Select, Fds, netvars
  <2>2. \A c \in Queue : c \in R => state[c] = "ACTIVE"
    BY <1>6, <2>1 DEF Select, CacheInv, OpenSets
  <2>3. LCHAN \in R => queue[LCHAN] > 0
    BY <2>1 DEF MustBeReady, MayBeReady
  <2>4. PIPE \in R => pipe # <<>>
    BY <2>1 DEF MustBeReady, MayBeReady
  <2>5. QED
    BY <2>1, <2>2, <2>3, <2>4 DEF TurnInv, EventReady
<1>7. CASE HandlePipe
  <2>1. pc = "event" /\ fds' = fds /\ state' = state /\ pc' \in {"accept", "exit"}
    BY <1>7 DEF HandlePipe
  <2>2. queue'[LCHAN] = queue[LCHAN]
    <3>1. CASE queue' = queue
      BY <3>1
    <3>2. CASE ioman_handle_event_bcastmsg
      BY <1>0, <3>2 DEF ioman_handle_event_bcastmsg
    <3>3. QED
      BY <1>7, <3>1, <3>2 DEF HandlePipe, ioman_handle_event_newchan, ioman_handle_event_newmsg
  <2>3. QED
    BY <2>1, <2>2 DEF TurnInv, Reported
<1>8. CASE Accept
  <2>1. pc = "accept" /\ pc' = "local" /\ fds' = fds /\ queue' = queue
    BY <1>8 DEF Accept
  <2>2. \A c \in Queue : state'[c] = state[c] \/ state'[c] = "ACTIVE"
    BY <1>8 DEF Accept, TypeOK
  <2>3. QED
    BY <2>1, <2>2 DEF TurnInv, Reported
<1>9. CASE LocalRead
  <2>1. pc = "local" /\ todo' = fds.R \cap channels /\ channels' = channels /\ pc' \in {"abort", "read"}
    BY <1>9 DEF LocalRead
  <2>2. \A d \in Chan : state'[d] = state[d]
    BY <1>9 DEF LocalRead, channel_pipeline_chunk, TypeOK
  <2>3. QED
    BY <1>0, <2>1, <2>2 DEF TurnInv, Reported
<1>10. CASE ReadDone
  <2>1. pc' = "write" /\ todo' \subseteq channels /\ channels' = channels
    BY <1>10 DEF ReadDone, netvars
  <2>2. QED
    BY <2>1 DEF TurnInv, Reported
<1>11. CASE WriteDone
  BY <1>11 DEF WriteDone, TurnInv, Reported
<1>12. CASE ioman_finalize
  BY <1>12 DEF ioman_finalize, TurnInv, Reported
<1>13. ASSUME NEW c \in Chan, Read(c)
       PROVE  TurnInv'
  <2>1. pc = "read" /\ pc' = "read" /\ c \in todo /\ todo' = todo \ {c} /\ todo \subseteq channels
    BY <1>13, ReadCases DEF TurnInv
  <2>2. channels \ {c} \subseteq channels'
    BY <1>13, ReadCases DEF netvars, ReadForward, ReadPing, ReadTable, ReadError, ioman_delete_channel
  <2>3. \A d \in Chan \ {c} : state[d] = "ACTIVE" => state'[d] = "ACTIVE"
    <3>1. CASE UNCHANGED <<netvars, valid, pipe, own>> \/ ReadPing(c) \/ ReadTable
      BY <3>1 DEF netvars, ReadPing, ReadTable
    <3>2. CASE ReadForward(c)
      BY <3>2 DEF ReadForward, channel_pipeline_chunk, TypeOK
    <3>3. CASE ReadError(c)
      BY <3>3, AdmitFacts DEF ReadError, ioman_delete_channel
    <3>4. QED
      BY <1>13, <3>1, <3>2, <3>3, ReadCases
  <2>4. QED
    BY <1>0, <2>1, <2>2, <2>3 DEF TurnInv, Reported
<1>14. ASSUME NEW c \in Chan, Write(c)
       PROVE  TurnInv'
  <2>1. pc = "write" /\ c \in todo /\ todo' = todo \ {c} /\ todo \subseteq channels
    BY <1>14, WriteCases DEF TurnInv
  <2>2. pc' \in {"write", "assert"}
    BY <1>14, WriteCases
  <2>3. channels \ {c} \subseteq channels'
    BY <1>14, WriteCases DEF ioman_delete_channel
  <2>4. QED
    BY <2>1, <2>2, <2>3 DEF TurnInv, Reported
<1>15. QED
  BY <1>1, <1>2, <1>3, <1>4, <1>5, <1>6, <1>7, <1>8, <1>9, <1>10, <1>11, <1>12, <1>13, <1>14
  DEF Next, IoThread

-----------------------------------------------------------------------------
(***************************************************************************)
(* The cached sets.                                                        *)
(***************************************************************************)
LEMMA CacheGone ==
  ASSUME ~valid', pc' # "select"
  PROVE  CacheInv'
  BY DEF CacheInv

LEMMA CacheKept ==
  ASSUME CacheInv, cache' = cache, valid' => valid, pc' # "exit" => pc # "exit",
         pc' = "select" => pc = "select" /\ valid' = valid /\ fds' = fds,
         channels \subseteq channels',
         \A c \in Queue : state[c] = "ACTIVE" => state'[c] = "ACTIVE",
         pc' # "exit" =>
           \/ pipe' # <<>>
           \/ pipe' = pipe /\ NeedR' \subseteq NeedR /\ NeedW' \subseteq NeedW
  PROVE  CacheInv'
<1>1. valid' => OpenSets(cache)'
  BY DEF CacheInv, OpenSets
<1>2. valid' /\ pc' # "exit" => Serves(cache)' \/ pipe' # <<>>
  BY DEF CacheInv, Serves
<1>3. pc' = "select" => valid' /\ fds' = cache'
  BY DEF CacheInv
<1>4. QED
  BY <1>1, <1>2, <1>3 DEF CacheInv

LEMMA CacheSame ==
  ASSUME CacheInv, UNCHANGED <<cache, channels, state, queue, pipe>>, valid' => valid,
         pc' # "exit" => pc # "exit",
         pc' = "select" => pc = "select" /\ valid' = valid /\ fds' = fds
  PROVE  CacheInv'
<1>1. NeedR' = NeedR /\ NeedW' = NeedW
  BY DEF NeedR, NeedW, channel_is_readable, channel_is_writable
<1>2. QED
  BY <1>1, CacheKept

LEMMA CacheStep ==
  ASSUME TypeOK, CacheInv, TurnInv, PendingInv, Next
  PROVE  CacheInv'
<1>. USE Descriptors
<1>0. queue \in [Queue -> Nat] /\ state \in [Queue -> {"none", "SETUP", "ACTIVE", "BLOCKING", "destroyed"}]
      /\ channels \subseteq Chan
  BY DEF TypeOK
<1>1. ASSUME NEW t \in Thread, PushLocal(t)
      PROVE  CacheInv'
  <2>1. UNCHANGED <<pc, valid, cache, fds, pipe, channels, state>>
    BY <1>1 DEF PushLocal
  <2>2. \A c \in Chan : queue'[c] = queue[c]
    BY <1>0, <1>1 DEF PushLocal
  <2>3. NeedR' = NeedR
    BY <2>1 DEF NeedR, channel_is_readable
  <2>4. NeedW' = NeedW
    BY <1>0, <2>1, <2>2 DEF NeedW, channel_is_writable
  <2>5. QED
    BY <2>1, <2>3, <2>4, CacheKept
<1>2. ASSUME NEW t \in Thread, ioman_notify_newmsg(t)
      PROVE  CacheInv'
  <2>1. pipe' # <<>>
    BY <1>2, EventFacts, AppendFacts DEF ioman_notify_newmsg, TypeOK
  <2>2. QED
    BY <1>2, <2>1, CacheKept DEF ioman_notify_newmsg, netvars
<1>3. ASSUME NEW c \in Opened, ioman_new_connection(c)
      PROVE  CacheInv'
  <2>1. pipe' # <<>>
    BY <1>3, EventFacts, AppendFacts DEF ioman_new_connection, TypeOK
  <2>2. state[c] = "none" /\ \A d \in Queue \ {c} : state'[d] = state[d]
    BY <1>3 DEF ioman_new_connection, TypeOK, PendingInv
  <2>3. \A d \in Queue : state[d] = "ACTIVE" => state'[d] = "ACTIVE"
    BY <2>2
  <2>4. UNCHANGED <<pc, valid, cache, fds, channels>>
    BY <1>3 DEF ioman_new_connection
  <2>5. QED
    BY <2>1, <2>3, <2>4, CacheKept
<1>4. CASE ioman_stop
  <2>1. pipe' # <<>>
    BY <1>4, EventFacts, AppendFacts DEF ioman_stop, TypeOK
  <2>2. QED
    BY <1>4, <2>1, CacheKept DEF ioman_stop, netvars
<1>5. CASE ioman_set_fds
  <2>1. /\ pc = "set_fds" /\ pc' = "select" /\ valid' = TRUE /\ cache' = fds'
        /\ UNCHANGED <<channels, state, queue, pipe>>
    BY <1>5 DEF ioman_set_fds, netvars
  <2>2. NeedR' = NeedR /\ NeedW' = NeedW
    BY <2>1 DEF NeedR, NeedW, channel_is_readable, channel_is_writable
  <2>3. CASE valid
    <3>1. cache' = cache
      BY <1>5, <2>1, <2>3 DEF ioman_set_fds
    <3>2. OpenSets(cache) /\ (Serves(cache) \/ pipe # <<>>)
      BY <2>1, <2>3 DEF CacheInv
    <3>3. QED
      BY <2>1, <2>2, <3>1, <3>2 DEF CacheInv, OpenSets, Serves
  <2>4. CASE ~valid
    <3>1. cache'.R = NeedR /\ cache'.W = NeedW
      BY <1>5, <2>1, <2>4 DEF ioman_set_fds, Fds
    <3>2. /\ PIPE \in NeedR
          /\ \A c \in Chan : c \in NeedR \cup NeedW => c \in channels
          /\ \A c \in Queue : c \in NeedR => state[c] = "ACTIVE"
      BY DEF NeedR, NeedW, channel_is_readable
    <3>3. OpenSets(cache)'
      BY <2>1, <3>1, <3>2 DEF OpenSets
    <3>4. Serves(cache)'
      BY <2>2, <3>1 DEF Serves
    <3>5. QED
      BY <2>1, <3>3, <3>4 DEF CacheInv
  <2>5. QED
    BY <2>3, <2>4
<1>6. ASSUME NEW R \in SUBSET fds.R, NEW W \in SUBSET fds.W, Select(R, W)
      PROVE  CacheInv'
  BY <1>6, CacheSame DEF Select, netvars
<1>7. CASE HandlePipe
  <2>1. /\ pc = "event" /\ pc' \in {"accept", "exit"} /\ cache' = cache /\ state' = state
    BY <1>7 DEF HandlePipe
  <2>2. CASE ~EventReady
    BY <1>7, <2>1, <2>2, CacheSame DEF HandlePipe
  <2>3. CASE EventReady /\ pc' = "exit"
    <3>1. valid' = valid /\ channels' = channels
      BY <1>7, <2>3 DEF HandlePipe
    <3>2. QED
      BY <2>1, <2>3, <3>1, CacheKept
  <2>4. CASE EventReady /\ pc' # "exit"
    <3>1. valid' = FALSE
      BY <1>7, <2>4 DEF HandlePipe, ioman_handle_event_newchan, ioman_handle_event_newmsg,
                        ioman_handle_event_bcastmsg, InvalidateCache
    <3>2. QED
      BY <2>1, <3>1, CacheGone
  <2>5. QED
    BY <2>2, <2>3, <2>4
<1>8. CASE Accept
  <2>1. pc = "accept" /\ pc' = "local"
    BY <1>8 DEF Accept
  <2>2. CASE LSOCK \notin fds.R
    BY <1>8, <2>1, <2>2, CacheSame DEF Accept
  <2>3. CASE LSOCK \in fds.R
    BY <1>8, <2>1, <2>3, CacheGone DEF Accept, InvalidateCache
  <2>4. QED
    BY <2>2, <2>3
<1>9. CASE LocalRead
  <2>1. pc = "local" /\ pc' \in {"abort", "read"} /\ UNCHANGED <<cache, channels, pipe>>
    BY <1>9 DEF LocalRead
  <2>2. UNCHANGED <<state, queue, valid>> \/ valid' = FALSE
    BY <1>9 DEF LocalRead, InvalidateCache
  <2>3. CASE UNCHANGED <<state, queue, valid>>
    BY <2>1, <2>3, CacheSame
  <2>4. CASE valid' = FALSE
    BY <2>1, <2>4, CacheGone
  <2>5. QED
    BY <2>2, <2>3, <2>4
<1>10. CASE ReadDone \/ WriteDone
  BY <1>10, CacheSame DEF ReadDone, WriteDone, netvars
<1>11. CASE ioman_finalize
  BY <1>11, CacheGone DEF ioman_finalize
<1>12. ASSUME NEW c \in Chan, Read(c)
       PROVE  CacheInv'
  <2>1. pc = "read" /\ pc' = "read" /\ cache' = cache
    BY <1>12, ReadCases
  <2>2. CASE UNCHANGED <<netvars, valid, pipe, own>>
    BY <2>1, <2>2, CacheSame DEF netvars
  <2>3. CASE ReadForward(c) \/ ReadError(c)
    BY <2>1, <2>3, CacheGone DEF ReadForward, ReadError, ioman_delete_channel, InvalidateCache
  <2>4. CASE ReadPing(c) \/ ReadTable
    <3>1. UNCHANGED <<channels, state, valid>>
      BY <2>4 DEF ReadPing, ReadTable, netvars
    <3>2. pipe' # <<>>
      BY <2>4, EventFacts, AppendFacts DEF ReadPing, ReadTable, TypeOK
    <3>3. QED
      BY <2>1, <3>1, <3>2, CacheKept
  <2>5. QED
    BY <1>12, <2>2, <2>3, <2>4, ReadCases
<1>13. ASSUME NEW c \in Chan, Write(c)
       PROVE  CacheInv'
  <2>1. pc = "write" /\ pc' \in {"write", "assert"} /\ cache' = cache /\ pipe' = pipe
    BY <1>13, WriteCases
  <2>2. CASE ~valid'
    BY <2>1, <2>2, CacheGone
  <2>3. ASSUME NEW D, D = {}, state' = Admit(D), queue' = [queue EXCEPT ![c] = queue'[c]],
               queue'[c] > 0 => queue[c] > 0, channels' = channels, valid' => valid
        PROVE  CacheInv'
    <3>1. \A d \in Queue : state'[d] = state[d]
      BY <2>3, AdmitFacts
    <3>2. \A d \in Chan : queue'[d] > 0 => queue[d] > 0
      BY <1>0, <2>3
    <3>3. NeedR' \subseteq NeedR
      <4>1. \A d \in channels' \cup {LCHAN} : d \in Queue /\ d \in channels \cup {LCHAN}
        BY <1>0, <2>3
      <4>2. QED
        BY <3>1, <4>1 DEF NeedR, channel_is_readable
    <3>4. NeedW' \subseteq NeedW
      <4>1. \A d \in channels' : d \in Queue /\ d \in Chan /\ d \in channels
        BY <1>0, <2>3
      <4>2. QED
        BY <3>1, <3>2, <4>1 DEF NeedW, channel_is_writable
    <3>5. \A d \in Queue : state[d] = "ACTIVE" => state'[d] = "ACTIVE"
      BY <3>1
    <3>6. QED
      BY <2>1, <2>3, <3>3, <3>4, <3>5, CacheKept
  <2>4. ioman_delete_channel(c, {}) \/ (\E D : ioman_delete_channel(c, D)) => ~valid'
    BY DEF ioman_delete_channel, InvalidateCache
  <2>5. \/ ~valid'
        \/ \E m : /\ First(c, m) = {} /\ state' = Admit(First(c, m))
                  /\ queue' = [queue EXCEPT ![c] = queue'[c]]
                  /\ queue'[c] > 0 => queue[c] > 0
                  /\ channels' = channels
                  /\ valid' => valid
    BY <1>13, <2>4, WriteCases
  <2>6. QED
    BY <2>2, <2>3, <2>5
<1>14. QED
  BY <1>1, <1>2, <1>3, <1>4, <1>5, <1>6, <1>7, <1>8, <1>9, <1>10, <1>11, <1>12, <1>13
  DEF Next, IoThread

-----------------------------------------------------------------------------
(***************************************************************************)
(* How many events the pipe holds.                                         *)
(***************************************************************************)
LEMMA OwingFacts ==
  ASSUME TypeOK
  PROVE  /\ IsFiniteSet(Owing) /\ Cardinality(Owing) \in Nat /\ Cardinality(Thread) \in Nat
         /\ Cardinality(Owing) <= Cardinality(Thread)
<1>1. Owing \subseteq Thread /\ IsFiniteSet(Thread)
  BY IoLoopAssumption DEF Owing
<1>2. QED
  BY <1>1, FS_Subset, FS_CardinalityType

Numbers ==
  /\ Len(pipe) \in Nat /\ Cardinality(Owing) \in Nat /\ queue[LCHAN] \in Nat
  /\ Cardinality(Thread) \in Nat /\ own \in Nat

LEMMA AllNumbers ==
  ASSUME TypeOK
  PROVE  Numbers
  BY OwingFacts, Descriptors DEF TypeOK, Numbers

LEMMA Balance ==
  ASSUME NEW p \in Nat, NEW n \in Nat, NEW q \in Nat, NEW t \in Nat, NEW o \in Nat,
         NEW p1 \in Nat, NEW n1 \in Nat, NEW q1 \in Nat, NEW o1 \in Nat,
         p1 + n1 + q + o <= p + n + q1 + o1
  PROVE  /\ p + n <= q + t + o => p1 + n1 <= q1 + t + o1
         /\ p + n < q + t + o => p1 + n1 < q1 + t + o1
  OBVIOUS

LEMMA AccountKept ==
  ASSUME Numbers, Numbers', AccountInv, queue'[LCHAN] <= LIMIT,
         Took' /\ LCHAN \in fds'.R => Took /\ LCHAN \in fds.R,
         Len(pipe') + Cardinality(Owing') + queue[LCHAN] + own
           <= Len(pipe) + Cardinality(Owing) + queue'[LCHAN] + own'
  PROVE  AccountInv'
<1>. DEFINE p == Len(pipe)
            n == Cardinality(Owing)
            q == queue[LCHAN]
            t == Cardinality(Thread)
            p1 == Len(pipe')
            n1 == Cardinality(Owing')
            q1 == queue'[LCHAN]
<1>1. /\ p \in Nat /\ n \in Nat /\ q \in Nat /\ t \in Nat /\ own \in Nat
      /\ p1 \in Nat /\ n1 \in Nat /\ q1 \in Nat
  BY DEF Numbers
<1>2. p + n <= q + t + own /\ (Took /\ LCHAN \in fds.R => p + n < q + t + own)
  BY DEF AccountInv
<1>3. p1 + n1 + q + own <= p + n + q1 + own'
  OBVIOUS
<1>4. p1 + n1 <= q1 + t + own' /\ (Took /\ LCHAN \in fds.R => p1 + n1 < q1 + t + own')
  <2>1. PICK o1 \in Nat : o1 = own'
    BY DEF Numbers
  <2>. HIDE DEF p, n, q, t, p1, n1, q1
  <2>2. /\ p + n <= q + t + own => p1 + n1 <= q1 + t + o1
        /\ p + n < q + t + own => p1 + n1 < q1 + t + o1
    <3>1. p1 + n1 + q + own <= p + n + q1 + o1
      BY <1>3, <2>1
    <3>2. QED
      BY <1>1, <3>1, Balance
  <2>3. QED
    BY <1>2, <2>1, <2>2
<1>5. QED
  BY <1>4 DEF AccountInv

LEMMA AccountSame ==
  ASSUME Numbers, Numbers', AccountInv, UNCHANGED <<pipe, app, own>>, queue'[LCHAN] = queue[LCHAN],
         Took' /\ LCHAN \in fds'.R => Took /\ LCHAN \in fds.R
  PROVE  AccountInv'
<1>1. Owing' = Owing
  BY DEF Owing
<1>2. queue'[LCHAN] <= LIMIT
  BY DEF AccountInv
<1>3. Len(pipe') + Cardinality(Owing') + queue[LCHAN] + own
        <= Len(pipe) + Cardinality(Owing) + queue'[LCHAN] + own'
  BY <1>1 DEF Numbers
<1>4. QED
  BY <1>2, <1>3, AccountKept

(***************************************************************************)
(* An event that comes with no chunk is counted in own.                    *)
(***************************************************************************)
LEMMA AccountOwn ==
  ASSUME TypeOK, Numbers', AccountInv, UNCHANGED <<pc, fds, app>>, queue'[LCHAN] = queue[LCHAN],
         NEW e \in Event, pipe' = Append(pipe, e), own' = own + 1
  PROVE  AccountInv'
<1>1. Owing' = Owing /\ Numbers
  BY AllNumbers DEF Owing
<1>2. queue'[LCHAN] <= LIMIT /\ (Took' => Took)
  BY DEF AccountInv, Took
<1>3. Len(pipe') = Len(pipe) + 1
  BY AppendFacts DEF TypeOK
<1>4. Len(pipe') + Cardinality(Owing') + queue[LCHAN] + own
        <= Len(pipe) + Cardinality(Owing) + queue'[LCHAN] + own'
  BY <1>1, <1>3 DEF Numbers
<1>5. QED
  BY <1>1, <1>2, <1>4, AccountKept

LEMMA AccountPush ==
  ASSUME TypeOK, Numbers', AccountInv, NEW t \in Thread, PushLocal(t)
  PROVE  AccountInv'
<1>. USE Descriptors
<1>1. /\ app[t] = "send" /\ app' = [app EXCEPT ![t] = "notify"] /\ queue[LCHAN] < LIMIT
      /\ queue'[LCHAN] = queue[LCHAN] + 1 /\ UNCHANGED <<pc, fds, pipe, own>> /\ Numbers
  BY AllNumbers DEF PushLocal, TypeOK
<1>2. Owing' = Owing \cup {t} /\ t \notin Owing
  BY <1>1 DEF Owing, TypeOK
<1>3. Cardinality(Owing') = Cardinality(Owing) + 1
  BY <1>2, OwingFacts, FS_AddElement
<1>4. queue'[LCHAN] <= LIMIT /\ (Took' => Took)
  BY <1>1, IoLoopAssumption DEF Took, Numbers
<1>5. Len(pipe') + Cardinality(Owing') + queue[LCHAN] + own
        <= Len(pipe) + Cardinality(Owing) + queue'[LCHAN] + own'
  BY <1>1, <1>3 DEF Numbers
<1>6. QED
  BY <1>1, <1>4, <1>5, AccountKept

LEMMA AccountNotify ==
  ASSUME TypeOK, Numbers', AccountInv, NEW t \in Thread, ioman_notify_newmsg(t)
  PROVE  AccountInv'
<1>. USE EventFacts
<1>1. /\ app[t] = "notify" /\ app' = [app EXCEPT ![t] = "send"] /\ pipe' = Append(pipe, NewMsg)
      /\ UNCHANGED <<pc, fds, queue, own>> /\ Numbers
  BY AllNumbers DEF ioman_notify_newmsg, netvars
<1>2. Owing' = Owing \ {t} /\ t \in Owing
  BY <1>1 DEF Owing, TypeOK
<1>3. Cardinality(Owing') = Cardinality(Owing) - 1
  BY <1>2, OwingFacts, FS_RemoveElement
<1>4. Len(pipe') = Len(pipe) + 1
  BY <1>1, AppendFacts DEF TypeOK
<1>5. queue'[LCHAN] <= LIMIT /\ (Took' => Took)
  BY <1>1 DEF AccountInv, Took
<1>6. Len(pipe') + Cardinality(Owing') + queue[LCHAN] + own
        <= Len(pipe) + Cardinality(Owing) + queue'[LCHAN] + own'
  BY <1>1, <1>3, <1>4 DEF Numbers
<1>7. QED
  BY <1>1, <1>5, <1>6, AccountKept

(***************************************************************************)
(* Without an event select() has found the pipe empty: whoever owes an     *)
(* event is one of the threads.                                            *)
(***************************************************************************)
LEMMA AccountSelect ==
  ASSUME TypeOK, Numbers', CacheInv, AccountInv, NEW R \in SUBSET fds.R, NEW W \in SUBSET fds.W, Select(R, W)
  PROVE  AccountInv'
<1>. USE Descriptors
<1>1. /\ pc = "select" /\ pc' = "event" /\ fds'.R = R /\ R \subseteq fds.R \cap (MustBeReady \cup MayBeReady)
      /\ MustBeReady \cap fds.R \subseteq R /\ UNCHANGED <<queue, pipe, own, app>>
  BY DEF Select, Fds, netvars, appvars
<1>2. PIPE \in fds.R
  BY <1>1 DEF CacheInv, OpenSets
<1>3. PIPE \notin R => pipe = <<>>
  BY <1>1, <1>2 DEF MustBeReady
<1>4. LCHAN \in R => queue[LCHAN] > 0
  BY <1>1 DEF MustBeReady, MayBeReady
<1>5. Owing' = Owing /\ Numbers /\ Cardinality(Owing) <= Cardinality(Thread)
  BY <1>1, OwingFacts, AllNumbers DEF Owing
<1>6. ASSUME Took', LCHAN \in fds'.R
      PROVE  Len(pipe') + Cardinality(Owing') < queue'[LCHAN] + Cardinality(Thread) + own'
  <2>1. PIPE \notin R /\ LCHAN \in R
    BY <1>1, <1>6 DEF Took
  <2>2. Len(pipe') = 0 /\ queue[LCHAN] > 0
    BY <1>1, <1>3, <1>4, <2>1
  <2>3. QED
    BY <1>1, <1>5, <2>2 DEF Numbers
<1>7. QED
  BY <1>1, <1>5, <1>6 DEF AccountInv

LEMMA AccountPipe ==
  ASSUME TypeOK, Numbers', TurnInv, AccountInv, HandlePipe
  PROVE  AccountInv'
<1>. USE Descriptors
<1>1. /\ pc = "event" /\ pc' \in {"accept", "exit"} /\ fds' = fds /\ own' = own /\ app' = app /\ Numbers
  BY AllNumbers DEF HandlePipe, appvars
<1>2. queue'[LCHAN] = queue[LCHAN]
  BY DEF HandlePipe, ioman_handle_event_newchan, ioman_handle_event_newmsg, ioman_handle_event_bcastmsg, TypeOK
<1>3. CASE ~EventReady
  <2>1. pipe' = pipe /\ Took
    BY <1>1, <1>3 DEF HandlePipe, Took, EventReady
  <2>2. QED
    BY <1>1, <1>2, <2>1, AccountSame
<1>4. CASE EventReady
  <2>1. Len(pipe') = Len(pipe) - 1
    BY <1>1, <1>4, TailFacts DEF HandlePipe, TurnInv, TypeOK
  <2>2. Owing' = Owing
    BY <1>1 DEF Owing
  <2>3. QED
    BY <1>1, <1>2, <2>1, <2>2 DEF Numbers, AccountInv
<1>5. QED
  BY <1>3, <1>4

LEMMA AccountLocal ==
  ASSUME TypeOK, Numbers', TurnInv, AccountInv, LocalRead
  PROVE  AccountInv'
<1>. USE Descriptors
<1>1. /\ pc = "local" /\ pc' \in {"abort", "read"} /\ UNCHANGED <<fds, pipe, own, app>> /\ Numbers
  BY AllNumbers DEF LocalRead, appvars
<1>2. ~Took' /\ Took
  BY <1>1 DEF Took
<1>3. CASE queue' = queue
  BY <1>1, <1>2, <1>3, AccountSame
<1>4. CASE queue' # queue
  <2>1. LCHAN \in fds.R
    BY <1>4 DEF LocalRead
  <2>2. PICK d \in NextHops(LCHAN) : channel_pipeline_chunk(LCHAN, d, 1)
    BY <1>4 DEF LocalRead
  <2>3. queue'[LCHAN] = queue[LCHAN] - 1
    <3>1. d # LCHAN /\ queue \in [Queue -> Nat]
      BY <2>2, HopFacts DEF TypeOK
    <3>2. QED
      BY <2>2, <3>1 DEF channel_pipeline_chunk
  <2>4. Len(pipe) + Cardinality(Owing) < queue[LCHAN] + Cardinality(Thread) + own
    BY <1>2, <2>1 DEF AccountInv
  <2>5. Owing' = Owing
    BY <1>1 DEF Owing
  <2>6. queue'[LCHAN] <= LIMIT
    BY <1>1, <2>3, IoLoopAssumption DEF AccountInv, Numbers
  <2>7. QED
    BY <1>1, <1>2, <2>3, <2>4, <2>5, <2>6 DEF Numbers, AccountInv
<1>5. QED
  BY <1>3, <1>4

LEMMA AccountStep ==
  ASSUME TypeOK, TypeOK', CacheInv, TurnInv, AccountInv, Next
  PROVE  AccountInv'
<1>. USE Descriptors, EventFacts
<1>0. Numbers /\ Numbers' /\ queue \in [Queue -> Nat] /\ channels \subseteq Chan
  <2>1. Numbers
    BY AllNumbers
  <2>2. Owing' \subseteq Thread
    BY DEF Owing
  <2>3. Cardinality(Owing') \in Nat
    BY <2>2, IoLoopAssumption, FS_Subset, FS_CardinalityType
  <2>4. Numbers'
    BY <2>1, <2>3 DEF Numbers, TypeOK
  <2>5. QED
    BY <2>1, <2>4 DEF TypeOK
<1>1. ASSUME NEW t \in Thread, PushLocal(t) \/ ioman_notify_newmsg(t)
      PROVE  AccountInv'
  BY <1>0, <1>1, AccountPush, AccountNotify
<1>2. ASSUME NEW c \in Opened, ioman_new_connection(c)
      PROVE  AccountInv'
  BY <1>0, <1>2, AccountOwn DEF ioman_new_connection, appvars
<1>3. CASE ioman_stop
  BY <1>0, <1>3, AccountOwn DEF ioman_stop, netvars
<1>4. CASE ioman_set_fds \/ ReadDone \/ WriteDone
  <2>1. UNCHANGED <<pipe, app, own, queue>> /\ pc' \in {"select", "write", "set_fds"}
    BY <1>4 DEF ioman_set_fds, ReadDone, WriteDone, netvars, appvars
  <2>2. ~Took'
    BY <2>1 DEF Took
  <2>3. QED
    BY <1>0, <2>1, <2>2, AccountSame
<1>5. ASSUME NEW R \in SUBSET fds.R, NEW W \in SUBSET fds.W, Select(R, W)
      PROVE  AccountInv'
  BY <1>0, <1>5, AccountSelect
<1>6. CASE HandlePipe
  BY <1>0, <1>6, AccountPipe
<1>7. CASE Accept
  <2>1. UNCHANGED <<pipe, app, own, queue, fds>> /\ pc = "accept"
    BY <1>7 DEF Accept, appvars
  <2>2. Took
    BY <2>1 DEF Took
  <2>3. QED
    BY <1>0, <2>1, <2>2, AccountSame
<1>8. CASE LocalRead
  BY <1>0, <1>8, AccountLocal
<1>9. CASE ioman_finalize
  <2>1. UNCHANGED <<pipe, app, own>> /\ pc' = "exit" /\ queue'[LCHAN] = queue[LCHAN]
    BY <1>0, <1>9 DEF ioman_finalize, appvars
  <2>2. ~Took'
    BY <2>1 DEF Took
  <2>3. QED
    BY <1>0, <2>1, <2>2, AccountSame
<1>10. ASSUME NEW c \in Chan, Read(c)
       PROVE  AccountInv'
  <2>1. pc = "read" /\ pc' = "read" /\ fds' = fds /\ app' = app
    BY <1>10, ReadCases
  <2>2. ~Took'
    BY <2>1 DEF Took
  <2>3. CASE UNCHANGED <<netvars, valid, pipe, own>>
    BY <1>0, <2>1, <2>2, <2>3, AccountSame DEF netvars
  <2>4. CASE ReadForward(c)
    <3>1. PICK d \in NextHops(c) : channel_pipeline_chunk(c, d, 0)
      BY <2>4 DEF ReadForward
    <3>2. d \in Chan
      BY <3>1, HopFacts
    <3>3. queue'[LCHAN] = queue[LCHAN] /\ UNCHANGED <<pipe, own>>
      BY <1>0, <2>4, <3>1, <3>2 DEF channel_pipeline_chunk, ReadForward
    <3>4. QED
      BY <1>0, <2>1, <2>2, <3>3, AccountSame
  <2>5. CASE ReadPing(c)
    <3>1. queue'[LCHAN] = queue[LCHAN] /\ pipe' = Append(pipe, NewMsg) /\ own' = own + 1
      BY <1>0, <2>5 DEF ReadPing
    <3>2. QED
      BY <1>0, <2>1, <3>1, AccountOwn
  <2>6. CASE ReadTable
    BY <1>0, <2>1, <2>6, AccountOwn DEF ReadTable, netvars
  <2>7. CASE ReadError(c)
    <3>1. queue'[LCHAN] = queue[LCHAN] /\ UNCHANGED <<pipe, own>>
      BY <1>0, <2>7 DEF ReadError, ioman_delete_channel
    <3>2. QED
      BY <1>0, <2>1, <2>2, <3>1, AccountSame
  <2>8. QED
    BY <1>10, <2>3, <2>4, <2>5, <2>6, <2>7, ReadCases
<1>11. ASSUME NEW c \in Chan, Write(c)
       PROVE  AccountInv'
  <2>1. pc' \in {"write", "assert"} /\ UNCHANGED <<pipe, own, app>>
    BY <1>11, WriteCases
  <2>2. ~Took'
    BY <2>1 DEF Took
  <2>3. \/ queue' = [queue EXCEPT ![c] = @ + 1]
        \/ queue' = [queue EXCEPT ![c] = queue'[c]]
        \/ \E D : ioman_delete_channel(c, D)
    BY <1>11, WriteCases
  <2>4. queue'[LCHAN] = queue[LCHAN]
    BY <1>0, <2>3 DEF ioman_delete_channel
  <2>5. QED
    BY <1>0, <2>1, <2>2, <2>4, AccountSame
<1>12. QED
  BY <1>1, <1>2, <1>3, <1>4, <1>5, <1>6, <1>7, <1>8, <1>9, <1>10, <1>11 DEF Next, IoThread

-----------------------------------------------------------------------------
(***************************************************************************)
(* The wait queues.                                                        *)
(***************************************************************************)
LEMMA WaitersCalm ==
  ASSUME WaitersInv, waitq' = waitq,
         \A c \in Queue : \/ state'[c] = state[c]
                          \/ state[c] \notin {"BLOCKING", "destroyed"} /\ state'[c] # "BLOCKING"
  PROVE  WaitersInv'
<1>1. \A d, i, c : Waits(d, i, c)' <=> Waits(d, i, c)
  BY DEF Waits
<1>2. Intact' => Intact
  BY DEF Intact
<1>3. \A d \in Chan : \A i \in Nat : \A c \in Queue : Waits(d, i, c)' => state'[c] = state[c]
  BY <1>1 DEF WaitersInv
<1>4. \A c \in Queue : state'[c] = "BLOCKING" => state[c] = "BLOCKING"
  OBVIOUS
<1>5. QED
  BY <1>1, <1>2, <1>3, <1>4 DEF WaitersInv

LEMMA WaitersChunk ==
  ASSUME TypeOK, WaitersInv, NEW c \in Queue, state[c] = "ACTIVE", NEW d \in Chan \ {c}, NEW taken,
         channel_pipeline_chunk(c, d, taken)
  PROVE  WaitersInv'
<1>. USE Descriptors
<1>1. CASE state' = [state EXCEPT ![c] = "ACTIVE"] /\ waitq' = waitq
  BY <1>1, WaitersCalm DEF TypeOK
<1>2. CASE state' = [state EXCEPT ![c] = "BLOCKING"] /\ waitq' = [waitq EXCEPT ![d] = Append(@, c)]
  <2>0. PICK n : n = Len(waitq[d])
    OBVIOUS
  <2>1. /\ waitq[d] \in Seq(Queue) /\ n \in Nat /\ waitq'[d] = Append(waitq[d], c)
        /\ \A e \in Chan \ {d} : waitq'[e] = waitq[e]
    BY <1>2, <2>0 DEF TypeOK
  <2>2. state'[c] = "BLOCKING" /\ \A e \in Queue \ {c} : state'[e] = state[e]
    BY <1>2 DEF TypeOK
  <2>3. \A e \in Chan : \A i \in Nat : \A b \in Queue :
          Waits(e, i, b)' <=> Waits(e, i, b) \/ (e = d /\ i = n + 1 /\ b = c)
    <3>1. SUFFICES ASSUME NEW e \in Chan, NEW i \in Nat, NEW b \in Queue
                   PROVE  Waits(e, i, b)' <=> Waits(e, i, b) \/ (e = d /\ i = n + 1 /\ b = c)
      OBVIOUS
    <3>2. CASE e # d
      BY <2>1, <3>2 DEF Waits
    <3>3. CASE e = d
      <4>1. /\ Len(waitq'[d]) = n + 1 /\ waitq'[d][n + 1] = c
            /\ \A j \in 1 .. n : waitq'[d][j] = waitq[d][j]
        BY <2>0, <2>1, AppendFacts
      <4>2. i \in 1 .. n + 1 <=> i \in 1 .. n \/ i = n + 1
        BY <2>1
      <4>3. n + 1 \notin 1 .. n
        BY <2>1
      <4>4. QED
        BY <2>0, <3>3, <4>1, <4>2, <4>3 DEF Waits
    <3>4. QED
      BY <3>2, <3>3
  <2>4. \A e \in Chan : \A i \in Nat : ~Waits(e, i, c)
    BY DEF WaitersInv
  <2>5. n + 1 \in Nat /\ c \in Queue /\ Waits(d, n + 1, c)'
    BY <2>1, <2>3
  <2>6. Intact' => Intact
    BY <2>2 DEF Intact
  <2>7. \A e \in Chan : \A i \in Nat : \A b \in Queue :
          Waits(e, i, b)' => (b = c /\ state'[b] = "BLOCKING") \/ (b # c /\ Waits(e, i, b) /\ state'[b] = state[b])
    BY <2>2, <2>3, <2>4
  <2>8. /\ \A e \in Chan : \A i \in Nat : \A b \in Queue :
             Waits(e, i, b)' => state'[b] \in {"BLOCKING", "destroyed"}
        /\ "write" \notin Faults => \A e \in Chan : \A i \in Nat : \A b \in Queue :
             Waits(e, i, b)' => state'[b] = "BLOCKING"
    BY <2>7 DEF WaitersInv
  <2>9. \A e, f \in Chan : \A i, j \in Nat : \A b \in Queue :
          Waits(e, i, b)' /\ Waits(f, j, b)' => e = f /\ i = j
    BY <2>3, <2>4 DEF WaitersInv
  <2>10. Intact' => \A b \in Queue :
           state'[b] = "BLOCKING" => \E e \in Chan : \E i \in Nat : Waits(e, i, b)'
    BY <2>2, <2>3, <2>5, <2>6 DEF WaitersInv
  <2>11. QED
    BY <2>8, <2>9, <2>10 DEF WaitersInv
<1>3. QED
  BY <1>1, <1>2 DEF channel_pipeline_chunk

(***************************************************************************)
(* A channel that goes takes its waiters with it, and stays where it       *)
(* waits; only a write can fail while it waits.                            *)
(***************************************************************************)
LEMMA WaitersDelete ==
  ASSUME TypeOK, WaitersInv, NEW c \in Chan, NEW D, ioman_delete_channel(c, D),
         \A b \in D : b \in Queue /\ \E i \in Nat : Waits(c, i, b),
         "write" \in Faults \/ state[c] # "BLOCKING"
  PROVE  WaitersInv'
<1>. USE Descriptors
<1>1. /\ state'[c] = "destroyed" /\ c \in Queue
      /\ \A b \in Queue \ {c} : state'[b] = IF b \in D /\ state[b] = "BLOCKING" THEN "ACTIVE" ELSE state[b]
  BY AdmitFacts DEF ioman_delete_channel
<1>2. waitq'[c] = <<>> /\ \A e \in Chan \ {c} : waitq'[e] = waitq[e]
  BY DEF ioman_delete_channel, TypeOK
<1>3. \A e \in Chan : \A i \in Nat : \A b \in Queue : Waits(e, i, b)' => Waits(e, i, b) /\ e # c
  BY <1>2 DEF Waits
<1>4. \A e \in Chan : \A i \in Nat : \A b \in Queue : Waits(e, i, b)' => b \notin D
  BY <1>3 DEF WaitersInv
<1>5. \A e \in Chan : \A i \in Nat : \A b \in Queue :
        Waits(e, i, b)' => (b = c /\ state'[b] = "destroyed") \/ (b # c /\ state'[b] = state[b])
  BY <1>1, <1>4
<1>6. ~Intact'
  BY <1>1 DEF Intact
<1>7. "write" \notin Faults => \A e \in Chan : \A i \in Nat : ~Waits(e, i, c)
  BY <1>1 DEF WaitersInv
<1>8. /\ \A e \in Chan : \A i \in Nat : \A b \in Queue :
           Waits(e, i, b)' => state'[b] \in {"BLOCKING", "destroyed"}
      /\ "write" \notin Faults => \A e \in Chan : \A i \in Nat : \A b \in Queue :
           Waits(e, i, b)' => state'[b] = "BLOCKING"
  <2>1. \A e \in Chan : \A i \in Nat : \A b \in Queue :
          Waits(e, i, b)' => state'[b] \in {"BLOCKING", "destroyed"}
    BY <1>3, <1>5 DEF WaitersInv
  <2>2. ASSUME "write" \notin Faults, NEW e \in Chan, NEW i \in Nat, NEW b \in Queue, Waits(e, i, b)'
        PROVE  state'[b] = "BLOCKING"
    <3>1. Waits(e, i, b) /\ b # c
      BY <1>3, <1>7, <2>2
    <3>2. state'[b] = state[b]
      BY <1>5, <2>2, <3>1
    <3>3. state[b] = "BLOCKING"
      BY <2>2, <3>1 DEF WaitersInv
    <3>4. QED
      BY <3>2, <3>3
  <2>3. QED
    BY <2>1, <2>2
<1>9. \A e, f \in Chan : \A i, j \in Nat : \A b \in Queue :
        Waits(e, i, b)' /\ Waits(f, j, b)' => e = f /\ i = j
  BY <1>3 DEF WaitersInv
<1>10. QED
  BY <1>6, <1>8, <1>9 DEF WaitersInv

(***************************************************************************)
(* The first m waiters of c read again.                                    *)
(***************************************************************************)
LEMMA FirstWaits ==
  ASSUME TypeOK, NEW c \in Chan, NEW m \in 0 .. Len(waitq[c])
  PROVE  /\ \A b \in First(c, m) : b \in Queue /\ \E i \in Nat : Waits(c, i, b) /\ i <= m
         /\ \A i \in Nat : \A b \in Queue : Waits(c, i, b) /\ i <= m => b \in First(c, m)
<1>1. waitq[c] \in Seq(Queue) /\ Len(waitq[c]) \in Nat /\ m \in Nat
  BY DEF TypeOK
<1>2. \A i \in 1 .. m : i \in Nat /\ i \in 1 .. Len(waitq[c]) /\ waitq[c][i] \in Queue /\ i <= m
  BY <1>1
<1>3. \A i \in Nat : i \in 1 .. Len(waitq[c]) /\ i <= m => i \in 1 .. m
  BY <1>1
<1>4. QED
  BY <1>2, <1>3 DEF First, Waits

LEMMA WaitersAdmit ==
  ASSUME TypeOK, WaitersInv, NEW c \in Chan, NEW m \in 0 .. Len(waitq[c]),
         waitq' = [waitq EXCEPT ![c] = Rest(c, m)], state' = Admit(First(c, m))
  PROVE  WaitersInv'
<1>. USE Descriptors
<1>1. \A b \in Queue : state'[b] = IF b \in First(c, m) /\ state[b] = "BLOCKING" THEN "ACTIVE" ELSE state[b]
  BY AdmitFacts
<1>2. /\ waitq[c] \in Seq(Queue) /\ Len(waitq[c]) \in Nat /\ m \in Nat /\ waitq'[c] = Rest(c, m)
      /\ \A e \in Chan \ {c} : waitq'[e] = waitq[e]
  BY DEF TypeOK
<1>3. /\ Len(waitq'[c]) = Len(waitq[c]) - m
      /\ \A i \in 1 .. Len(waitq[c]) - m : waitq'[c][i] = waitq[c][m + i]
  BY <1>2, SubSeqFacts DEF Rest
<1>4. \A i \in Nat : \A b \in Queue : Waits(c, i, b)' => Waits(c, m + i, b) /\ m + i \in Nat /\ ~(m + i <= m)
  BY <1>2, <1>3 DEF Waits
<1>5. \A e \in Chan \ {c} : \A i \in Nat : \A b \in Queue : Waits(e, i, b)' <=> Waits(e, i, b)
  BY <1>2 DEF Waits
<1>6. \A i \in Nat : \A b \in Queue : Waits(c, i, b) /\ ~(i <= m) => i - m \in Nat /\ Waits(c, i - m, b)'
  <2>1. SUFFICES ASSUME NEW i \in Nat, NEW b \in Queue, Waits(c, i, b), ~(i <= m)
                 PROVE  i - m \in Nat /\ Waits(c, i - m, b)'
    OBVIOUS
  <2>2. i \in 1 .. Len(waitq[c]) /\ waitq[c][i] = b
    BY <2>1 DEF Waits
  <2>3. i - m \in 1 .. Len(waitq[c]) - m /\ m + (i - m) = i /\ i - m \in Nat
    BY <1>2, <2>1, <2>2
  <2>4. waitq'[c][i - m] = b /\ i - m \in 1 .. Len(waitq'[c])
    BY <1>3, <2>2, <2>3
  <2>5. QED
    BY <2>3, <2>4 DEF Waits
<1>7. \A e \in Chan : \A i \in Nat : \A b \in Queue :
        Waits(e, i, b)' => \E j \in Nat : Waits(e, j, b) /\ (e = c => ~(j <= m))
  BY <1>4, <1>5
<1>8. \A e \in Chan : \A i \in Nat : \A b \in Queue : Waits(e, i, b)' => b \notin First(c, m)
  <2>1. SUFFICES ASSUME NEW e \in Chan, NEW i \in Nat, NEW b \in Queue, Waits(e, i, b)', b \in First(c, m)
                 PROVE  FALSE
    OBVIOUS
  <2>2. PICK k \in Nat : Waits(c, k, b) /\ k <= m
    BY <2>1, FirstWaits
  <2>3. PICK j \in Nat : Waits(e, j, b) /\ (e = c => ~(j <= m))
    BY <1>7, <2>1
  <2>4. e = c /\ j = k
    BY <2>2, <2>3 DEF WaitersInv
  <2>5. QED
    BY <2>2, <2>3, <2>4
<1>9. \A e \in Chan : \A i \in Nat : \A b \in Queue : Waits(e, i, b)' => state'[b] = state[b]
  BY <1>1, <1>8
<1>10. /\ \A e \in Chan : \A i \in Nat : \A b \in Queue :
            Waits(e, i, b)' => state'[b] \in {"BLOCKING", "destroyed"}
       /\ "write" \notin Faults => \A e \in Chan : \A i \in Nat : \A b \in Queue :
            Waits(e, i, b)' => state'[b] = "BLOCKING"
  BY <1>7, <1>9 DEF WaitersInv
<1>11. ASSUME NEW e \in Chan, NEW f \in Chan, NEW i \in Nat, NEW j \in Nat, NEW b \in Queue,
              Waits(e, i, b)', Waits(f, j, b)'
       PROVE  e = f /\ i = j
  <2>1. e = f
    BY <1>7, <1>11 DEF WaitersInv
  <2>2. CASE e # c
    BY <1>5, <1>11, <2>1, <2>2 DEF WaitersInv
  <2>3. CASE e = c
    <3>1. m + i \in Nat /\ m + j \in Nat /\ Waits(c, m + i, b) /\ Waits(c, m + j, b)
      BY <1>4, <1>11, <2>1, <2>3
    <3>2. m + i = m + j
      BY <3>1 DEF WaitersInv
    <3>3. QED
      BY <1>2, <2>1, <3>2
  <2>4. QED
    BY <2>2, <2>3
<1>12. ASSUME Intact', NEW b \in Queue, state'[b] = "BLOCKING"
       PROVE  \E e \in Chan : \E i \in Nat : Waits(e, i, b)'
  <2>1. Intact
    BY <1>1, <1>12 DEF Intact
  <2>2. state[b] = "BLOCKING" /\ b \notin First(c, m)
    BY <1>1, <1>12
  <2>3. PICK e \in Chan, i \in Nat : Waits(e, i, b)
    BY <2>1, <2>2 DEF WaitersInv
  <2>4. CASE e # c
    BY <1>5, <2>3, <2>4
  <2>5. CASE e = c
    <3>1. ~(i <= m)
      BY <2>2, <2>3, <2>5, FirstWaits
    <3>2. QED
      BY <1>6, <2>3, <2>5, <3>1
  <2>6. QED
    BY <2>4, <2>5
<1>13. QED
  BY <1>10, <1>11, <1>12 DEF WaitersInv

LEMMA WaitersStep ==
  ASSUME TypeOK, TurnInv, PendingInv, WaitersInv, Next
  PROVE  WaitersInv'
<1>. USE Descriptors
<1>1. CASE UNCHANGED <<state, waitq>>
  BY <1>1, WaitersCalm
<1>2. ASSUME NEW c \in Opened, ioman_new_connection(c)
      PROVE  WaitersInv'
  <2>1. state[c] = "none" /\ waitq' = waitq
    BY <1>2 DEF ioman_new_connection, PendingInv
  <2>2. state' = [state EXCEPT ![c] = "SETUP"]
    BY <1>2 DEF ioman_new_connection
  <2>3. QED
    BY <2>1, <2>2, WaitersCalm DEF TypeOK
<1>3. CASE Accept
  <2>1. waitq' = waitq
    BY <1>3 DEF Accept
  <2>2. state' = state \/ \E c \in opening : state' = [state EXCEPT ![c] = "ACTIVE"]
    BY <1>3 DEF Accept
  <2>3. QED
    BY <2>1, <2>2, WaitersCalm DEF TypeOK, PendingInv
<1>4. CASE LocalRead
  <2>1. UNCHANGED <<state, waitq>> \/
        (LCHAN \in fds.R /\ \E d \in NextHops(LCHAN) : channel_pipeline_chunk(LCHAN, d, 1))
    BY <1>4 DEF LocalRead
  <2>2. ASSUME LCHAN \in fds.R, NEW d \in NextHops(LCHAN), channel_pipeline_chunk(LCHAN, d, 1)
        PROVE  WaitersInv'
    <3>1. state[LCHAN] = "ACTIVE" /\ LCHAN \in Queue
      BY <1>4, <2>2 DEF TurnInv, Reported, LocalRead
    <3>2. d \in Chan \ {LCHAN}
      BY HopFacts
    <3>3. QED
      BY <2>2, <3>1, <3>2, WaitersChunk
  <2>3. QED
    BY <1>1, <2>1, <2>2
<1>5. CASE ioman_finalize
  <2>1. waitq' = [c \in Chan |-> <<>>]
    BY <1>5 DEF ioman_finalize
  <2>2. \A e \in Chan : \A i \in Nat : \A b \in Queue : ~Waits(e, i, b)'
    BY <2>1 DEF Waits
  <2>3. ~Intact'
    BY <1>5 DEF ioman_finalize, Intact, TypeOK
  <2>4. QED
    BY <2>2, <2>3 DEF WaitersInv
<1>6. ASSUME NEW c \in Chan, Read(c)
      PROVE  WaitersInv'
  <2>1. state[c] = "ACTIVE" /\ c \in Queue
    BY <1>6, ReadCases DEF TurnInv
  <2>2. CASE UNCHANGED <<netvars, valid, pipe, own>> \/ ReadPing(c) \/ ReadTable
    BY <1>1, <2>2 DEF netvars, ReadPing, ReadTable
  <2>3. CASE ReadForward(c)
    BY <2>1, <2>3, HopFacts, WaitersChunk DEF ReadForward
  <2>4. CASE ReadError(c)
    <3>1. ioman_delete_channel(c, {})
      BY <2>4 DEF ReadError
    <3>2. QED
      BY <2>1, <3>1, WaitersDelete
  <2>5. QED
    BY <1>6, <2>2, <2>3, <2>4, ReadCases
<1>7. ASSUME NEW c \in Chan, Write(c)
      PROVE  WaitersInv'
  <2>1. CASE state[c] = "SETUP" /\ state' = [state EXCEPT ![c] = "ACTIVE"] /\ waitq' = waitq
    BY <2>1, WaitersCalm DEF TypeOK
  <2>2. CASE state[c] = "SETUP" /\ ioman_delete_channel(c, {})
    BY <2>2, WaitersDelete
  <2>3. ASSUME NEW m \in 0 .. Len(waitq[c]),
               waitq' = [waitq EXCEPT ![c] = Rest(c, m)], state' = Admit(First(c, m))
        PROVE  WaitersInv'
    BY <2>3, WaitersAdmit
  <2>4. ASSUME NEW m \in 0 .. Len(waitq[c]), "write" \in Faults, ioman_delete_channel(c, First(c, m))
        PROVE  WaitersInv'
    <3>1. \A b \in First(c, m) : b \in Queue /\ \E i \in Nat : Waits(c, i, b)
      BY FirstWaits
    <3>2. QED
      BY <2>4, <3>1, WaitersDelete
  <2>5. QED
    BY <1>7, <2>1, <2>2, <2>3, <2>4, WriteCases
<1>8. ASSUME NEW t \in Thread, PushLocal(t) \/ ioman_notify_newmsg(t)
      PROVE  WaitersInv'
  BY <1>1, <1>8 DEF PushLocal, ioman_notify_newmsg, netvars
<1>9. CASE ioman_stop \/ ioman_set_fds \/ HandlePipe \/ ReadDone \/ WriteDone
  BY <1>1, <1>9 DEF ioman_stop, ioman_set_fds, HandlePipe, ReadDone, WriteDone, netvars
<1>10. ASSUME NEW R \in SUBSET fds.R, NEW W \in SUBSET fds.W, Select(R, W)
       PROVE  WaitersInv'
  BY <1>1, <1>10 DEF Select, netvars
<1>11. QED
  BY <1>2, <1>3, <1>4, <1>5, <1>6, <1>7, <1>8, <1>9, <1>10 DEF Next, IoThread

-----------------------------------------------------------------------------
(***************************************************************************)
(* What cannot go wrong without faults.                                    *)
(***************************************************************************)
LEMMA HopsKept ==
  ASSUME TypeOK, FaultsInv, queue'[LCHAN] \in Nat, queue'[LCHAN] <= queue[LCHAN] \/ NextHops(LCHAN) # {},
         pc' # "exit" => pc # "exit",
         Faults = {} => channels \subseteq channels',
         \A c \in channels : state'[c] = "SETUP" => state[c] = "SETUP"
  PROVE  Faults = {} /\ pc' # "exit" /\ queue'[LCHAN] > 0 => NextHops(LCHAN)' # {}
<1>. USE Descriptors
<1>1. SUFFICES ASSUME Faults = {}, pc' # "exit", queue'[LCHAN] > 0
               PROVE  NextHops(LCHAN)' # {}
  OBVIOUS
<1>2. queue[LCHAN] \in Nat
  BY DEF TypeOK
<1>3. NextHops(LCHAN) # {}
  BY <1>1, <1>2 DEF FaultsInv
<1>4. PICK d \in channels : d # LCHAN /\ state[d] # "SETUP"
  BY <1>3 DEF NextHops
<1>5. QED
  BY <1>1, <1>4 DEF NextHops

LEMMA FaultsKept ==
  ASSUME TypeOK, FaultsInv, queue'[LCHAN] \in Nat, queue'[LCHAN] <= queue[LCHAN] \/ NextHops(LCHAN) # {},
         pc' = pc \/ pc' \notin {"assert", "abort"}, pc' # "exit" => pc # "exit",
         Faults = {} => channels \subseteq channels',
         \A c \in channels : state'[c] = "SETUP" => state[c] = "SETUP"
  PROVE  FaultsInv'
<1>1. Faults = {} /\ pc' # "exit" /\ queue'[LCHAN] > 0 => NextHops(LCHAN)' # {}
  BY HopsKept
<1>2. QED
  BY <1>1 DEF FaultsInv

LEMMA FaultsStep ==
  ASSUME TypeOK, TypeOK', TurnInv, PendingInv, WaitersInv, FaultsInv, Next
  PROVE  FaultsInv'
<1>. USE Descriptors
<1>0. /\ queue \in [Queue -> Nat] /\ queue[LCHAN] \in Nat /\ queue'[LCHAN] \in Nat /\ channels \subseteq Chan
      /\ queue[LCHAN] <= queue[LCHAN]
  BY DEF TypeOK
<1>1. ASSUME NEW t \in Thread, PushLocal(t)
      PROVE  FaultsInv'
  BY <1>0, <1>1, FaultsKept DEF PushLocal
<1>2. CASE UNCHANGED <<pc, queue, channels, state>>
  BY <1>0, <1>2, FaultsKept
<1>3. ASSUME NEW c \in Opened, ioman_new_connection(c)
      PROVE  FaultsInv'
  <2>1. c \notin channels /\ \A d \in Queue \ {c} : state'[d] = state[d]
    BY <1>3 DEF ioman_new_connection, PendingInv, TypeOK
  <2>2. UNCHANGED <<pc, queue, channels>>
    BY <1>3 DEF ioman_new_connection
  <2>3. QED
    BY <1>0, <2>1, <2>2, FaultsKept
<1>4. CASE ioman_set_fds \/ ReadDone \/ WriteDone \/ \E R, W : Select(R, W)
  <2>1. UNCHANGED <<queue, channels, state>> /\ pc' \in {"select", "write", "set_fds", "event"} /\ pc # "exit"
    BY <1>4 DEF ioman_set_fds, ReadDone, WriteDone, Select, netvars
  <2>2. QED
    BY <1>0, <2>1, FaultsKept
<1>5. CASE HandlePipe
  <2>1. pc = "event" /\ pc' \in {"accept", "exit"} /\ state' = state
    BY <1>5 DEF HandlePipe
  <2>2. queue'[LCHAN] = queue[LCHAN] /\ channels \subseteq channels'
    BY <1>0, <1>5 DEF HandlePipe, ioman_handle_event_newchan, ioman_handle_event_newmsg, ioman_handle_event_bcastmsg
  <2>3. QED
    BY <1>0, <2>1, <2>2, FaultsKept
<1>6. CASE Accept
  <2>1. pc = "accept" /\ pc' = "local" /\ queue' = queue /\ channels \subseteq channels'
    BY <1>6 DEF Accept
  <2>2. \A c \in Queue : state'[c] = state[c] \/ state'[c] = "ACTIVE"
    BY <1>6 DEF Accept, TypeOK
  <2>3. QED
    BY <1>0, <2>1, <2>2, FaultsKept
<1>7. CASE LocalRead
  <2>1. pc = "local" /\ channels' = channels /\ \A c \in channels : state'[c] = state[c]
    BY <1>0, <1>7 DEF LocalRead, channel_pipeline_chunk, TypeOK
  <2>2. queue'[LCHAN] <= queue[LCHAN]
    <3>1. CASE queue' = queue
      BY <1>0, <3>1
    <3>2. CASE queue' # queue
      <4>1. PICK d \in NextHops(LCHAN) : channel_pipeline_chunk(LCHAN, d, 1)
        BY <1>7, <3>2 DEF LocalRead
      <4>2. d \in Chan
        BY HopFacts
      <4>3. queue'[LCHAN] = queue[LCHAN] - 1
        BY <1>0, <4>1, <4>2 DEF channel_pipeline_chunk
      <4>4. QED
        BY <1>0, <4>3
    <3>3. QED
      BY <3>1, <3>2
  <2>3. Faults = {} /\ pc' # "exit" /\ queue'[LCHAN] > 0 => NextHops(LCHAN)' # {}
    BY <1>0, <2>1, <2>2, HopsKept
  <2>4. Faults = {} => pc' # "abort"
    <3>1. SUFFICES ASSUME Faults = {}, LCHAN \in fds.R, NextHops(LCHAN) = {}
                   PROVE  FALSE
      BY <1>7 DEF LocalRead
    <3>2. QED
      BY <2>1, <3>1 DEF TurnInv, Reported, FaultsInv
  <2>5. pc' # "assert"
    BY <1>7 DEF LocalRead
  <2>6. QED
    BY <2>3, <2>4, <2>5 DEF FaultsInv
<1>8. CASE ioman_finalize
  BY <1>8 DEF ioman_finalize, FaultsInv
<1>9. ASSUME NEW c \in Chan, Read(c)
      PROVE  FaultsInv'
  <2>1. pc = "read" /\ pc' = "read" /\ state[c] = "ACTIVE"
    BY <1>9, ReadCases DEF TurnInv
  <2>2. CASE UNCHANGED <<netvars, valid, pipe, own>> \/ ReadTable
    BY <1>2, <2>1, <2>2 DEF netvars, ReadTable
  <2>3. CASE ReadForward(c)
    <3>1. PICK d \in NextHops(c) : channel_pipeline_chunk(c, d, 0)
      BY <2>3 DEF ReadForward
    <3>2. d \in Chan
      BY HopFacts
    <3>3. queue'[LCHAN] = queue[LCHAN] /\ channels' = channels
      BY <1>0, <2>3, <3>1, <3>2 DEF channel_pipeline_chunk, ReadForward
    <3>4. \A e \in channels : state'[e] = "SETUP" => state[e] = "SETUP"
      BY <1>0, <3>1 DEF channel_pipeline_chunk, TypeOK
    <3>5. QED
      BY <1>0, <2>1, <3>3, <3>4, FaultsKept
  <2>4. CASE ReadPing(c)
    <3>1. queue'[LCHAN] = queue[LCHAN] /\ channels' = channels /\ state' = state
      BY <1>0, <2>4 DEF ReadPing
    <3>2. QED
      BY <1>0, <2>1, <3>1, FaultsKept
  <2>5. CASE ReadError(c)
    <3>1. queue'[LCHAN] = queue[LCHAN] /\ Faults # {}
      BY <1>0, <2>5 DEF ReadError, ioman_delete_channel
    <3>2. \A e \in Queue : state'[e] = "SETUP" => state[e] = "SETUP"
      BY <2>5, AdmitFacts DEF ReadError, ioman_delete_channel
    <3>3. QED
      BY <1>0, <2>1, <3>1, <3>2, FaultsKept
  <2>6. QED
    BY <1>9, <2>2, <2>3, <2>4, <2>5, ReadCases
<1>10. ASSUME NEW c \in Chan, Write(c)
       PROVE  FaultsInv'
  <2>1. pc = "write"
    BY <1>10, WriteCases
  <2>2. queue'[LCHAN] = queue[LCHAN]
    <3>1. \/ queue' = [queue EXCEPT ![c] = @ + 1]
          \/ queue' = [queue EXCEPT ![c] = queue'[c]]
          \/ \E D : ioman_delete_channel(c, D)
      BY <1>10, WriteCases
    <3>2. QED
      BY <1>0, <3>1 DEF ioman_delete_channel
  <2>3. ASSUME NEW e \in Queue, state'[e] = "SETUP"
        PROVE  state[e] = "SETUP"
    <3>1. \/ state' = [state EXCEPT ![c] = "ACTIVE"]
          \/ \E D : state' = Admit(D)
          \/ \E D : ioman_delete_channel(c, D)
      BY <1>10, WriteCases
    <3>2. CASE state' = [state EXCEPT ![c] = "ACTIVE"]
      BY <2>3, <3>2 DEF TypeOK
    <3>3. CASE \E D : state' = Admit(D)
      BY <2>3, <3>3 DEF Admit
    <3>4. CASE \E D : ioman_delete_channel(c, D)
      BY <2>3, <3>4 DEF ioman_delete_channel, Admit
    <3>5. QED
      BY <3>1, <3>2, <3>3, <3>4
  <2>4. Faults = {} => channels \subseteq channels'
    BY <1>10 DEF Write, WriteSetup, WriteQueue, WriteError
  <2>5. "write" \notin Faults => pc' = "write"
    <3>1. SUFFICES ASSUME "write" \notin Faults, NEW m \in 0 .. Len(waitq[c]), NEW d \in First(c, m),
                          state[d] = "destroyed"
                   PROVE  FALSE
      BY <1>10, <2>1, WriteCases
    <3>2. d \in Queue /\ \E i \in Nat : Waits(c, i, d)
      BY FirstWaits
    <3>3. state[d] = "BLOCKING"
      BY <3>1, <3>2 DEF WaitersInv
    <3>4. QED
      BY <3>1, <3>3
  <2>6. pc' # "exit" /\ pc' # "abort"
    BY <1>10, <2>1, WriteCases
  <2>7. Faults = {} /\ pc' # "exit" /\ queue'[LCHAN] > 0 => NextHops(LCHAN)' # {}
    BY <1>0, <2>1, <2>2, <2>3, <2>4, HopsKept
  <2>8. QED
    BY <2>5, <2>6, <2>7 DEF FaultsInv
<1>11. ASSUME NEW t \in Thread, ioman_notify_newmsg(t)
       PROVE  FaultsInv'
  BY <1>2, <1>11 DEF ioman_notify_newmsg, netvars
<1>12. CASE ioman_stop
  BY <1>2, <1>12 DEF ioman_stop, netvars
<1>13. QED
  BY <1>1, <1>3, <1>4, <1>5, <1>6, <1>7, <1>8, <1>9, <1>10, <1>11, <1>12 DEF Next, IoThread

-----------------------------------------------------------------------------
LEMMA InitInv ==
  ASSUME Init
  PROVE  IInv
<1>. USE Descriptors, IoLoopAssumption
<1>1. pc = "set_fds" /\ valid = FALSE /\ pipe = <<>> /\ channels = {} /\ own = 0 /\ queue[LCHAN] = 0
  BY DEF Init
<1>2. TypeOK
  <2>1. cache \in FdSets /\ fds \in FdSets
    BY DEF Init, FdSets
  <2>2. <<>> \in Seq(Event) /\ <<>> \in Seq(Queue)
    OBVIOUS
  <2>3. pipe \in Seq(Event)
    BY <1>1, <2>2
  <2>4. state \in [Queue -> {"none", "SETUP", "ACTIVE", "BLOCKING", "destroyed"}]
    <3>1. state = [e \in Queue |-> IF e = LCHAN THEN "ACTIVE" ELSE "none"]
      BY DEF Init
    <3>2. QED
      BY <3>1
  <2>5. queue \in [Queue -> Nat]
    <3>1. queue = [e \in Queue |-> 0]
      BY DEF Init
    <3>2. QED
      BY <3>1
  <2>6. waitq \in [Chan -> Seq(Queue)]
    <3>1. waitq = [e \in Chan |-> <<>>]
      BY DEF Init
    <3>2. QED
      BY <2>2, <3>1
  <2>7. app \in [Thread -> {"send", "notify"}] /\ pushed \in [Thread -> 0 .. Chunks]
    <3>1. app = [t \in Thread |-> "send"] /\ pushed = [t \in Thread |-> 0]
      BY DEF Init
    <3>2. 0 \in 0 .. Chunks
      OBVIOUS
    <3>3. QED
      BY <3>1, <3>2
  <2>8. inputs \in 0 .. Inputs /\ own \in Nat /\ stop \in BOOLEAN
    <3>1. inputs = Inputs /\ own = 0 /\ stop = FALSE
      BY DEF Init
    <3>2. Inputs \in 0 .. Inputs
      OBVIOUS
    <3>3. QED
      BY <3>1, <3>2
  <2>9. QED
    BY <1>1, <2>1, <2>3, <2>4, <2>5, <2>6, <2>7, <2>8 DEF Init, TypeOK
<1>3. CacheInv /\ TurnInv
  BY <1>1 DEF CacheInv, TurnInv, Reported
<1>4. AccountInv
  <2>1. Owing = {}
    BY DEF Init, Owing
  <2>2. Cardinality(Owing) = 0 /\ Cardinality(Thread) \in Nat /\ Len(pipe) = 0
    BY <1>1, <2>1, FS_EmptySet, FS_CardinalityType
  <2>3. QED
    BY <1>1, <2>2 DEF AccountInv, Took
<1>5. PendingInv
  BY <1>1 DEF Init, PendingInv
<1>6. WaitersInv
  BY DEF Init, WaitersInv, Waits
<1>7. FaultsInv
  BY <1>1 DEF FaultsInv
<1>8. QED
  BY <1>2, <1>3, <1>4, <1>5, <1>6, <1>7 DEF IInv

LEMMA StutterInv ==
  ASSUME IInv, UNCHANGED vars
  PROVE  IInv'
<1>. USE DEF vars, IInv
<1>1. TypeOK'
  BY DEF TypeOK
<1>2. CacheInv' /\ TurnInv'
  BY DEF CacheInv, TurnInv, OpenSets, Serves, NeedR, NeedW, channel_is_readable, channel_is_writable, EventReady
<1>3. AccountInv' /\ PendingInv' /\ WaitersInv'
  BY DEF AccountInv, Took, Owing, PendingInv, Announces, WaitersInv, Waits, Intact
<1>4. FaultsInv'
  BY DEF FaultsInv, NextHops
<1>5. QED
  BY <1>1, <1>2, <1>3, <1>4

LEMMA NextInv ==
  ASSUME IInv, Next
  PROVE  IInv'
<1>1. TypeOK'
  BY TypeSimple, TypeLocal, TypeRead, TypeWrite DEF IInv, Next, IoThread
<1>2. QED
  BY <1>1, CacheStep, TurnStep, AccountStep, PendingStep, WaitersStep, FaultsStep DEF IInv

(***************************************************************************)
(* Between and within the turns of the I/O thread, whatever application    *)
(* threads do and whatever calls fail, the invariant holds.                *)
(***************************************************************************)
THEOREM Invariance == Spec => []IInv
<1>1. Init => IInv
  BY InitInv
<1>2. IInv /\ [Next]_vars => IInv'
  BY NextInv, StutterInv
<1>3. QED
  BY <1>1, <1>2, PTL DEF Spec

(***************************************************************************)
(* No wait queue is longer than there are channels, so that Waiting finds  *)
(* every place at which a channel waits.                                   *)
(***************************************************************************)
LEMMA WaitingFacts ==
  ASSUME TypeOK, WaitersInv, NEW c \in Queue
  PROVE  \A d \in Chan : \A i \in Nat : <<d, i>> \in Waiting(c) <=> Waits(d, i, c)
<1>. USE Descriptors
<1>1. IsFiniteSet(Queue)
  <2>1. IsFiniteSet(Chan)
    BY IoLoopAssumption
  <2>2. QED
    BY <2>1, FS_AddElement
<1>2. SUFFICES ASSUME NEW d \in Chan, NEW i \in Nat
               PROVE  <<d, i>> \in Waiting(c) <=> Waits(d, i, c)
  OBVIOUS
<1>3. waitq[d] \in Seq(Queue) /\ Len(waitq[d]) \in Nat
  BY DEF TypeOK
<1>4. PICK n \in Nat : n = Len(waitq[d])
  BY <1>3
<1>5. n <= Cardinality(Queue) /\ Cardinality(Queue) \in Nat
  <2>. DEFINE f == [j \in 1 .. n |-> waitq[d][j]]
  <2>1. f \in [1 .. n -> Queue]
    BY <1>3, <1>4
  <2>2. \A j, k \in 1 .. n : f[j] = f[k] => j = k
    <3>1. SUFFICES ASSUME NEW j \in 1 .. n, NEW k \in 1 .. n, f[j] = f[k]
                   PROVE  j = k
      OBVIOUS
    <3>2. f[j] \in Queue /\ j \in Nat /\ k \in Nat /\ Waits(d, j, f[j]) /\ Waits(d, k, f[j])
      BY <1>3, <1>4, <3>1 DEF Waits
    <3>3. QED
      BY <3>2 DEF WaitersInv
  <2>3. f \in Injection(1 .. n, Queue)
    BY <2>1, <2>2 DEF Injection, IsInjective
  <2>4. Cardinality(1 .. n) = n
    <3>1. 1 \in Int /\ n \in Int
      OBVIOUS
    <3>2. Cardinality(1 .. n) = IF 1 > n THEN 0 ELSE n - 1 + 1
      BY <3>1, FS_Interval
    <3>3. QED
      BY <3>2
  <2>5. QED
    BY <1>1, <2>3, <2>4, FS_Injection, FS_CardinalityType
<1>6. i \in 1 .. n => i \in 1 .. Cardinality(Queue)
  BY <1>5
<1>7. <<d, i>> \in Waiting(c) <=> i \in 1 .. Cardinality(Queue) /\ i <= n /\ waitq[d][i] = c
  BY <1>4 DEF Waiting
<1>8. QED
  BY <1>3, <1>4, <1>5, <1>6, <1>7 DEF Waits

LEMMA InvWaitersMatch ==
  ASSUME TypeOK, WaitersInv
  PROVE  WaitersMatch
<1>1. SUFFICES ASSUME Intact, NEW c \in Queue
               PROVE  Cardinality(Waiting(c)) = IF state[c] = "BLOCKING" THEN 1 ELSE 0
  BY DEF WaitersMatch, Intact
<1>2. \A p \in Waiting(c) : \E d \in Chan : \E i \in Nat : p = <<d, i>> /\ Waits(d, i, c)
  <2>1. \A p \in Waiting(c) : \E d \in Chan : \E i \in Nat : p = <<d, i>>
    BY DEF Waiting
  <2>2. QED
    BY <2>1, WaitingFacts
<1>3. CASE state[c] = "BLOCKING"
  <2>1. PICK d \in Chan, i \in Nat : Waits(d, i, c)
    BY <1>1, <1>3 DEF WaitersInv
  <2>2. <<d, i>> \in Waiting(c)
    BY <2>1, WaitingFacts
  <2>3. \A p \in Waiting(c) : p = <<d, i>>
    BY <1>2, <2>1 DEF WaitersInv
  <2>4. Waiting(c) = {<<d, i>>}
    BY <2>2, <2>3
  <2>5. QED
    BY <1>3, <2>4, FS_Singleton
<1>4. CASE state[c] # "BLOCKING"
  <2>1. Waiting(c) = {}
    BY <1>1, <1>2, <1>4 DEF WaitersInv, Intact
  <2>2. QED
    BY <1>4, <2>1, FS_EmptySet
<1>5. QED
  BY <1>3, <1>4

(***************************************************************************)
(* The descriptor sets given to select() are of open channels, a channel   *)
(* that holds a chunk is not read, who is BLOCKING waits once, and the     *)
(* notify pipe stays short, for any number of channels and threads.        *)
(***************************************************************************)
THEOREM LoopTheorem == Spec => []LoopConsistent
<1>1. IInv => LoopConsistent
  <2>1. SUFFICES ASSUME IInv
                 PROVE  LoopConsistent
    OBVIOUS
  <2>2. TypeOK /\ WaitersMatch
    BY <2>1, InvWaitersMatch DEF IInv
  <2>3. DescriptorsOpen
    BY <2>1 DEF IInv, CacheInv, OpenSets, DescriptorsOpen
  <2>4. BlockedNotRead
    BY <2>1, Descriptors DEF IInv, TurnInv, Reported, BlockedNotRead
  <2>5. NotifyBound
    <3>1. Numbers /\ LIMIT \in Nat
      BY <2>2, AllNumbers, IoLoopAssumption
    <3>2. /\ queue[LCHAN] <= LIMIT
          /\ Len(pipe) + Cardinality(Owing) <= queue[LCHAN] + Cardinality(Thread) + own
      BY <2>1 DEF IInv, AccountInv
    <3>3. QED
      BY <3>1, <3>2 DEF Numbers, NotifyBound
  <2>6. QED
    BY <2>2, <2>3, <2>4, <2>5 DEF LoopConsistent
<1>2. QED
  BY <1>1, Invariance, PTL

(***************************************************************************)
(* The I/O thread never sleeps on sets that lack a descriptor it should    *)
(* look at, unless the pipe holds an event that will wake it.              *)
(***************************************************************************)
THEOREM CacheTheorem == Spec => []CacheServes
<1>1. IInv => CacheServes
  BY DEF IInv, CacheInv, Serves, CacheServes
<1>2. QED
  BY <1>1, Invariance, PTL

(***************************************************************************)
(* As long as writing to a channel does not fail, every waiter that is     *)
(* admitted still has its chunk, whatever else fails: a channel is deleted *)
(* while it waits only after a write.                                      *)
(***************************************************************************)
THEOREM OnlyWritesStrand ==
  ASSUME "write" \notin Faults
  PROVE  Spec => []WaitersAlive
<1>1. IInv => WaitersAlive
  BY DEF IInv, FaultsInv, WaitersAlive
<1>2. QED
  BY <1>1, Invariance, PTL

(***************************************************************************)
(* When no call on a channel fails, a chunk from the local channel always  *)
(* finds a channel to its next hop: ioman_get_nexthop_channel never aborts.*)
(***************************************************************************)
THEOREM NoAbort ==
  ASSUME Faults = {}
  PROVE  Spec => [](pc # "abort")
<1>1. IInv => pc # "abort"
  BY DEF IInv, FaultsInv
<1>2. QED
  BY <1>1, Invariance, PTL
=============================================================================
