------------------------- MODULE LocalChannelProofs -------------------------
(***************************************************************************)
(* Proofs about LocalChannel, for any number of threads, any load and any  *)
(* limit: tokens match chunks, nobody waits for a queue with room, the     *)
(* queue keeps its bound, and the chunks of each thread leave it in order. *)
(***************************************************************************)
EXTENDS LocalChannel, FiniteSetTheorems, TLAPS

IInv == TypeOK /\ TokensMatch /\ NoLostWakeup /\ QueueBound

-----------------------------------------------------------------------------
(***************************************************************************)
(* Queues.                                                                 *)
(***************************************************************************)
LEMMA AppendLen ==
  ASSUME NEW S, NEW s \in Seq(S), NEW e \in S
  PROVE  Append(s, e) \in Seq(S) /\ Len(Append(s, e)) = Len(s) + 1
  OBVIOUS

LEMMA TailLen ==
  ASSUME NEW S, NEW s \in Seq(S), s # <<>>
  PROVE  /\ Tail(s) \in Seq(S) /\ Head(s) \in S
         /\ Len(s) \in Nat \ {0} /\ Len(Tail(s)) = Len(s) - 1
  OBVIOUS

(***************************************************************************)
(* Threads between the append and the token.                               *)
(***************************************************************************)
Between == {p \in Thread : pc[p] = "token"}

LEMMA BetweenFinite ==
  IsFiniteSet(Between) /\ Cardinality(Between) \in Nat
<1>1. Between \in SUBSET Thread
  BY DEF Between
<1>2. QED
  BY <1>1, LocalAssumption, FS_Subset, FS_CardinalityType

LEMMA EntersBetween ==
  ASSUME pc \in [Thread -> {"push", "cond_wait", "token"}], NEW p \in Thread,
         pc[p] # "token", pc' = [pc EXCEPT ![p] = "token"]
  PROVE  Cardinality(Between') = Cardinality(Between) + 1
<1>1. Between' = Between \cup {p} /\ p \notin Between
  BY DEF Between
<1>2. QED
  BY <1>1, BetweenFinite, FS_AddElement

LEMMA LeavesBetween ==
  ASSUME pc \in [Thread -> {"push", "cond_wait", "token"}], NEW p \in Thread,
         pc[p] = "token", pc' = [pc EXCEPT ![p] = "push"]
  PROVE  Cardinality(Between') = Cardinality(Between) - 1
<1>1. Between' = Between \ {p} /\ p \in Between
  BY DEF Between
<1>2. QED
  BY <1>1, BetweenFinite, FS_RemoveElement

LEMMA KeepsBetween ==
  ASSUME \A p \in Thread : pc'[p] = "token" <=> pc[p] = "token"
  PROVE  Cardinality(Between') = Cardinality(Between)
<1>1. Between' = Between
  BY DEF Between
<1>2. QED
  BY <1>1

-----------------------------------------------------------------------------
(***************************************************************************)
(* The inductive invariant.                                                *)
(***************************************************************************)
LEMMA InitInv ==
  Init => IInv
<1>. SUFFICES ASSUME Init
              PROVE  IInv
  OBVIOUS
<1>. USE DEF Init
<1>1. TypeOK
  BY DEF TypeOK
<1>2. Between = {}
  BY DEF Between
<1>3. Cardinality(Between) = 0
  BY <1>2, FS_EmptySet
<1>4. TokensMatch
  BY <1>3 DEF TokensMatch, Between
<1>5. NoLostWakeup /\ QueueBound
  BY LocalAssumption DEF NoLostWakeup, QueueBound
<1>6. QED
  BY <1>1, <1>4, <1>5 DEF IInv

LEMMA NextInv ==
  IInv /\ [Next]_vars => IInv'
<1>. SUFFICES ASSUME IInv, [Next]_vars
              PROVE  IInv'
  OBVIOUS
<1>. USE DEF IInv
<1>0. /\ pc \in [Thread -> {"push", "cond_wait", "token"}]
      /\ queue \in Seq(Chunk) /\ Len(queue) \in Nat /\ tokens \in Nat
      /\ Cardinality(Between) \in Nat /\ LIMIT \in Nat \ {0}
      /\ io \in {"select", "pop", "pipeline"}
  BY BetweenFinite, LocalAssumption DEF TypeOK
<1>m. Len(queue) = tokens + Cardinality(Between) + (IF io = "pop" THEN 1 ELSE 0)
  BY DEF TokensMatch, Between
<1>t. TokensMatch' <=>
        Len(queue') = tokens' + Cardinality(Between') + (IF io' = "pop" THEN 1 ELSE 0)
  BY DEF TokensMatch, Between
<1>1. ASSUME NEW p \in Thread, PushAppend(p)
      PROVE  IInv'
  <2>1. /\ pc[p] = "push" /\ Len(queue) < LIMIT
        /\ queue' = Append(queue, NewChunk(p))
        /\ sent' = [sent EXCEPT ![p] = @ + 1]
        /\ pc' = [pc EXCEPT ![p] = "token"]
        /\ UNCHANGED <<tokens, io, state, recv>>
    BY <1>1 DEF PushAppend
  <2>2. NewChunk(p) \in Chunk
    BY DEF NewChunk, Chunk, TypeOK
  <2>3. queue' \in Seq(Chunk) /\ Len(queue') = Len(queue) + 1
    BY <1>0, <2>1, <2>2, AppendLen
  <2>4. TypeOK'
    BY <2>1, <2>3 DEF TypeOK
  <2>5. Cardinality(Between') = Cardinality(Between) + 1
    BY <1>0, <2>1, EntersBetween
  <2>6. TokensMatch'
    BY <1>0, <1>m, <1>t, <2>1, <2>3, <2>5
  <2>7. \A r \in Thread : pc[r] # "cond_wait"
    BY <1>0, <2>1 DEF NoLostWakeup
  <2>8. NoLostWakeup'
    BY <1>0, <2>1, <2>7 DEF NoLostWakeup
  <2>9. QueueBound'
    BY <1>0, <2>1, <2>3 DEF QueueBound
  <2>10. QED
    BY <2>4, <2>6, <2>8, <2>9
<1>2. ASSUME NEW p \in Thread, PushWait(p)
      PROVE  IInv'
  <2>1. /\ pc[p] = "push" /\ Len(queue) >= LIMIT
        /\ pc' = [pc EXCEPT ![p] = "cond_wait"]
        /\ UNCHANGED <<sent, queue, tokens, io, state, recv>>
    BY <1>2 DEF PushWait
  <2>2. Cardinality(Between') = Cardinality(Between)
    BY <1>0, <2>1, KeepsBetween
  <2>3. TypeOK'
    BY <2>1 DEF TypeOK
  <2>4. TokensMatch'
    BY <1>m, <1>t, <2>1, <2>2
  <2>5. NoLostWakeup' /\ QueueBound'
    BY <2>1 DEF NoLostWakeup, QueueBound
  <2>6. QED
    BY <2>3, <2>4, <2>5
<1>3. ASSUME NEW p \in Thread, PushToken(p)
      PROVE  IInv'
  <2>1. /\ pc[p] = "token" /\ tokens' = tokens + 1
        /\ pc' = [pc EXCEPT ![p] = "push"]
        /\ UNCHANGED <<sent, queue, io, state, recv>>
    BY <1>3 DEF PushToken
  <2>2. Cardinality(Between') = Cardinality(Between) - 1
    BY <1>0, <2>1, LeavesBetween
  <2>3. TypeOK'
    BY <1>0, <2>1 DEF TypeOK
  <2>4. TokensMatch'
    BY <1>0, <1>m, <1>t, <2>1, <2>2
  <2>5. NoLostWakeup' /\ QueueBound'
    BY <1>0, <2>1 DEF NoLostWakeup, QueueBound
  <2>6. QED
    BY <2>3, <2>4, <2>5
<1>4. ASSUME NEW p \in Thread, SpuriousWakeup(p)
      PROVE  IInv'
  <2>1. /\ pc[p] = "cond_wait" /\ pc' = [pc EXCEPT ![p] = "push"]
        /\ UNCHANGED <<sent, queue, tokens, io, state, recv>>
    BY <1>4 DEF SpuriousWakeup
  <2>2. Cardinality(Between') = Cardinality(Between)
    BY <1>0, <2>1, KeepsBetween
  <2>3. TypeOK'
    BY <2>1 DEF TypeOK
  <2>4. TokensMatch'
    BY <1>m, <1>t, <2>1, <2>2
  <2>5. NoLostWakeup' /\ QueueBound'
    BY <1>0, <2>1 DEF NoLostWakeup, QueueBound
  <2>6. QED
    BY <2>3, <2>4, <2>5
<1>5. ASSUME PopToken
      PROVE  IInv'
  <2>1. /\ io = "select" /\ tokens > 0 /\ tokens' = tokens - 1 /\ io' = "pop"
        /\ UNCHANGED <<pc, sent, queue, state, recv>>
    BY <1>5 DEF PopToken
  <2>2. TypeOK'
    BY <1>0, <2>1 DEF TypeOK
  <2>3. Cardinality(Between') = Cardinality(Between)
    BY <2>1, KeepsBetween
  <2>4. TokensMatch'
    BY <1>0, <1>m, <1>t, <2>1, <2>3
  <2>5. NoLostWakeup' /\ QueueBound'
    BY <2>1 DEF NoLostWakeup, QueueBound
  <2>6. QED
    BY <2>2, <2>4, <2>5
<1>6. ASSUME PopChunk
      PROVE  IInv'
  <2>1. /\ io = "pop" /\ queue # <<>> /\ queue' = Tail(queue) /\ io' = "pipeline"
        /\ recv' = [recv EXCEPT ![Head(queue).thr] = Append(@, Head(queue).seq)]
        /\ pc' = IF Len(queue) - 1 = LIMIT - 1 THEN Broadcast ELSE pc
        /\ UNCHANGED <<sent, tokens, state>>
    BY <1>6 DEF PopChunk
  <2>2. queue' \in Seq(Chunk) /\ Head(queue) \in Chunk /\ Len(queue') = Len(queue) - 1
    BY <1>0, <2>1, TailLen
  <2>3. /\ Broadcast \in [Thread -> {"push", "cond_wait", "token"}]
        /\ \A p \in Thread : Broadcast[p] = "token" <=> pc[p] = "token"
        /\ \A p \in Thread : Broadcast[p] # "cond_wait"
    BY <1>0 DEF Broadcast
  <2>4. /\ pc' \in [Thread -> {"push", "cond_wait", "token"}]
        /\ \A p \in Thread : pc'[p] = "token" <=> pc[p] = "token"
    BY <1>0, <2>1, <2>3
  <2>5. recv' \in [Thread -> Seq(Nat)]
    <3>1. Head(queue).thr \in Thread /\ Head(queue).seq \in Nat
      BY <2>2 DEF Chunk
    <3>2. Append(recv[Head(queue).thr], Head(queue).seq) \in Seq(Nat)
      BY <3>1, AppendLen DEF TypeOK
    <3>3. QED
      BY <2>1, <3>1, <3>2 DEF TypeOK
  <2>6. TypeOK'
    BY <2>1, <2>2, <2>4, <2>5 DEF TypeOK
  <2>7. Cardinality(Between') = Cardinality(Between)
    BY <2>4, KeepsBetween
  <2>8. TokensMatch'
    BY <1>0, <1>m, <1>t, <2>1, <2>2, <2>7
  <2>9. NoLostWakeup'
    <3>1. CASE Len(queue) = LIMIT
      <4>1. pc' = Broadcast
        BY <3>1, <2>1
      <4>2. QED
        BY <4>1, <2>3 DEF NoLostWakeup
    <3>2. CASE Len(queue) # LIMIT
      <4>1. Len(queue) < LIMIT /\ Len(queue) - 1 # LIMIT - 1
        BY <3>2, <1>0 DEF QueueBound
      <4>2. pc' = pc
        BY <4>1, <2>1
      <4>3. \A p \in Thread : pc[p] # "cond_wait"
        BY <4>1, <1>0 DEF NoLostWakeup
      <4>4. QED
        BY <4>2, <4>3 DEF NoLostWakeup
    <3>3. QED
      BY <3>1, <3>2
  <2>10. QueueBound'
    BY <1>0, <2>2 DEF QueueBound
  <2>11. QED
    BY <2>6, <2>8, <2>9, <2>10
<1>7. ASSUME io' \in {"select", "pipeline"}, io # "pop", state' \in {"ACTIVE", "BLOCKING"},
             UNCHANGED <<pc, sent, queue, tokens, recv>>
      PROVE  IInv'
  <2>1. TypeOK'
    BY <1>7 DEF TypeOK
  <2>2. Cardinality(Between') = Cardinality(Between)
    BY <1>7, KeepsBetween
  <2>3. TokensMatch'
    BY <1>m, <1>t, <1>7, <2>2
  <2>4. NoLostWakeup' /\ QueueBound'
    BY <1>7 DEF NoLostWakeup, QueueBound
  <2>5. QED
    BY <2>1, <2>3, <2>4
<1>8. CASE UNCHANGED vars
  BY <1>8 DEF vars, TypeOK, TokensMatch, NoLostWakeup, QueueBound
<1>9. QED
  BY <1>1, <1>2, <1>3, <1>4, <1>5, <1>6, <1>7, <1>8 DEF Next, PassOn, Unblock

-----------------------------------------------------------------------------
(***************************************************************************)
(* Every queued chunk has exactly one token, so channel_local_pop_chunk    *)
(* never finds the queue empty and never strands a chunk.                  *)
(***************************************************************************)
THEOREM TokensAlwaysMatch == Spec => []TokensMatch
<1>1. Init /\ [][Next]_vars => []IInv
  BY InitInv, NextInv, PTL
<1>2. IInv => TokensMatch
  BY DEF IInv
<1>3. QED
  BY <1>1, <1>2, PTL DEF Spec, SafeSpec

(***************************************************************************)
(* No application thread waits on the condition variable while the queue   *)
(* has room.                                                               *)
(***************************************************************************)
THEOREM WakeupsNeverLost == Spec => []NoLostWakeup
<1>1. Init /\ [][Next]_vars => []IInv
  BY InitInv, NextInv, PTL
<1>2. IInv => NoLostWakeup
  BY DEF IInv
<1>3. QED
  BY <1>1, <1>2, PTL DEF Spec, SafeSpec

(***************************************************************************)
(* The queue never holds more than LIMIT chunks.                           *)
(***************************************************************************)
THEOREM QueueBounded == Spec => []QueueBound
<1>1. Init /\ [][Next]_vars => []IInv
  BY InitInv, NextInv, PTL
<1>2. IInv => QueueBound
  BY DEF IInv
<1>3. QED
  BY <1>1, <1>2, PTL DEF Spec, SafeSpec
-----------------------------------------------------------------------------
(***************************************************************************)
(* What the queue holds of each thread: the chunks pushed and not popped,  *)
(* the smallest number in front.                                           *)
(***************************************************************************)
InQueue(k) == \E i \in 1..Len(queue) : queue[i] = k

Ordered ==
  \A i, j \in 1..Len(queue) :
    i < j /\ queue[i].thr = queue[j].thr => queue[i].seq < queue[j].seq

Complete == \A k \in Chunk : InQueue(k) <=> Len(recv[k.thr]) < k.seq /\ k.seq <= sent[k.thr]

Numbered ==
  \A p \in Thread : /\ Len(recv[p]) <= sent[p]
                    /\ \A i \in 1..Len(recv[p]) : recv[p][i] = i

OrderInv == Ordered /\ Complete /\ Numbered

(***************************************************************************)
(* Nothing changes while neither the queue nor its two ends do.            *)
(***************************************************************************)
LEMMA OrderKept ==
  ASSUME OrderInv, UNCHANGED <<queue, sent, recv>>
  PROVE  OrderInv'
<1>1. queue' = queue /\ sent' = sent /\ recv' = recv
  OBVIOUS
<1>2. Ordered' /\ Complete' /\ Numbered'
  BY <1>1 DEF OrderInv, Ordered, Complete, Numbered, InQueue
<1>3. QED
  BY <1>2 DEF OrderInv

(***************************************************************************)
(* An appended chunk has the largest number of its thread.                 *)
(***************************************************************************)
LEMMA AppendOrder ==
  ASSUME TypeOK, OrderInv, NEW p \in Thread, PushAppend(p)
  PROVE  OrderInv'
<1>. DEFINE n == Len(queue)
<1>1. PICK k \in Chunk : k = NewChunk(p) /\ k.thr = p /\ k.seq = sent[p] + 1
  <2>1. sent[p] + 1 \in Nat \ {0}
    BY DEF TypeOK
  <2>2. NewChunk(p) \in Chunk /\ NewChunk(p).thr = p /\ NewChunk(p).seq = sent[p] + 1
    BY <2>1 DEF NewChunk, Chunk
  <2>3. QED
    BY <2>2
<1>2. queue' = Append(queue, k) /\ sent' = [sent EXCEPT ![p] = @ + 1] /\ UNCHANGED recv
  BY <1>1 DEF PushAppend
<1>3. /\ queue \in Seq(Chunk) /\ n \in Nat /\ Len(queue') = n + 1
      /\ \A i \in 1..n : queue'[i] = queue[i] /\ queue[i] \in Chunk
      /\ queue'[n + 1] = k
  BY <1>2 DEF TypeOK
<1>4. /\ \A q \in Thread : sent[q] \in Nat /\ Len(recv[q]) \in Nat /\ Len(recv[q]) <= sent[q]
      /\ sent'[p] = sent[p] + 1 /\ \A q \in Thread : q # p => sent'[q] = sent[q]
  BY <1>2 DEF TypeOK, OrderInv, Numbered
<1>. HIDE DEF n
<1>5. \A i \in 1..n : InQueue(queue[i])
  BY DEF InQueue, n
<1>6. \A i \in 1..n : queue[i].thr = p => queue[i].seq < k.seq
  <2>. SUFFICES ASSUME NEW i \in 1..n, queue[i].thr = p
                PROVE  queue[i].seq < k.seq
    OBVIOUS
  <2>1. queue[i] \in Chunk /\ queue[i].seq \in Nat
    BY <1>3 DEF Chunk
  <2>2. queue[i].seq <= sent[p]
    BY <2>1, <1>5 DEF OrderInv, Complete
  <2>3. QED
    BY <2>1, <2>2, <1>1, <1>4
<1>7. Ordered'
  <2>. SUFFICES ASSUME NEW i \in 1..n + 1, NEW j \in 1..n + 1, i < j,
                       queue'[i].thr = queue'[j].thr
                PROVE  queue'[i].seq < queue'[j].seq
    BY <1>3 DEF Ordered
  <2>1. i \in 1..n
    BY <1>3
  <2>2. CASE j \in 1..n
    BY <2>1, <2>2, <1>3 DEF OrderInv, Ordered, n
  <2>3. CASE j = n + 1
    BY <2>1, <2>3, <1>1, <1>3, <1>6
  <2>4. QED
    BY <1>3, <2>2, <2>3
<1>8. \A l : InQueue(l)' <=> InQueue(l) \/ l = k
  <2>1. n + 1 \in 1..n + 1 /\ \A i \in 1..n + 1 : i \in 1..n \/ i = n + 1
    BY <1>3
  <2>2. \A i \in 1..n : i \in 1..n + 1
    BY <1>3
  <2>3. QED
    BY <2>1, <2>2, <1>3 DEF InQueue, n
<1>9. Complete'
  <2>. SUFFICES ASSUME NEW l \in Chunk
                PROVE  InQueue(l)' <=> Len(recv[l.thr]) < l.seq /\ l.seq <= sent'[l.thr]
    BY <1>2 DEF Complete
  <2>1. InQueue(l) <=> Len(recv[l.thr]) < l.seq /\ l.seq <= sent[l.thr]
    BY DEF OrderInv, Complete
  <2>2. l.thr \in Thread /\ l.seq \in Nat /\ l = [thr |-> l.thr, seq |-> l.seq]
        /\ k = [thr |-> k.thr, seq |-> k.seq]
    BY DEF Chunk
  <2>3. CASE l.thr # p
    BY <2>1, <2>2, <2>3, <1>1, <1>4, <1>8
  <2>4. CASE l.thr = p
    <3>1. l = k <=> l.seq = sent[p] + 1
      BY <2>2, <2>4, <1>1
    <3>2. l.seq <= sent'[p] <=> l.seq <= sent[p] \/ l.seq = sent[p] + 1
      BY <2>2, <1>4
    <3>3. l.seq = sent[p] + 1 => Len(recv[p]) < l.seq
      BY <1>4
    <3>4. QED
      BY <2>1, <2>4, <3>1, <3>2, <3>3, <1>8
  <2>5. QED
    BY <2>3, <2>4
<1>10. Numbered'
  <2>1. \A q \in Thread : Len(recv[q]) <= sent'[q]
    BY <1>4
  <2>2. QED
    BY <2>1, <1>2 DEF OrderInv, Numbered
<1>11. QED
  BY <1>7, <1>9, <1>10 DEF OrderInv

(***************************************************************************)
(* The chunk popped is the next one of its thread: had the queue a smaller *)
(* one, that would be further behind, but numbers grow.                    *)
(***************************************************************************)
LEMMA PoppedNext ==
  ASSUME TypeOK, OrderInv, PopChunk
  PROVE  /\ Head(queue) \in Chunk
         /\ Head(queue).seq = Len(recv[Head(queue).thr]) + 1
         /\ Head(queue).seq <= sent[Head(queue).thr]
<1>1. queue \in Seq(Chunk) /\ queue # <<>>
  BY DEF TypeOK, PopChunk
<1>2. PICK k \in Chunk : k = Head(queue) /\ k = queue[1]
  BY <1>1
<1>3. 1 \in 1..Len(queue) /\ \A i \in 1..Len(queue) : i = 1 \/ 1 < i
  BY <1>1
<1>4. PICK p \in Thread : p = k.thr
  BY DEF Chunk
<1>5. PICK m \in Nat : m = Len(recv[p])
  BY DEF TypeOK
<1>6. sent[p] \in Nat /\ k.seq \in Nat
  BY DEF TypeOK, Chunk
<1>7. m < k.seq /\ k.seq <= sent[p]
  BY <1>2, <1>3, <1>4, <1>5 DEF OrderInv, Complete, InQueue
<1>8. PICK l \in Chunk : l.thr = p /\ l.seq = m + 1
  <2>1. [thr |-> p, seq |-> m + 1] \in Chunk
    BY <1>5 DEF Chunk
  <2>2. QED
    BY <2>1
<1>9. InQueue(l)
  <2>1. m < m + 1 /\ m + 1 <= sent[p]
    BY <1>5, <1>6, <1>7
  <2>2. QED
    BY <2>1, <1>5, <1>8 DEF OrderInv, Complete
<1>10. PICK j \in 1..Len(queue) : queue[j] = l
  BY <1>9 DEF InQueue
<1>11. j = 1 \/ k.seq < l.seq
  BY <1>2, <1>3, <1>4, <1>8, <1>10 DEF OrderInv, Ordered
<1>12. k.seq = m + 1
  <2>1. j = 1 => k.seq = m + 1
    BY <1>2, <1>8, <1>10
  <2>2. ~ (k.seq < m + 1)
    BY <1>5, <1>6, <1>7
  <2>3. QED
    BY <2>1, <2>2, <1>8, <1>11
<1>13. QED
  BY <1>2, <1>4, <1>5, <1>7, <1>12

(***************************************************************************)
(* Popping takes that chunk out of the queue and no other.                 *)
(***************************************************************************)
LEMMA PopOrder ==
  ASSUME TypeOK, OrderInv, PopChunk
  PROVE  OrderInv'
<1>. DEFINE n == Len(queue)
<1>1. PICK k \in Chunk : k = Head(queue)
  BY PoppedNext
<1>2. /\ queue \in Seq(Chunk) /\ queue # <<>> /\ queue' = Tail(queue)
      /\ recv' = [recv EXCEPT ![k.thr] = Append(@, k.seq)]
      /\ UNCHANGED sent
  BY <1>1 DEF TypeOK, PopChunk
<1>3. /\ n \in Nat \ {0} /\ Len(queue') = n - 1
      /\ \A i \in 1..n - 1 : queue'[i] = queue[i + 1]
      /\ k = queue[1]
  BY <1>1, <1>2
<1>4. PICK p \in Thread : p = k.thr
  BY DEF Chunk
<1>5. PICK m \in Nat : m = Len(recv[p]) /\ k.seq = m + 1 /\ k.seq <= sent[p]
  <2>1. Len(recv[p]) \in Nat
    BY DEF TypeOK
  <2>2. k.seq = Len(recv[p]) + 1 /\ k.seq <= sent[p]
    BY <1>1, <1>4, PoppedNext
  <2>3. QED
    BY <2>1, <2>2
<1>6. /\ recv'[p] = Append(recv[p], m + 1)
      /\ \A q \in Thread : q # p => recv'[q] = recv[q]
      /\ \A q \in Thread : recv[q] \in Seq(Nat) /\ sent[q] \in Nat
  BY <1>2, <1>4, <1>5 DEF TypeOK
<1>7. /\ Len(recv'[p]) = m + 1
      /\ \A i \in 1..m : recv'[p][i] = recv[p][i]
      /\ recv'[p][m + 1] = m + 1
  BY <1>5, <1>6
<1>. HIDE DEF n
<1>8. \A i \in 1..n - 1 : i \in 1..n /\ i + 1 \in 1..n /\ i + 1 # 1 /\ 1 < i + 1
  BY <1>3
<1>9. Ordered'
  <2>. SUFFICES ASSUME NEW i \in 1..n - 1, NEW j \in 1..n - 1, i < j,
                       queue'[i].thr = queue'[j].thr
                PROVE  queue'[i].seq < queue'[j].seq
    BY <1>3 DEF Ordered
  <2>1. i + 1 \in 1..n /\ j + 1 \in 1..n /\ i + 1 < j + 1
    BY <1>3, <1>8
  <2>2. queue'[i] = queue[i + 1] /\ queue'[j] = queue[j + 1]
    BY <1>3
  <2>3. QED
    BY <2>1, <2>2 DEF OrderInv, Ordered, n
<1>10. \A l \in Chunk : InQueue(l)' <=> InQueue(l) /\ l # k
  <2>1. ASSUME NEW i \in 1..n - 1
        PROVE  queue'[i] # k /\ InQueue(queue'[i])
    <3>1. queue'[i] = queue[i + 1] /\ i + 1 \in 1..n /\ 1 \in 1..n /\ 1 < i + 1
      BY <1>3, <1>8
    <3>2. k.thr = queue[i + 1].thr => k.seq < queue[i + 1].seq
      BY <1>3, <3>1 DEF OrderInv, Ordered, n
    <3>3. ~ (k.seq < k.seq)
      BY <1>5
    <3>4. QED
      BY <3>1, <3>2, <3>3 DEF InQueue, n
  <2>2. ASSUME NEW i \in 1..n, queue[i] # k
        PROVE  \E j \in 1..n - 1 : queue'[j] = queue[i]
    <3>1. i # 1
      BY <2>2, <1>3
    <3>2. PICK j \in 1..n - 1 : i = j + 1
      <4>1. i - 1 \in 1..n - 1 /\ i = (i - 1) + 1
        BY <3>1, <1>3
      <4>2. QED
        BY <4>1
    <3>3. queue'[j] = queue[i]
      BY <3>2, <1>3
    <3>4. QED
      BY <3>2, <3>3
  <2>3. \A l \in Chunk : InQueue(l)' <=> \E i \in 1..n - 1 : queue'[i] = l
    BY <1>3 DEF InQueue
  <2>4. \A l \in Chunk : InQueue(l)' => InQueue(l) /\ l # k
    BY <2>1, <2>3
  <2>5. \A l \in Chunk : InQueue(l) /\ l # k => \E j \in 1..n - 1 : queue'[j] = l
    BY <2>2 DEF InQueue, n
  <2>6. QED
    BY <2>3, <2>4, <2>5
<1>11. Complete'
  <2>. SUFFICES ASSUME NEW l \in Chunk
                PROVE  InQueue(l)' <=> Len(recv'[l.thr]) < l.seq /\ l.seq <= sent[l.thr]
    BY <1>2 DEF Complete
  <2>1. InQueue(l) <=> Len(recv[l.thr]) < l.seq /\ l.seq <= sent[l.thr]
    BY DEF OrderInv, Complete
  <2>2. l.thr \in Thread /\ l.seq \in Nat /\ l = [thr |-> l.thr, seq |-> l.seq]
        /\ k = [thr |-> k.thr, seq |-> k.seq]
    BY DEF Chunk
  <2>3. CASE l.thr # p
    BY <2>1, <2>2, <2>3, <1>4, <1>6, <1>10
  <2>4. CASE l.thr = p
    <3>1. l = k <=> l.seq = m + 1
      BY <2>2, <2>4, <1>4, <1>5
    <3>2. m + 1 < l.seq <=> m < l.seq /\ l.seq # m + 1
      BY <2>2
    <3>3. QED
      BY <2>1, <2>4, <3>1, <3>2, <1>5, <1>7, <1>10
  <2>5. QED
    BY <2>3, <2>4
<1>12. Numbered'
  <2>. SUFFICES ASSUME NEW q \in Thread
                PROVE  Len(recv'[q]) <= sent[q] /\ \A i \in 1..Len(recv'[q]) : recv'[q][i] = i
    BY <1>2 DEF Numbered
  <2>1. CASE q # p
    BY <2>1, <1>6 DEF OrderInv, Numbered
  <2>2. CASE q = p
    <3>1. \A i \in 1..m + 1 : i \in 1..m \/ i = m + 1
      BY <1>5
    <3>2. \A i \in 1..m : recv[p][i] = i
      BY <1>5 DEF OrderInv, Numbered
    <3>3. QED
      BY <2>2, <3>1, <3>2, <1>5, <1>7
  <2>3. QED
    BY <2>1, <2>2
<1>13. QED
  BY <1>9, <1>11, <1>12 DEF OrderInv

(***************************************************************************)
(* The invariant of the order, initially and step by step.                 *)
(***************************************************************************)
LEMMA InitOrder == Init => OrderInv
<1>. SUFFICES ASSUME Init
              PROVE  OrderInv
  OBVIOUS
<1>1. queue = <<>> /\ \A p \in Thread : recv[p] = <<>> /\ sent[p] = 0
  BY DEF Init
<1>2. Len(queue) = 0 /\ \A p \in Thread : Len(recv[p]) = 0
  BY <1>1
<1>3. \A i : i \notin 1..0
  OBVIOUS
<1>4. Complete
  <2>1. \A k \in Chunk : k.thr \in Thread /\ k.seq \in Nat /\ ~ (k.seq <= 0)
    BY DEF Chunk
  <2>2. QED
    BY <1>1, <1>2, <1>3, <2>1 DEF Complete, InQueue
<1>5. QED
  BY <1>1, <1>2, <1>3, <1>4 DEF OrderInv, Ordered, Numbered

LEMMA OrderNext == TypeOK /\ OrderInv /\ [Next]_vars => OrderInv'
<1>. SUFFICES ASSUME TypeOK, OrderInv, [Next]_vars
              PROVE  OrderInv'
  OBVIOUS
<1>1. ASSUME NEW p \in Thread, PushAppend(p)
      PROVE  OrderInv'
  BY <1>1, AppendOrder
<1>2. CASE PopChunk
  BY <1>2, PopOrder
<1>3. CASE UNCHANGED <<queue, sent, recv>>
  BY <1>3, OrderKept
<1>4. QED
  BY <1>1, <1>2, <1>3
     DEF Next, vars, PushWait, PushToken, SpuriousWakeup, PopToken, PassOn, Unblock

(***************************************************************************)
(* The order in which the chunks of a thread leave the local queue is that *)
(* in which the thread pushed them, without a gap: the local channel       *)
(* implements the safe part of Streams, although threads race for the      *)
(* room and a token may be read before its thread has gone on.             *)
(***************************************************************************)
THEOREM LocalStreams == Spec => Reliable!SafeSpec
<1>1. Init => Reliable!Init
  BY DEF Init, Reliable!Init
<1>2. TypeOK /\ OrderInv /\ [Next]_vars => [Reliable!Next]_(Reliable!vars)
  <2>. SUFFICES ASSUME TypeOK, OrderInv, [Next]_vars
                PROVE  Reliable!Next \/ UNCHANGED <<sent, recv>>
    BY DEF Reliable!vars
  <2>1. ASSUME NEW p \in Thread, PushAppend(p)
        PROVE  Reliable!Send(p)
    BY <2>1 DEF PushAppend, Reliable!Send
  <2>2. ASSUME PopChunk
        PROVE  \E p \in Thread : Reliable!Deliver(p)
    <3>1. PICK k \in Chunk : k = Head(queue)
      BY <2>2, PoppedNext
    <3>2. PICK p \in Thread : p = k.thr
      BY DEF Chunk
    <3>3. k.seq = Len(recv[p]) + 1 /\ k.seq <= sent[p]
      BY <2>2, <3>1, <3>2, PoppedNext
    <3>4. recv' = [recv EXCEPT ![p] = Append(@, k.seq)] /\ UNCHANGED sent
      BY <2>2, <3>1, <3>2 DEF PopChunk
    <3>5. Len(recv[p]) \in Nat /\ sent[p] \in Nat
      BY DEF TypeOK
    <3>6. Len(recv[p]) < sent[p]
      BY <3>3, <3>5
    <3>7. recv' = [recv EXCEPT ![p] = Append(@, Len(@) + 1)]
      BY <3>3, <3>4
    <3>8. QED
      BY <3>4, <3>6, <3>7 DEF Reliable!Deliver
  <2>3. QED
    BY <2>1, <2>2
       DEF Next, vars, Reliable!Next, PushWait, PushToken, SpuriousWakeup, PopToken, PassOn, Unblock
<1>3. Init /\ [][Next]_vars => [](TypeOK /\ OrderInv)
  <2>1. IInv => TypeOK
    BY DEF IInv
  <2>2. QED
    BY <2>1, InitInv, NextInv, InitOrder, OrderNext, PTL
<1>4. QED
  BY <1>1, <1>2, <1>3, PTL DEF Spec, SafeSpec, Reliable!SafeSpec
=============================================================================
