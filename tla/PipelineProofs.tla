--------------------------- MODULE PipelineProofs ---------------------------
(***************************************************************************)
(* Proofs about Pipeline, for every topology, routing, load and limit.     *)
(* From the inductive invariant IInv: the network can only get stuck on a  *)
(* cycle of full channels, and acyclic routes exclude that; no queue       *)
(* outgrows LIMIT.  From the inductive invariant FlowInv, which follows    *)
(* every chunk along its route: streams are received in order and without  *)
(* a gap, and no chunk is lost or duplicated.                              *)
(***************************************************************************)
EXTENDS Pipeline, TLAPS, FiniteSetTheorems

-----------------------------------------------------------------------------
(***************************************************************************)
(* Sequences: what the queue operations of the handlers return.            *)
(***************************************************************************)
LEMMA AppendFacts ==
  ASSUME NEW S, NEW s \in Seq(S), NEW e \in S
  PROVE  /\ Append(s, e) \in Seq(S)
         /\ Len(Append(s, e)) = Len(s) + 1
         /\ Append(s, e) # <<>>
         /\ \A i \in 1..Len(s) : Append(s, e)[i] = s[i]
         /\ Append(s, e)[Len(s) + 1] = e
  OBVIOUS

LEMMA TailFacts ==
  ASSUME NEW S, NEW s \in Seq(S), s # <<>>
  PROVE  /\ Tail(s) \in Seq(S)
         /\ Len(s) \in Nat \ {0}
         /\ Len(Tail(s)) = Len(s) - 1
         /\ \A i \in 1..Len(s) - 1 : Tail(s)[i] = s[i + 1]
         /\ Head(s) = s[1]
         /\ Head(s) \in S
  OBVIOUS

LEMMA SubSeq1Facts ==
  ASSUME NEW S, NEW s \in Seq(S)
  PROVE  SubSeq(s, 1, Len(s)) = s
  OBVIOUS

LEMMA SubSeq2Facts ==
  ASSUME NEW S, NEW s \in Seq(S), s # <<>>
  PROVE  SubSeq(s, 2, Len(s)) = Tail(s)
  OBVIOUS

LEMMA ConcatNone ==
  ASSUME NEW S, NEW s \in Seq(S), NEW f(_)
  PROVE  s \o [i \in 1..0 |-> f(i)] = s
<1>1. [i \in 1..0 |-> f(i)] = <<>>
  OBVIOUS
<1>2. s \o <<>> = s
  OBVIOUS
<1>3. QED
  BY <1>1, <1>2

LEMMA ConcatOne ==
  ASSUME NEW S, NEW s \in Seq(S), NEW g, DOMAIN g = 1..1, g = [i \in 1..1 |-> g[i]],
         g[1] \in S
  PROVE  s \o g = Append(s, g[1])
<1>1. g = <<g[1]>>
  OBVIOUS
<1>2. s \o <<g[1]>> = Append(s, g[1])
  OBVIOUS
<1>3. QED
  BY <1>1, <1>2

-----------------------------------------------------------------------------
(***************************************************************************)
(* Channels and routes.                                                    *)
(***************************************************************************)
LEMMA LinkFacts ==
  ASSUME NEW c \in Link
  PROVE  /\ c[1] \in Node /\ c[2] \in Node
         /\ c = <<c[1], c[2]>>
         /\ c[1] # c[2]
         /\ Rev(c) \in Link
         /\ Rev(c)[1] = c[2]
         /\ Rev(Rev(c)) = c
         /\ c \in Chan
  BY TopologyAssumption DEF Rev, Chan

LEMMA LocalFacts ==
  ASSUME NEW n \in Node
  PROVE  /\ Local(n) \in Chan
         /\ Local(n) \notin Link
         /\ Local(n)[1] = n
         /\ Local(n) = <<n, n>>
  BY TopologyAssumption DEF Local, Chan

(***************************************************************************)
(* The next hop of a chunk that is at node Path[j], j < Len(Path).         *)
(***************************************************************************)
LEMMA NextHop ==
  ASSUME NEW t \in Stream, NEW j \in 1..Len(Path(t)) - 1
  PROVE  /\ ioman_get_nexthop_channel(Path(t)[j], t) = <<Path(t)[j], Path(t)[j + 1]>>
         /\ <<Path(t)[j], Path(t)[j + 1]>> \in Link
<1>1. /\ Len(Path(t)) \in Nat
      /\ \A i, k \in 1..Len(Path(t)) : Path(t)[i] = Path(t)[k] => i = k
      /\ \A i \in 1..Len(Path(t)) - 1 : <<Path(t)[i], Path(t)[i + 1]>> \in Link
  BY RouteAssumption
<1>2. (CHOOSE i \in 1..Len(Path(t)) - 1 : Path(t)[i] = Path(t)[j]) = j
  BY <1>1
<1>3. comm_node_lookup_rt(Path(t)[j], t) = Path(t)[j + 1]
  BY <1>2, Zenon DEF comm_node_lookup_rt
<1>4. QED
  BY <1>1, <1>3 DEF ioman_get_nexthop_channel

LEMMA NextHopFromSource ==
  ASSUME NEW n \in Node, NEW k, AtSource(k, n)
  PROVE  /\ k \in Chunk
         /\ ioman_get_nexthop_channel(n, k.str) \in Link
         /\ ioman_get_nexthop_channel(n, k.str)[1] = n
         /\ OnLink(k, ioman_get_nexthop_channel(n, k.str))
<1>1. k \in Chunk /\ k.str \in Stream /\ Src[k.str] = n
  BY DEF AtSource, Chunk
<1>2. Path(k.str)[1] = n /\ Len(Path(k.str)) >= 2 /\ Len(Path(k.str)) \in Nat
  BY <1>1, RouteAssumption
<1>3. 1 \in 1..Len(Path(k.str)) - 1
  BY <1>2
<1>4. /\ ioman_get_nexthop_channel(n, k.str) = <<Path(k.str)[1], Path(k.str)[1 + 1]>>
      /\ <<Path(k.str)[1], Path(k.str)[1 + 1]>> \in Link
  BY <1>1, <1>2, <1>3, NextHop
<1>5. QED
  BY <1>1, <1>2, <1>3, <1>4 DEF OnLink

(***************************************************************************)
(* A chunk that arrived over link a and is not yet at its destination goes *)
(* on over a link that depends on a.                                       *)
(***************************************************************************)
LEMMA NextHopFromLink ==
  ASSUME NEW a \in Link, NEW k \in Chunk, OnLink(k, a), Dst[k.str] # a[2]
  PROVE  /\ ioman_get_nexthop_channel(a[2], k.str) \in Link
         /\ ioman_get_nexthop_channel(a[2], k.str)[1] = a[2]
         /\ OnLink(k, ioman_get_nexthop_channel(a[2], k.str))
         /\ DependsOn(a, ioman_get_nexthop_channel(a[2], k.str))
<1>1. k.str \in Stream
  BY DEF Chunk
<1>. DEFINE p == Path(k.str)
<1>2. PICK i \in 1..Len(p) - 1 : a = <<p[i], p[i + 1]>>
  BY DEF OnLink
<1>3. Len(p) \in Nat /\ p[Len(p)] = Dst[k.str]
  BY <1>1, RouteAssumption
<1>4. a[2] = p[i + 1]
  BY <1>2
<1>5. i + 1 \in 1..Len(p) - 1 /\ i \in 1..Len(p) - 2
  BY <1>2, <1>3, <1>4
<1>6. /\ ioman_get_nexthop_channel(a[2], k.str) = <<p[i + 1], p[(i + 1) + 1]>>
      /\ <<p[i + 1], p[(i + 1) + 1]>> \in Link
  BY <1>1, <1>4, <1>5, NextHop
<1>7. (i + 1) + 1 = i + 2
  BY <1>3
<1>8. OnLink(k, ioman_get_nexthop_channel(a[2], k.str))
  BY <1>5, <1>6 DEF OnLink
<1>9. DependsOn(a, ioman_get_nexthop_channel(a[2], k.str))
  BY <1>1, <1>2, <1>5, <1>6, <1>7 DEF DependsOn
<1>10. QED
  BY <1>4, <1>6, <1>8, <1>9

-----------------------------------------------------------------------------
(***************************************************************************)
(* Passing a chunk on (channel_pipeline_chunk) preserves what the wait     *)
(* queues promise.  q is the queues as the calling handler has left them.  *)
(***************************************************************************)
PipelineCall(c, k, next, q) ==
  /\ c \in Chan /\ state[c] = "ACTIVE"
  /\ k \in Chunk
  /\ next \in Link /\ OnLink(k, next)
  /\ next = ioman_get_nexthop_channel(c[1], k.str)
  /\ q \in [Chan -> Seq(Msg)]
  /\ \A l \in Link : q[l] = queue[l]
  /\ channel_pipeline_chunk(c, k, next, q)

LEMMA PipelineTypes ==
  ASSUME TypeOK, NEW c, NEW k, NEW next, NEW q, PipelineCall(c, k, next, q)
  PROVE  /\ queue' \in [Chan -> Seq(Msg)]
         /\ state' \in [Chan -> {"ACTIVE", "BLOCKING"}]
         /\ curr' \in [Chan -> Msg \cup {NULL}]
         /\ waitq' \in [Link -> Seq(Chan)]
<1>1. /\ c \in Chan /\ next \in Link /\ next \in Chan /\ k \in Msg
      /\ q[next] \in Seq(Msg) /\ waitq[next] \in Seq(Chan)
      /\ q \in [Chan -> Seq(Msg)]
  BY LinkFacts DEF PipelineCall, TypeOK, Msg
<1>2. Append(q[next], k) \in Seq(Msg) /\ Append(waitq[next], c) \in Seq(Chan)
  BY <1>1, AppendFacts
<1>3. channel_pipeline_chunk(c, k, next, q)
  BY DEF PipelineCall
<1>4. QED
  BY <1>1, <1>2, <1>3, ZenonT(60) DEF channel_pipeline_chunk, TypeOK

(***************************************************************************)
(* The two outcomes, channel by channel.                                   *)
(***************************************************************************)
LEMMA PipelineEffect ==
  ASSUME TypeOK, NEW c, NEW k, NEW next, NEW q, PipelineCall(c, k, next, q)
  PROVE  /\ \A d \in Chan : d # c => state'[d] = state[d] /\ curr'[d] = curr[d]
         /\ \A d \in Chan : d # next => queue'[d] = q[d]
         /\ \A d \in Link : d # next => waitq'[d] = waitq[d]
         /\ \/ /\ Len(queue[next]) < LIMIT
               /\ state'[c] = "ACTIVE" /\ curr'[c] = NULL
               /\ queue'[next] = Append(queue[next], k)
               /\ waitq'[next] = waitq[next]
            \/ /\ Len(queue[next]) >= LIMIT
               /\ state'[c] = "BLOCKING" /\ curr'[c] = k
               /\ queue'[next] = queue[next]
               /\ waitq'[next] = Append(waitq[next], c)
<1>1. /\ c \in Chan /\ next \in Link /\ next \in Chan /\ q[next] = queue[next]
      /\ q \in [Chan -> Seq(Msg)]
  BY LinkFacts DEF PipelineCall
<1>2. channel_pipeline_chunk(c, k, next, q)
  BY DEF PipelineCall
<1>3. CASE Len(q[next]) < LIMIT /\ UNCHANGED waitq
  BY <1>1, <1>2, <1>3 DEF channel_pipeline_chunk, TypeOK
<1>4. CASE Len(q[next]) >= LIMIT /\ ~ UNCHANGED waitq
  BY <1>1, <1>2, <1>4 DEF channel_pipeline_chunk, TypeOK
<1>5. CASE Len(q[next]) >= LIMIT /\ UNCHANGED waitq
  BY <1>1, <1>2, <1>5 DEF channel_pipeline_chunk, TypeOK
<1>6. QED
  BY <1>2, <1>3, <1>4, <1>5 DEF channel_pipeline_chunk

LEMMA PipelineWaitersFull ==
  ASSUME TypeOK, WaitersFull, NEW c, NEW k, NEW next, NEW q, PipelineCall(c, k, next, q)
  PROVE  WaitersFull'
<1>. SUFFICES ASSUME NEW d \in Link, waitq'[d] # <<>>
              PROVE  Len(queue'[d]) >= LIMIT
  BY DEF WaitersFull
<1>1. d \in Chan /\ queue[d] \in Seq(Msg) /\ q[d] = queue[d] /\ k \in Msg
  BY LinkFacts DEF TypeOK, PipelineCall, Msg
<1>2. CASE d # next
  BY <1>1, <1>2, PipelineEffect DEF WaitersFull
<1>3. CASE d = next
  BY <1>1, <1>3, PipelineEffect, BoundAssumption, AppendFacts DEF WaitersFull
<1>4. QED
  BY <1>2, <1>3

LEMMA PipelineBlockedOnce ==
  ASSUME TypeOK, BlockedOnce, NEW c, NEW k, NEW next, NEW q, PipelineCall(c, k, next, q)
  PROVE  BlockedOnce'
<1>1. \A l \in Link : \A i \in 1..Len(waitq[l]) : waitq[l][i] # c
  BY DEF BlockedOnce, WaitsFor, PipelineCall
<1>2. c \in Chan /\ next \in Link /\ k \in Chunk
  BY DEF PipelineCall
<1>3. \A l \in Link : waitq[l] \in Seq(Chan) /\ waitq'[l] \in Seq(Chan)
  BY PipelineTypes DEF TypeOK
<1>4. \A l \in Link : \A d \in Chan : d # c /\ WaitsFor(d, l) => WaitsFor(d, l)'
  BY PipelineEffect DEF WaitsFor
<1>5. CASE Len(queue[next]) < LIMIT
  <2>1. /\ state'[c] = "ACTIVE"
        /\ \A l \in Link : waitq'[l] = waitq[l]
    <3>1. next \in Chan /\ Len(queue[next]) \in Nat
      BY <1>2, LinkFacts DEF TypeOK
    <3>2. ~ (Len(queue[next]) >= LIMIT)
      BY <1>5, <3>1, BoundAssumption
    <3>3. state'[c] = "ACTIVE" /\ waitq'[next] = waitq[next]
      BY <3>2, PipelineEffect
    <3>4. QED
      BY <3>3, PipelineEffect
  <2>2. \A d \in Chan : state'[d] = "BLOCKING" => state[d] = "BLOCKING"
    BY <2>1, PipelineEffect
  <2>3. ASSUME NEW l \in Link, NEW i \in 1..Len(waitq'[l]), NEW d, d = waitq'[l][i]
        PROVE  WaitsFor(d, l)'
    <3>1. d \in Chan /\ d # c /\ WaitsFor(d, l)
      BY <2>1, <2>3, <1>1, <1>3 DEF BlockedOnce
    <3>2. QED
      BY <3>1, <1>4
  <2>4. QED
    BY <2>1, <2>2, <2>3 DEF BlockedOnce, WaitsFor
<1>6. CASE Len(queue[next]) >= LIMIT
  <2>1. /\ state'[c] = "BLOCKING" /\ curr'[c] = k
        /\ waitq'[next] = Append(waitq[next], c)
        /\ \A l \in Link : l # next => waitq'[l] = waitq[l]
    <3>1. ~ (Len(queue[next]) < LIMIT)
      BY <1>6, <1>2, LinkFacts, BoundAssumption DEF TypeOK
    <3>2. QED
      <4>1. \A l \in Link : l # next => waitq'[l] = waitq[l]
        BY PipelineEffect
      <4>2. QED
        BY <3>1, <4>1, PipelineEffect
  <2>2. WaitsFor(c, next)'
    BY <2>1, <1>2 DEF WaitsFor, PipelineCall
  <2>3. /\ Len(waitq'[next]) = Len(waitq[next]) + 1
        /\ \A i \in 1..Len(waitq[next]) : waitq'[next][i] = waitq[next][i]
        /\ waitq'[next][Len(waitq[next]) + 1] = c
        /\ Len(waitq[next]) \in Nat
    BY <2>1, <1>2, <1>3, AppendFacts
  <2>4. ASSUME NEW l \in Link, NEW i \in 1..Len(waitq'[l])
        PROVE  /\ l = next /\ i = Len(waitq[l]) + 1 => waitq'[l][i] = c
               /\ ~ (l = next /\ i = Len(waitq[l]) + 1) =>
                    i \in 1..Len(waitq[l]) /\ waitq'[l][i] = waitq[l][i]
    <3>1. CASE l = next
      BY <3>1, <2>1, <2>3, <1>1, <1>3, <1>4 DEF BlockedOnce
    <3>2. CASE l # next
      BY <3>2, <2>1, <1>1, <1>3, <1>4 DEF BlockedOnce
    <3>3. QED
      BY <3>1, <3>2
  <2>5. ASSUME NEW l \in Link, NEW i \in 1..Len(waitq'[l]), NEW d, d = waitq'[l][i]
        PROVE  WaitsFor(d, l)'
    <3>1. CASE l = next /\ i = Len(waitq[l]) + 1
      <4>1. d = c
        BY <3>1, <2>4, <2>5
      <4>2. QED
        BY <4>1, <3>1, <2>2
    <3>2. CASE ~ (l = next /\ i = Len(waitq[l]) + 1)
      <4>1. i \in 1..Len(waitq[l]) /\ d = waitq[l][i]
        BY <3>2, <2>4, <2>5
      <4>2. d \in Chan /\ d # c /\ WaitsFor(d, l)
        BY <4>1, <1>1, <1>3 DEF BlockedOnce
      <4>3. QED
        BY <4>2, <1>4
    <3>3. QED
      BY <3>1, <3>2
  <2>6. \A l \in Link : \A i, j \in 1..Len(waitq'[l]) : waitq'[l][i] = waitq'[l][j] => i = j
    BY <2>4, <1>1 DEF BlockedOnce
  <2>7. ASSUME NEW d \in Chan, state'[d] = "BLOCKING"
        PROVE  \E l \in Link : \E i \in 1..Len(waitq'[l]) : waitq'[l][i] = d
    <3>1. CASE d = c
      BY <3>1, <2>3, <1>2
    <3>2. CASE d # c
      <4>1. state[d] = "BLOCKING"
        BY <3>2, <2>7, PipelineEffect
      <4>2. PICK l \in Link : \E i \in 1..Len(waitq[l]) : waitq[l][i] = d
        BY <4>1 DEF BlockedOnce
      <4>3. PICK i \in 1..Len(waitq[l]) : waitq[l][i] = d
        BY <4>2
      <4>4. i \in 1..Len(waitq'[l]) /\ waitq'[l][i] = d
        BY <4>3, <2>1, <2>3
      <4>5. QED
        BY <4>4
    <3>3. QED
      BY <3>1, <3>2
  <2>8. QED
    BY <2>5, <2>6, <2>7 DEF BlockedOnce, WaitsFor
<1>7. QED
  BY <1>2, <1>5, <1>6, LinkFacts, BoundAssumption DEF TypeOK

(***************************************************************************)
(* Chunks passed on stay on their route.                                   *)
(***************************************************************************)
LEMMA PipelineRouted ==
  ASSUME TypeOK, Routed, NEW c, NEW k, NEW next, NEW q, PipelineCall(c, k, next, q),
         c \in Link => OnLink(k, Rev(c)) /\ Dst[k.str] # c[1],
         \A n \in Node : c = Local(n) => AtSource(k, n),
         \A n \in Node : \A i \in 1..Len(q[Local(n)]) : AtSource(q[Local(n)][i], n)
  PROVE  /\ \A d \in Link : /\ \A i \in 1..Len(queue'[d]) : OnLink(queue'[d][i], d)
                            /\ curr'[d] # NULL => OnLink(curr'[d], Rev(d))
                            /\ state'[d] = "BLOCKING" => Dst[curr'[d].str] # d[1]
         /\ \A n \in Node : /\ \A i \in 1..Len(queue'[Local(n)]) : AtSource(queue'[Local(n)][i], n)
                            /\ curr'[Local(n)] # NULL => AtSource(curr'[Local(n)], n)
<1>1. /\ c \in Chan /\ next \in Link /\ k \in Chunk /\ OnLink(k, next) /\ k \in Msg
      /\ \A l \in Link : q[l] = queue[l] /\ queue[l] \in Seq(Msg) /\ l \in Chan
  BY LinkFacts DEF PipelineCall, TypeOK, Msg
<1>2. ASSUME NEW d \in Link
      PROVE  \A i \in 1..Len(queue'[d]) : OnLink(queue'[d][i], d)
  <2>1. CASE queue'[d] = queue[d]
    BY <2>1 DEF Routed
  <2>2. CASE d = next /\ queue'[d] = Append(queue[d], k)
    <3>1. \A i \in 1..Len(queue[d]) : OnLink(queue[d][i], d)
      BY DEF Routed
    <3>. HIDE DEF OnLink
    <3>2. QED
      BY <1>1, <2>2, <3>1, AppendFacts
  <2>3. QED
    BY <1>1, <2>1, <2>2, PipelineEffect
<1>3. ASSUME NEW d \in Link
      PROVE  /\ curr'[d] # NULL => OnLink(curr'[d], Rev(d))
             /\ state'[d] = "BLOCKING" => Dst[curr'[d].str] # d[1]
  <2>1. CASE d = c
    BY <1>1, <2>1, PipelineEffect
  <2>2. CASE d # c
    BY <1>1, <2>2, PipelineEffect DEF Routed
  <2>3. QED
    BY <2>1, <2>2
<1>4. ASSUME NEW n \in Node
      PROVE  /\ \A i \in 1..Len(queue'[Local(n)]) : AtSource(queue'[Local(n)][i], n)
             /\ curr'[Local(n)] # NULL => AtSource(curr'[Local(n)], n)
  <2>1. Local(n) \in Chan /\ Local(n) # next
    BY <1>1, LocalFacts
  <2>2. queue'[Local(n)] = q[Local(n)]
    BY <2>1, PipelineEffect
  <2>3. CASE c = Local(n)
    BY <2>2, <2>3, PipelineEffect
  <2>4. CASE c # Local(n)
    BY <2>1, <2>2, <2>4, PipelineEffect DEF Routed
  <2>5. QED
    BY <2>3, <2>4
<1>5. QED
  BY <1>2, <1>3, <1>4

-----------------------------------------------------------------------------
(***************************************************************************)
(* channel_write admits at most one waiting channel per message sent:      *)
(* while anybody waits the queue is full, and one message leaves room for  *)
(* one chunk.                                                              *)
(***************************************************************************)
LEMMA AdmittedOne ==
  ASSUME NEW c, NEW w, w = Len(waitq[c]), w \in Nat, w >= 1
  PROVE  Admitted(c, 1) = 1
<1>1. Admitted(c, 1) = IF w <= 1 THEN w ELSE 1
  BY DEF Admitted
<1>2. CASE w <= 1
  BY <1>1, <1>2
<1>3. CASE ~ (w <= 1)
  BY <1>1, <1>3
<1>4. QED
  BY <1>2, <1>3

LEMMA WriteBodyEffect ==
  ASSUME TypeOK, WaitersFull, BlockedOnce, NEW c \in Link, WriteBody(c)
  PROVE  /\ queue[c] # <<>> /\ head_off' = [head_off EXCEPT ![c] = 0]
         /\ UNCHANGED <<wire, sent, recv, ctrl>>
         /\ \A d \in Chan : d # c => queue'[d] = queue[d]
         /\ \A d \in Link : d # c => waitq'[d] = waitq[d]
         /\ \/ /\ waitq[c] # <<>> => Len(Tail(queue[c])) >= LIMIT
               /\ queue'[c] = Tail(queue[c])
               /\ waitq'[c] = waitq[c]
               /\ \A d \in Chan : state'[d] = state[d] /\ curr'[d] = curr[d]
            \/ /\ waitq[c] # <<>>
               /\ Len(Tail(queue[c])) = LIMIT - 1
               /\ queue'[c] = Append(Tail(queue[c]), curr[Head(waitq[c])])
               /\ waitq'[c] = Tail(waitq[c])
               /\ \A d \in Chan : IF d = Head(waitq[c])
                                  THEN state'[d] = "ACTIVE" /\ curr'[d] = NULL
                                  ELSE state'[d] = state[d] /\ curr'[d] = curr[d]
<1>. DEFINE rest == Tail(queue[c])
            n == IF Len(rest) < LIMIT THEN Admitted(c, LIMIT - Len(rest)) ELSE 0
            unblocked == {waitq[c][i] : i \in 1..n}
            g == [i \in 1..n |-> curr[waitq[c][i]]]
<1>1. /\ CanWrite(c) /\ head_off' = [head_off EXCEPT ![c] = 0]
      /\ queue' = [queue EXCEPT ![c] = rest \o g]
      /\ waitq' = [waitq EXCEPT ![c] = SubSeq(@, n + 1, Len(@))]
      /\ state' = [d \in Chan |-> IF d \in unblocked THEN "ACTIVE" ELSE state[d]]
      /\ curr' = [d \in Chan |-> IF d \in unblocked THEN NULL ELSE curr[d]]
      /\ UNCHANGED <<wire, sent, recv, ctrl>>
  BY Zenon DEF WriteBody
<1>2. /\ c \in Chan /\ queue[c] \in Seq(Msg) /\ queue[c] # <<>>
      /\ waitq[c] \in Seq(Chan) /\ Len(waitq[c]) \in Nat /\ LIMIT \in Nat \ {0}
  BY <1>1, LinkFacts, BoundAssumption DEF TypeOK, CanWrite
<1>3. /\ rest \in Seq(Msg) /\ Len(rest) \in Nat /\ Len(rest) = Len(queue[c]) - 1
  BY <1>2, TailFacts
<1>4. waitq[c] # <<>> => Len(rest) >= LIMIT - 1
  BY <1>2, <1>3 DEF WaitersFull
<1>5. /\ \A d \in Chan : d # c => queue'[d] = queue[d]
      /\ \A d \in Link : d # c => waitq'[d] = waitq[d]
      /\ queue'[c] = rest \o g
      /\ waitq'[c] = SubSeq(waitq[c], n + 1, Len(waitq[c]))
  <2>. HIDE DEF rest, n, g
  <2>1. QED
    BY <1>1, <1>2 DEF TypeOK
<1>6. CASE waitq[c] = <<>> \/ Len(rest) >= LIMIT
  <2>1. n = 0
    <3>1. waitq[c] = <<>> => Len(waitq[c]) = 0
      OBVIOUS
    <3>2. Len(rest) \in Nat /\ LIMIT \in Nat /\ Len(waitq[c]) \in Nat
      BY <1>2, <1>3
    <3>3. Len(rest) >= LIMIT \/ Len(waitq[c]) = 0
      BY <3>1, <1>6
    <3>. HIDE DEF rest
    <3>4. Len(rest) < LIMIT => Admitted(c, LIMIT - Len(rest)) = 0
      BY <3>2, <3>3 DEF Admitted
    <3>5. QED
      BY <3>2, <3>4
  <2>2. unblocked = {}
    BY <2>1
  <2>3. rest \o g = rest
    BY <2>1, <1>3, ConcatNone
  <2>4. SubSeq(waitq[c], n + 1, Len(waitq[c])) = waitq[c]
    BY <2>1, <1>2, SubSeq1Facts
  <2>5. \A d \in Chan : state'[d] = state[d] /\ curr'[d] = curr[d]
    BY <1>1, <2>2
  <2>6. QED
    BY <1>1, <1>2, <1>5, <1>6, <2>3, <2>4, <2>5
<1>7. CASE waitq[c] # <<>> /\ ~ (Len(rest) >= LIMIT)
  <2>1. n = 1 /\ Len(rest) = LIMIT - 1
    <3>1. Len(waitq[c]) >= 1
      BY <1>2, <1>7
    <3>2. Len(rest) \in Nat /\ LIMIT \in Nat /\ Len(waitq[c]) \in Nat
      BY <1>2, <1>3
    <3>3. ~ (Len(rest) >= LIMIT) /\ Len(rest) >= LIMIT - 1
      BY <1>4, <1>7
    <3>. HIDE DEF rest
    <3>4. Len(rest) < LIMIT /\ LIMIT - Len(rest) = 1 /\ Len(rest) = LIMIT - 1
      BY <3>2, <3>3
    <3>5. Admitted(c, 1) = 1
      BY <3>1, <3>2, AdmittedOne
    <3>6. QED
      BY <3>4, <3>5
  <2>2. Head(waitq[c]) = waitq[c][1] /\ 1 \in 1..Len(waitq[c])
    BY <1>2, <1>7
  <2>3. unblocked = {Head(waitq[c])}
    BY <2>1, <2>2
  <2>4. curr[waitq[c][1]] \in Msg
    BY <2>2 DEF BlockedOnce, WaitsFor, Msg
  <2>5. rest \o g = Append(rest, curr[Head(waitq[c])])
    <3>1. g = [i \in 1..1 |-> curr[waitq[c][i]]]
      BY <2>1
    <3>2. g[1] = curr[waitq[c][1]] /\ DOMAIN g = 1..1 /\ g = [i \in 1..1 |-> g[i]]
      BY <3>1
    <3>. HIDE DEF g, rest
    <3>3. QED
      BY <3>2, <2>2, <2>4, <1>3, ConcatOne
  <2>6. SubSeq(waitq[c], n + 1, Len(waitq[c])) = Tail(waitq[c])
    BY <2>1, <1>2, <1>7, SubSeq2Facts, SMTT(30)
  <2>7. \A d \in Chan : IF d = Head(waitq[c])
                        THEN state'[d] = "ACTIVE" /\ curr'[d] = NULL
                        ELSE state'[d] = state[d] /\ curr'[d] = curr[d]
    BY <1>1, <2>3
  <2>8. QED
    BY <1>1, <1>2, <1>5, <1>7, <2>1, <2>5, <2>6, <2>7
<1>8. QED
  BY <1>6, <1>7

-----------------------------------------------------------------------------
(***************************************************************************)
(* Every action preserves the invariant.                                   *)
(***************************************************************************)

(***************************************************************************)
(* Wait queues and the chunks held by blocked channels only change through *)
(* state, curr and waitq.                                                  *)
(***************************************************************************)
LEMMA BlockedOnceUnchanged ==
  ASSUME BlockedOnce, UNCHANGED <<state, curr, waitq>>
  PROVE  BlockedOnce'
  BY DEF BlockedOnce, WaitsFor

LEMMA BlockedOnceKept ==
  ASSUME TypeOK, BlockedOnce, UNCHANGED <<state, waitq>>, NEW c,
         state[c] = "ACTIVE", \A d \in Chan : d # c => curr'[d] = curr[d]
  PROVE  BlockedOnce'
<1>1. ASSUME NEW l \in Link, NEW i \in 1..Len(waitq[l]), NEW d, d = waitq[l][i]
      PROVE  WaitsFor(d, l)'
  <2>1. WaitsFor(d, l) /\ d \in Chan
    BY <1>1 DEF BlockedOnce, TypeOK
  <2>2. d # c
    BY <2>1 DEF WaitsFor
  <2>3. QED
    BY <2>1, <2>2 DEF WaitsFor
<1>2. QED
  BY <1>1 DEF BlockedOnce, WaitsFor

LEMMA SendDataInv ==
  ASSUME IInv, NEW t \in Stream, comm_node_send_data(t)
  PROVE  IInv'
<1>. DEFINE c == Local(Src[t])
            k == [str |-> t, seq |-> sent[t] + 1]
<1>. USE DEF IInv
<1>1. Src[t] \in Node /\ c \in Chan /\ c \notin Link
  BY RouteAssumption, LocalFacts
<1>2. k \in Chunk /\ k \in Msg /\ AtSource(k, Src[t])
  BY DEF TypeOK, Chunk, Msg, AtSource
<1>3. /\ queue' = [queue EXCEPT ![c] = Append(@, k)]
      /\ sent' = [sent EXCEPT ![t] = @ + 1]
      /\ UNCHANGED <<head_off, wire, state, curr, waitq, recv, ctrl>>
  BY DEF comm_node_send_data
<1>. HIDE DEF c, k
<1>4. TypeOK'
  <2>1. Append(queue[c], k) \in Seq(Msg)
    BY <1>1, <1>2, AppendFacts DEF TypeOK
  <2>2. QED
    BY <1>1, <1>3, <2>1 DEF TypeOK
<1>5. \A l \in Link : queue'[l] = queue[l]
  BY <1>1, <1>3, LinkFacts DEF TypeOK
<1>6. WaitersFull'
  BY <1>3, <1>5 DEF WaitersFull
<1>7. BlockedOnce'
  BY <1>3, BlockedOnceUnchanged
<1>8. Routed'
  <2>1. ASSUME NEW n \in Node, NEW i \in 1..Len(queue'[Local(n)])
        PROVE  AtSource(queue'[Local(n)][i], n)
    <3>1. CASE n = Src[t]
      <4>1. queue[c] \in Seq(Msg) /\ queue'[c] = Append(queue[c], k) /\ Local(n) = c
        BY <3>1, <1>1, <1>3 DEF TypeOK, c
      <4>2. \A j \in 1..Len(queue[c]) : AtSource(queue[c][j], n)
        BY <4>1 DEF Routed
      <4>3. QED
        BY <1>2, <3>1, <4>1, <4>2, AppendFacts
    <3>2. CASE n # Src[t]
      <4>1. Local(n) # c /\ Local(n) \in Chan
        BY <3>2, LocalFacts DEF c, Local
      <4>2. queue'[Local(n)] = queue[Local(n)]
        BY <4>1, <1>3 DEF TypeOK
      <4>3. QED
        BY <4>2 DEF Routed
    <3>3. QED
      BY <3>1, <3>2
  <2>2. QED
    BY <1>3, <1>5, <2>1 DEF Routed
<1>9. Framed'
  BY <1>3, <1>5 DEF Framed, BeingRead
<1>10. QED
  BY <1>4, <1>6, <1>7, <1>8, <1>9

LEMMA SendMsgInv ==
  ASSUME IInv, NEW c \in Link, channel_send_msg(c)
  PROVE  IInv'
<1>. USE DEF IInv
<1>1. /\ ctrl[c[1]] < NCtrl[c[1]] /\ ctrl' = [ctrl EXCEPT ![c[1]] = @ + 1]
      /\ queue' = [queue EXCEPT ![c] = Append(@, Ctrl)]
      /\ UNCHANGED <<head_off, wire, state, curr, waitq, sent, recv>>
  BY DEF channel_send_msg
<1>2. c \in Chan /\ c[1] \in Node /\ Ctrl \in Msg /\ queue[c] \in Seq(Msg)
  BY LinkFacts DEF Msg, TypeOK
<1>3. TypeOK'
  <2>1. Append(queue[c], Ctrl) \in Seq(Msg)
    BY <1>2, AppendFacts
  <2>2. ctrl' \in [Node -> Nat]
    BY <1>1, <1>2, BoundAssumption DEF TypeOK
  <2>3. QED
    BY <1>1, <1>2, <2>1, <2>2 DEF TypeOK
<1>4. /\ \A d \in Chan : d # c => queue'[d] = queue[d]
      /\ queue'[c] = Append(queue[c], Ctrl)
  BY <1>1, <1>2 DEF TypeOK
<1>5. WaitersFull'
  <2>. SUFFICES ASSUME NEW d \in Link, waitq'[d] # <<>>
                PROVE  Len(queue'[d]) >= LIMIT
    BY DEF WaitersFull
  <2>1. Len(queue[d]) >= LIMIT
    BY <1>1 DEF WaitersFull
  <2>2. CASE d = c
    <3>1. Len(queue'[d]) = Len(queue[d]) + 1 /\ Len(queue[d]) \in Nat
      BY <2>2, <1>2, <1>4, AppendFacts
    <3>2. QED
      BY <2>1, <3>1, BoundAssumption
  <2>3. CASE d # c
    BY <2>1, <2>3, <1>4, LinkFacts
  <2>4. QED
    BY <2>2, <2>3
<1>6. BlockedOnce'
  BY <1>1, BlockedOnceUnchanged
<1>7. Routed'
  <2>1. ASSUME NEW d \in Link, NEW i \in 1..Len(queue'[d])
        PROVE  OnLink(queue'[d][i], d)
    <3>1. CASE d = c
      <4>1. \A j \in 1..Len(queue[c]) : OnLink(queue[c][j], c)
        BY DEF Routed
      <4>2. OnLink(Ctrl, c)
        BY BoundAssumption DEF OnLink
      <4>3. QED
        BY <3>1, <4>1, <4>2, <1>2, <1>4, AppendFacts
    <3>2. CASE d # c
      BY <3>2, <1>4, LinkFacts DEF Routed
    <3>3. QED
      BY <3>1, <3>2
  <2>2. \A n \in Node : queue'[Local(n)] = queue[Local(n)]
    BY <1>4, LocalFacts
  <2>3. QED
    BY <1>1, <2>1, <2>2 DEF Routed
<1>8. Framed'
  <2>1. \A d \in Link : queue[d] # <<>> => queue'[d] # <<>>
    BY <1>2, <1>4, AppendFacts, LinkFacts
  <2>2. QED
    BY <1>1, <2>1 DEF Framed, BeingRead
<1>9. QED
  BY <1>3, <1>5, <1>6, <1>7, <1>8

LEMMA LocalReadInv ==
  ASSUME IInv, NEW n \in Node, ioman_process_local_channel_read(n)
  PROVE  IInv'
<1>. DEFINE c == Local(n)
            k == Head(queue[c])
            q == [queue EXCEPT ![c] = Tail(@)]
            next == ioman_get_nexthop_channel(n, k.str)
<1>. USE DEF IInv
<1>1. c \in Chan /\ c \notin Link /\ c[1] = n
  BY LocalFacts
<1>2. /\ state[c] = "ACTIVE" /\ queue[c] # <<>> /\ queue[c] \in Seq(Msg)
      /\ channel_pipeline_chunk(c, k, next, q)
      /\ UNCHANGED <<head_off, wire, sent, recv, ctrl>>
  BY <1>1 DEF ioman_process_local_channel_read, CanReadLocal, TypeOK
<1>3. /\ k = queue[c][1] /\ Len(queue[c]) \in Nat \ {0}
      /\ Tail(queue[c]) \in Seq(Msg) /\ Len(Tail(queue[c])) = Len(queue[c]) - 1
      /\ \A i \in 1..Len(queue[c]) - 1 : Tail(queue[c])[i] = queue[c][i + 1]
  BY <1>2, TailFacts
<1>4. AtSource(k, n)
  BY <1>3 DEF Routed
<1>5. /\ q \in [Chan -> Seq(Msg)]
      /\ \A d \in Chan : d # c => q[d] = queue[d]
      /\ q[c] = Tail(queue[c])
  <2>. HIDE DEF c
  <2>1. QED
    BY <1>1, <1>3 DEF TypeOK
<1>. HIDE DEF k, q, c
<1>6. PipelineCall(c, k, next, q)
  BY <1>1, <1>2, <1>4, <1>5, NextHopFromSource, LinkFacts DEF PipelineCall
<1>. HIDE DEF next
<1>7. TypeOK'
  BY <1>2, <1>6, PipelineTypes DEF TypeOK
<1>8. WaitersFull' /\ BlockedOnce'
  BY <1>6, PipelineWaitersFull, PipelineBlockedOnce
<1>9. Routed'
  <2>1. \A m \in Node : c = Local(m) => AtSource(k, m)
    BY <1>1, <1>4, LocalFacts
  <2>2. ASSUME NEW m \in Node, NEW i \in 1..Len(q[Local(m)])
        PROVE  AtSource(q[Local(m)][i], m)
    <3>1. CASE m = n
      BY <3>1, <1>3, <1>5 DEF Routed, c
    <3>2. CASE m # n
      <4>1. Local(m) # c /\ Local(m) \in Chan
        BY <3>2, <1>1, LocalFacts
      <4>2. QED
        BY <4>1, <1>5 DEF Routed
    <3>3. QED
      BY <3>1, <3>2
  <2>3. c \in Link => OnLink(k, Rev(c)) /\ Dst[k.str] # c[1]
    BY <1>1
  <2>4. /\ \A d \in Link : /\ \A i \in 1..Len(queue'[d]) : OnLink(queue'[d][i], d)
                           /\ curr'[d] # NULL => OnLink(curr'[d], Rev(d))
                           /\ state'[d] = "BLOCKING" => Dst[curr'[d].str] # d[1]
        /\ \A m \in Node : /\ \A i \in 1..Len(queue'[Local(m)]) : AtSource(queue'[Local(m)][i], m)
                           /\ curr'[Local(m)] # NULL => AtSource(curr'[Local(m)], m)
    BY <1>6, <2>1, <2>2, <2>3, PipelineRouted
  <2>5. \A d \in Link : \A i \in 1..Len(wire'[d]) : OnLink(wire'[d][i], d)
    BY <1>2 DEF Routed
  <2>6. QED
    BY <2>4, <2>5 DEF Routed
<1>10. Framed'
  <2>1. \A d \in Link : d \in Chan /\ d # c
    BY <1>1, LinkFacts
  <2>2. \A d \in Link : queue[d] # <<>> => queue'[d] # <<>>
    <3>. SUFFICES ASSUME NEW d \in Link, queue[d] # <<>>
                  PROVE  queue'[d] # <<>>
      OBVIOUS
    <3>1. q[d] = queue[d] /\ queue[d] \in Seq(Msg) /\ k \in Msg
      BY <1>4, <1>5, <2>1 DEF TypeOK, AtSource, Msg
    <3>2. queue'[d] = queue[d] \/ queue'[d] = Append(queue[d], k)
      BY <1>6, <2>1, <3>1, PipelineEffect
    <3>3. QED
      BY <3>1, <3>2, AppendFacts
  <2>3. \A d \in Link : BeingRead(d)' <=> BeingRead(d)
    BY <1>6, <2>1, PipelineEffect DEF BeingRead
  <2>4. \A m \in Node : ~ BeingRead(Local(m))'
    <3>. SUFFICES ASSUME NEW m \in Node
                  PROVE  ~ BeingRead(Local(m))'
      OBVIOUS
    <3>1. CASE Local(m) = c
      BY <3>1, <1>6, PipelineEffect DEF BeingRead
    <3>2. CASE Local(m) # c
      BY <3>2, <1>6, PipelineEffect, LocalFacts DEF BeingRead, Framed
    <3>3. QED
      BY <3>1, <3>2
  <2>5. QED
    BY <1>2, <2>2, <2>3, <2>4 DEF Framed
<1>11. QED
  BY <1>7, <1>8, <1>9, <1>10

LEMMA ReadHeaderInv ==
  ASSUME IInv, NEW c \in Link, ReadHeader(c)
  PROVE  IInv'
<1>. USE DEF IInv
<1>1. /\ state[c] = "ACTIVE" /\ curr[c] = NULL /\ wire[Rev(c)] # <<>>
      /\ curr' = [curr EXCEPT ![c] = Head(wire[Rev(c)])]
      /\ UNCHANGED <<queue, head_off, wire, state, waitq, sent, recv, ctrl>>
  BY DEF ReadHeader, CanReadHeader
<1>2. c \in Chan /\ Rev(c) \in Link /\ wire[Rev(c)] \in Seq(Msg)
  BY LinkFacts DEF TypeOK
<1>3. /\ Head(wire[Rev(c)]) = wire[Rev(c)][1] /\ Head(wire[Rev(c)]) \in Msg
      /\ 1 \in 1..Len(wire[Rev(c)])
  BY <1>1, <1>2, TailFacts
<1>4. \A d \in Chan : d # c => curr'[d] = curr[d]
  BY <1>1 DEF TypeOK
<1>5. TypeOK'
  BY <1>1, <1>2, <1>3 DEF TypeOK
<1>6. WaitersFull'
  BY <1>1 DEF WaitersFull
<1>7. BlockedOnce'
  BY <1>1, <1>4, BlockedOnceKept
<1>8. Routed'
  <2>1. OnLink(curr'[c], Rev(c))
    BY <1>1, <1>2, <1>3 DEF Routed, TypeOK
  <2>2. \A n \in Node : curr'[Local(n)] = curr[Local(n)]
    BY <1>4, LocalFacts
  <2>3. ASSUME NEW d \in Link
        PROVE  /\ curr'[d] # NULL => OnLink(curr'[d], Rev(d))
               /\ state'[d] = "BLOCKING" => Dst[curr'[d].str] # d[1]
    <3>1. CASE d = c
      BY <3>1, <2>1, <1>1
    <3>2. CASE d # c
      BY <3>2, <1>1, <1>4, LinkFacts DEF Routed
    <3>3. QED
      BY <3>1, <3>2
  <2>4. QED
    BY <1>1, <2>2, <2>3 DEF Routed
<1>9. Framed'
  <2>1. \A n \in Node : curr'[Local(n)] = curr[Local(n)]
    BY <1>4, LocalFacts
  <2>2. \A d \in Link : d # c => curr'[d] = curr[d]
    BY <1>4, LinkFacts
  <2>3. QED
    BY <1>1, <1>2, <2>1, <2>2 DEF Framed, BeingRead
<1>10. QED
  BY <1>5, <1>6, <1>7, <1>8, <1>9

(***************************************************************************)
(* ReadBody removes the message from the wire of the peer and leaves c     *)
(* with nothing being read.                                                *)
(***************************************************************************)
LEMMA ReadBodyWire ==
  ASSUME IInv, NEW c \in Link, ReadBody(c)
  PROVE  /\ wire' \in [Link -> Seq(Msg)]
         /\ \A d \in Link : d # Rev(c) => wire'[d] = wire[d]
         /\ \A d \in Link : \A i \in 1..Len(wire'[d]) : OnLink(wire'[d][i], d)
         /\ state[c] = "ACTIVE" /\ curr[c] # NULL /\ curr[c] \in Msg
         /\ OnLink(curr[c], Rev(c))
         /\ UNCHANGED <<head_off, sent, ctrl>>
<1>. USE DEF IInv
<1>1. /\ state[c] = "ACTIVE" /\ curr[c] # NULL /\ wire[Rev(c)] # <<>>
      /\ wire' = [wire EXCEPT ![Rev(c)] = Tail(@)]
      /\ UNCHANGED <<head_off, sent, ctrl>>
  BY DEF ReadBody, CanReadBody
<1>2. c \in Chan /\ Rev(c) \in Link /\ wire[Rev(c)] \in Seq(Msg) /\ curr[c] \in Msg
  BY <1>1, LinkFacts DEF TypeOK
<1>3. /\ Tail(wire[Rev(c)]) \in Seq(Msg) /\ Len(wire[Rev(c)]) \in Nat \ {0}
      /\ Len(Tail(wire[Rev(c)])) = Len(wire[Rev(c)]) - 1
      /\ \A i \in 1..Len(wire[Rev(c)]) - 1 : Tail(wire[Rev(c)])[i] = wire[Rev(c)][i + 1]
  BY <1>1, <1>2, TailFacts
<1>4. /\ wire' \in [Link -> Seq(Msg)]
      /\ \A d \in Link : d # Rev(c) => wire'[d] = wire[d]
      /\ wire'[Rev(c)] = Tail(wire[Rev(c)])
  BY <1>1, <1>2, <1>3 DEF TypeOK
<1>5. ASSUME NEW d \in Link, NEW i \in 1..Len(wire'[d])
      PROVE  OnLink(wire'[d][i], d)
  <2>1. CASE d = Rev(c)
    <3>1. /\ i + 1 \in 1..Len(wire[Rev(c)])
          /\ wire'[d][i] = wire[Rev(c)][i + 1]
      BY <2>1, <1>3, <1>4
    <3>2. QED
      BY <2>1, <3>1, <1>2 DEF Routed
  <2>2. CASE d # Rev(c)
    BY <2>2, <1>4 DEF Routed
  <2>3. QED
    BY <2>1, <2>2
<1>6. OnLink(curr[c], Rev(c))
  BY <1>1 DEF Routed
<1>7. QED
  BY <1>1, <1>2, <1>4, <1>5, <1>6

(***************************************************************************)
(* The first two outcomes of ReadBody: the message ends here.              *)
(***************************************************************************)
LEMMA ReadBodyEndsInv ==
  ASSUME IInv, NEW c \in Link, ReadBody(c),
         curr' = [curr EXCEPT ![c] = NULL],
         UNCHANGED <<queue, state, waitq>>,
         recv' \in [Stream -> Seq(Nat)]
  PROVE  IInv'
<1>. USE DEF IInv
<1>1. c \in Chan
  BY LinkFacts
<1>2. \A d \in Chan : d # c => curr'[d] = curr[d]
  BY <1>1 DEF TypeOK
<1>3. curr'[c] = NULL
  BY <1>1 DEF TypeOK
<1>4. TypeOK'
  BY <1>1, ReadBodyWire DEF TypeOK
<1>5. WaitersFull'
  BY DEF WaitersFull
<1>6. BlockedOnce'
  BY <1>2, ReadBodyWire, BlockedOnceKept
<1>7. Routed'
  <2>1. \A n \in Node : curr'[Local(n)] = curr[Local(n)]
    BY <1>2, LocalFacts
  <2>2. ASSUME NEW d \in Link
        PROVE  /\ curr'[d] # NULL => OnLink(curr'[d], Rev(d))
               /\ state'[d] = "BLOCKING" => Dst[curr'[d].str] # d[1]
    <3>1. CASE d = c
      BY <3>1, <1>3, ReadBodyWire
    <3>2. CASE d # c
      BY <3>2, <1>2, LinkFacts DEF Routed
    <3>3. QED
      BY <3>1, <3>2
  <2>3. \A d \in Link : \A i \in 1..Len(wire'[d]) : OnLink(wire'[d][i], d)
    BY ReadBodyWire
  <2>4. QED
    BY <2>1, <2>2, <2>3 DEF Routed
<1>8. Framed'
  <2>1. \A n \in Node : curr'[Local(n)] = curr[Local(n)]
    BY <1>2, LocalFacts
  <2>2. ASSUME NEW d \in Link, BeingRead(d)'
        PROVE  wire'[Rev(d)] # <<>>
    <3>1. d # c /\ BeingRead(d)
      BY <2>2, <1>2, <1>3, LinkFacts DEF BeingRead
    <3>2. Rev(d) # Rev(c) /\ Rev(d) \in Link
      BY <3>1, LinkFacts
    <3>3. wire'[Rev(d)] = wire[Rev(d)]
      BY <3>2, ReadBodyWire
    <3>4. QED
      BY <3>1, <3>3 DEF Framed
  <2>3. UNCHANGED head_off
    BY ReadBodyWire
  <2>4. QED
    BY <2>1, <2>2, <2>3 DEF Framed, BeingRead
<1>9. QED
  BY <1>4, <1>5, <1>6, <1>7, <1>8

(***************************************************************************)
(* The third outcome: the chunk is passed on.                              *)
(***************************************************************************)
LEMMA ReadBodyForwardInv ==
  ASSUME IInv, NEW c \in Link, ReadBody(c), curr[c] # Ctrl, Dst[curr[c].str] # c[1],
         channel_pipeline_chunk(c, curr[c], ioman_get_nexthop_channel(c[1], curr[c].str), queue),
         UNCHANGED recv
  PROVE  IInv'
<1>. DEFINE k == curr[c]
            next == ioman_get_nexthop_channel(c[1], k.str)
<1>. USE DEF IInv
<1>1. /\ c \in Chan /\ Rev(c) \in Link /\ Rev(c)[2] = c[1]
      /\ \A d \in Link : d \in Chan /\ Rev(d) \in Link /\ (d # c => Rev(d) # Rev(c))
  BY LinkFacts DEF Rev
<1>2. k \in Chunk /\ OnLink(k, Rev(c)) /\ state[c] = "ACTIVE"
  BY ReadBodyWire DEF Msg
<1>3. next \in Link /\ OnLink(k, next)
  BY <1>1, <1>2, NextHopFromLink
<1>4. PipelineCall(c, k, next, queue)
  BY <1>1, <1>2, <1>3, LinkFacts DEF PipelineCall, TypeOK
<1>. HIDE DEF k, next
<1>5. TypeOK'
  BY <1>4, PipelineTypes, ReadBodyWire DEF TypeOK
<1>6. WaitersFull' /\ BlockedOnce'
  BY <1>4, PipelineWaitersFull, PipelineBlockedOnce
<1>7. Routed'
  <2>1. c \in Link => OnLink(k, Rev(c)) /\ Dst[k.str] # c[1]
    BY <1>2 DEF k
  <2>2. \A m \in Node : c = Local(m) => AtSource(k, m)
    BY LocalFacts
  <2>3. \A m \in Node : \A i \in 1..Len(queue[Local(m)]) : AtSource(queue[Local(m)][i], m)
    BY DEF Routed
  <2>4. /\ \A d \in Link : /\ \A i \in 1..Len(queue'[d]) : OnLink(queue'[d][i], d)
                           /\ curr'[d] # NULL => OnLink(curr'[d], Rev(d))
                           /\ state'[d] = "BLOCKING" => Dst[curr'[d].str] # d[1]
        /\ \A m \in Node : /\ \A i \in 1..Len(queue'[Local(m)]) : AtSource(queue'[Local(m)][i], m)
                           /\ curr'[Local(m)] # NULL => AtSource(curr'[Local(m)], m)
    BY <1>4, <2>1, <2>2, <2>3, PipelineRouted
  <2>5. \A d \in Link : \A i \in 1..Len(wire'[d]) : OnLink(wire'[d][i], d)
    BY ReadBodyWire
  <2>6. QED
    BY <2>4, <2>5 DEF Routed
<1>8. Framed'
  <2>1. \A d \in Link : queue[d] # <<>> => queue'[d] # <<>>
    <3>. SUFFICES ASSUME NEW d \in Link, queue[d] # <<>>
                  PROVE  queue'[d] # <<>>
      OBVIOUS
    <3>1. queue[d] \in Seq(Msg) /\ k \in Msg
      BY <1>1, <1>2 DEF TypeOK, Msg
    <3>2. queue'[d] = queue[d] \/ queue'[d] = Append(queue[d], k)
      BY <1>4, <1>1, <3>1, PipelineEffect
    <3>3. QED
      BY <3>1, <3>2, AppendFacts
  <2>2. ~ BeingRead(c)'
    BY <1>4, PipelineEffect DEF BeingRead
  <2>3. ASSUME NEW d \in Link, BeingRead(d)'
        PROVE  wire'[Rev(d)] # <<>>
    <3>1. d # c
      BY <2>2, <2>3
    <3>2. BeingRead(d)
      BY <2>3, <3>1, <1>1, <1>4, PipelineEffect DEF BeingRead
    <3>3. wire'[Rev(d)] = wire[Rev(d)]
      BY <3>1, <1>1, ReadBodyWire
    <3>4. QED
      BY <3>2, <3>3 DEF Framed
  <2>4. ASSUME NEW m \in Node
        PROVE  ~ BeingRead(Local(m))'
    <3>1. Local(m) \in Chan /\ Local(m) # c
      BY LocalFacts
    <3>2. state'[Local(m)] = state[Local(m)] /\ curr'[Local(m)] = curr[Local(m)]
      BY <3>1, <1>4, PipelineEffect
    <3>3. QED
      BY <3>2 DEF Framed, BeingRead
  <2>5. UNCHANGED head_off
    BY ReadBodyWire
  <2>6. QED
    BY <2>1, <2>3, <2>4, <2>5 DEF Framed
<1>9. QED
  BY <1>5, <1>6, <1>7, <1>8

LEMMA ReadBodyInv ==
  ASSUME IInv, NEW c \in Link, ReadBody(c)
  PROVE  IInv'
<1>1. CASE curr[c] = Ctrl
  BY <1>1, ReadBodyEndsInv DEF ReadBody, IInv, TypeOK
<1>2. CASE curr[c] # Ctrl /\ Dst[curr[c].str] = c[1]
  <2>1. curr[c].str \in Stream /\ curr[c].seq \in Nat
    BY <1>2, ReadBodyWire DEF Msg, Chunk
  <2>2. /\ curr' = [curr EXCEPT ![c] = NULL]
        /\ UNCHANGED <<queue, state, waitq>>
        /\ recv' = [recv EXCEPT ![curr[c].str] = Append(@, curr[c].seq)]
    BY <1>2 DEF ReadBody
  <2>3. recv' \in [Stream -> Seq(Nat)]
    BY <2>1, <2>2 DEF IInv, TypeOK
  <2>4. QED
    BY <2>2, <2>3, ReadBodyEndsInv
<1>3. CASE curr[c] # Ctrl /\ Dst[curr[c].str] # c[1]
  BY <1>3, ReadBodyForwardInv DEF ReadBody
<1>4. QED
  BY <1>1, <1>2, <1>3

LEMMA WriteHeaderInv ==
  ASSUME IInv, NEW c \in Link, WriteHeader(c)
  PROVE  IInv'
<1>. USE DEF IInv
<1>1. /\ queue[c] # <<>>
      /\ head_off' = [head_off EXCEPT ![c] = 1]
      /\ wire' = [wire EXCEPT ![c] = Append(@, Head(queue[c]))]
      /\ UNCHANGED <<queue, state, curr, waitq, sent, recv, ctrl>>
  BY DEF WriteHeader, CanWrite
<1>2. queue[c] \in Seq(Msg) /\ wire[c] \in Seq(Msg)
  BY LinkFacts DEF TypeOK
<1>3. Head(queue[c]) \in Msg /\ Head(queue[c]) = queue[c][1] /\ 1 \in 1..Len(queue[c])
  BY <1>1, <1>2, TailFacts
<1>4. /\ wire' \in [Link -> Seq(Msg)]
      /\ \A d \in Link : d # c => wire'[d] = wire[d]
      /\ wire'[c] = Append(wire[c], Head(queue[c]))
  <2>1. Append(wire[c], Head(queue[c])) \in Seq(Msg)
    BY <1>2, <1>3, AppendFacts
  <2>2. QED
    BY <1>1, <2>1 DEF TypeOK
<1>5. TypeOK'
  BY <1>1, <1>4 DEF TypeOK
<1>6. WaitersFull'
  BY <1>1 DEF WaitersFull
<1>7. BlockedOnce'
  BY <1>1, BlockedOnceUnchanged
<1>8. Routed'
  <2>1. ASSUME NEW d \in Link, NEW i \in 1..Len(wire'[d])
        PROVE  OnLink(wire'[d][i], d)
    <3>1. CASE d = c
      <4>1. \A j \in 1..Len(wire[c]) : OnLink(wire[c][j], c)
        BY DEF Routed
      <4>2. OnLink(Head(queue[c]), c)
        BY <1>3 DEF Routed
      <4>3. QED
        BY <3>1, <4>1, <4>2, <1>2, <1>3, <1>4, AppendFacts
    <3>2. CASE d # c
      BY <3>2, <1>4 DEF Routed
    <3>3. QED
      BY <3>1, <3>2
  <2>2. QED
    BY <1>1, <2>1 DEF Routed
<1>9. Framed'
  <2>1. \A d \in Link : head_off'[d] = 1 => queue'[d] # <<>>
    BY <1>1 DEF Framed, TypeOK
  <2>2. \A d \in Link : wire[d] # <<>> => wire'[d] # <<>>
    BY <1>2, <1>3, <1>4, AppendFacts
  <2>3. QED
    BY <1>1, <2>1, <2>2, LinkFacts DEF Framed, BeingRead
<1>10. QED
  BY <1>5, <1>6, <1>7, <1>8, <1>9

(***************************************************************************)
(* The chunk a waiting channel holds has the link it waits for on its      *)
(* route.                                                                  *)
(***************************************************************************)
LEMMA WaiterOnLink ==
  ASSUME IInv, NEW w \in Chan, NEW c \in Link, WaitsFor(w, c)
  PROVE  /\ OnLink(curr[w], c)
         /\ w \in Link => DependsOn(Rev(w), c)
<1>. USE DEF IInv
<1>1. /\ state[w] = "BLOCKING" /\ curr[w] \in Chunk /\ curr[w] # NULL
      /\ c = ioman_get_nexthop_channel(w[1], curr[w].str)
  BY BoundAssumption DEF WaitsFor, Msg
<1>2. CASE w \in Link
  <2>1. OnLink(curr[w], Rev(w)) /\ Dst[curr[w].str] # w[1]
    BY <1>1, <1>2 DEF Routed
  <2>2. Rev(w) \in Link /\ Rev(w)[2] = w[1]
    BY <1>2, LinkFacts DEF Rev
  <2>3. QED
    BY <1>1, <2>1, <2>2, NextHopFromLink
<1>3. CASE w \notin Link
  <2>1. PICK n \in Node : w = Local(n)
    BY <1>3 DEF Chan
  <2>2. AtSource(curr[w], n) /\ w[1] = n
    BY <1>1, <2>1, LocalFacts DEF Routed
  <2>3. QED
    BY <1>1, <1>3, <2>2, NextHopFromSource
<1>4. QED
  BY <1>2, <1>3

LEMMA WriteBodyTypes ==
  ASSUME TypeOK, WaitersFull, BlockedOnce, NEW c \in Link, WriteBody(c)
  PROVE  TypeOK'
<1>1. /\ queue' = [queue EXCEPT ![c] = queue'[c]]
      /\ waitq' = [waitq EXCEPT ![c] = waitq'[c]]
  <2>1. \E x, y : /\ queue' = [queue EXCEPT ![c] = x]
                  /\ waitq' = [waitq EXCEPT ![c] = y]
    BY Zenon DEF WriteBody
  <2>2. c \in Chan
    BY LinkFacts
  <2>3. QED
    BY <2>1, <2>2 DEF TypeOK
<1>2. \E U : /\ state' = [d \in Chan |-> IF d \in U THEN "ACTIVE" ELSE state[d]]
             /\ curr' = [d \in Chan |-> IF d \in U THEN NULL ELSE curr[d]]
  BY Zenon DEF WriteBody
<1>3. /\ state' \in [Chan -> {"ACTIVE", "BLOCKING"}]
      /\ curr' \in [Chan -> Msg \cup {NULL}]
  BY <1>2 DEF TypeOK
<1>4. queue[c] \in Seq(Msg) /\ queue[c] # <<>> /\ waitq[c] \in Seq(Chan)
  BY WriteBodyEffect, LinkFacts DEF TypeOK
<1>5. Tail(queue[c]) \in Seq(Msg)
  BY <1>4, TailFacts
<1>6. waitq[c] # <<>> => /\ Tail(waitq[c]) \in Seq(Chan)
                         /\ curr[Head(waitq[c])] \in Msg
  <2>. SUFFICES ASSUME waitq[c] # <<>>
                PROVE  /\ Tail(waitq[c]) \in Seq(Chan)
                       /\ curr[Head(waitq[c])] \in Msg
    OBVIOUS
  <2>1. /\ Tail(waitq[c]) \in Seq(Chan) /\ Head(waitq[c]) = waitq[c][1]
        /\ 1 \in 1..Len(waitq[c])
    BY <1>4, TailFacts
  <2>2. QED
    BY <2>1 DEF BlockedOnce, WaitsFor, Msg
<1>7. queue'[c] \in Seq(Msg) /\ waitq'[c] \in Seq(Chan)
  <2>1. \/ queue'[c] = Tail(queue[c]) /\ waitq'[c] = waitq[c]
        \/ /\ waitq[c] # <<>>
           /\ queue'[c] = Append(Tail(queue[c]), curr[Head(waitq[c])])
           /\ waitq'[c] = Tail(waitq[c])
    BY WriteBodyEffect
  <2>2. CASE queue'[c] = Tail(queue[c]) /\ waitq'[c] = waitq[c]
    BY <2>2, <1>4, <1>5
  <2>3. CASE /\ waitq[c] # <<>>
             /\ queue'[c] = Append(Tail(queue[c]), curr[Head(waitq[c])])
             /\ waitq'[c] = Tail(waitq[c])
    BY <2>3, <1>5, <1>6, AppendFacts
  <2>4. QED
    BY <2>1, <2>2, <2>3
<1>8. queue' \in [Chan -> Seq(Msg)] /\ waitq' \in [Link -> Seq(Chan)]
  BY <1>1, <1>7 DEF TypeOK
<1>9. head_off' \in [Link -> {0, 1}] /\ UNCHANGED <<wire, sent, recv, ctrl>>
  BY WriteBodyEffect DEF TypeOK
<1>10. QED
  BY <1>3, <1>8, <1>9 DEF TypeOK

(***************************************************************************)
(* The first outcome of WriteBody: nobody is admitted.                     *)
(***************************************************************************)
LEMMA WriteBodyNobodyInv ==
  ASSUME IInv, NEW c \in Link, WriteBody(c),
         waitq[c] # <<>> => Len(Tail(queue[c])) >= LIMIT,
         queue'[c] = Tail(queue[c]),
         waitq'[c] = waitq[c],
         \A d \in Chan : state'[d] = state[d] /\ curr'[d] = curr[d]
  PROVE  IInv'
<1>. USE DEF IInv
<1>1. /\ queue[c] # <<>> /\ head_off' = [head_off EXCEPT ![c] = 0]
      /\ UNCHANGED <<wire, sent, recv, ctrl>>
      /\ \A d \in Chan : d # c => queue'[d] = queue[d]
      /\ \A d \in Link : waitq'[d] = waitq[d]
  BY WriteBodyEffect
<1>2. queue[c] \in Seq(Msg)
  BY LinkFacts DEF TypeOK
<1>3. TypeOK'
  BY WriteBodyTypes
<1>4. WaitersFull'
  <2>1. \A d \in Link : d # c => queue'[d] = queue[d]
    BY <1>1, LinkFacts
  <2>2. QED
    BY <1>1, <2>1 DEF WaitersFull
<1>5. BlockedOnce'
  <2>1. \A l \in Link : \A d \in Chan : WaitsFor(d, l) => WaitsFor(d, l)'
    BY DEF WaitsFor
  <2>2. ASSUME NEW l \in Link, NEW i \in 1..Len(waitq'[l]), NEW d, d = waitq'[l][i]
        PROVE  WaitsFor(d, l)'
    <3>1. WaitsFor(d, l) /\ d \in Chan
      BY <2>2, <1>1 DEF BlockedOnce, TypeOK
    <3>2. QED
      BY <3>1, <2>1
  <2>3. QED
    BY <1>1, <2>2 DEF BlockedOnce, WaitsFor
<1>6. Routed'
  <2>1. ASSUME NEW d \in Link, NEW i \in 1..Len(queue'[d])
        PROVE  OnLink(queue'[d][i], d)
    <3>1. CASE d = c
      <4>1. /\ Len(Tail(queue[c])) = Len(queue[c]) - 1 /\ Len(queue[c]) \in Nat
            /\ \A j \in 1..Len(queue[c]) - 1 : Tail(queue[c])[j] = queue[c][j + 1]
        BY <1>1, <1>2, TailFacts
      <4>2. queue'[d] = Tail(queue[c])
        BY <3>1
      <4>3. i \in 1..Len(queue[c]) - 1
        BY <4>1, <4>2
      <4>4. i + 1 \in 1..Len(queue[c])
        BY <4>1, <4>3
      <4>5. queue'[d][i] = queue[c][i + 1]
        BY <4>1, <4>2, <4>3
      <4>6. QED
        BY <3>1, <4>4, <4>5 DEF Routed
    <3>2. CASE d # c
      BY <3>2, <1>1, LinkFacts DEF Routed
    <3>3. QED
      BY <3>1, <3>2
  <2>2. \A n \in Node : queue'[Local(n)] = queue[Local(n)] /\ Local(n) \in Chan
    BY <1>1, LocalFacts
  <2>3. QED
    BY <1>1, <2>1, <2>2, LinkFacts DEF Routed
<1>7. Framed'
  <2>1. ASSUME NEW d \in Link, head_off'[d] = 1
        PROVE  queue'[d] # <<>>
    <3>1. d # c /\ head_off[d] = 1
      BY <1>1, <2>1 DEF TypeOK
    <3>2. QED
      BY <3>1, <1>1, LinkFacts DEF Framed
  <2>2. \A d \in Chan : BeingRead(d)' <=> BeingRead(d)
    BY DEF BeingRead
  <2>3. QED
    BY <1>1, <2>1, <2>2, LinkFacts, LocalFacts DEF Framed
<1>8. QED
  BY <1>3, <1>4, <1>5, <1>6, <1>7

(***************************************************************************)
(* The second outcome: the first waiting channel, w, is admitted.          *)
(***************************************************************************)
LEMMA WriteBodyAdmitInv ==
  ASSUME IInv, NEW c \in Link, WriteBody(c),
         waitq[c] # <<>>,
         Len(Tail(queue[c])) = LIMIT - 1,
         NEW w, w = Head(waitq[c]),
         queue'[c] = Append(Tail(queue[c]), curr[w]),
         waitq'[c] = Tail(waitq[c]),
         state'[w] = "ACTIVE", curr'[w] = NULL,
         \A d \in Chan : d # w => state'[d] = state[d] /\ curr'[d] = curr[d]
  PROVE  IInv'
<1>. USE DEF IInv
<1>1. /\ queue[c] # <<>> /\ head_off' = [head_off EXCEPT ![c] = 0]
      /\ UNCHANGED <<wire, sent, recv, ctrl>>
      /\ \A d \in Chan : d # c => queue'[d] = queue[d]
      /\ \A d \in Link : d # c => waitq'[d] = waitq[d]
  BY WriteBodyEffect
<1>2. /\ queue[c] \in Seq(Msg)
      /\ \A l \in Link : waitq[l] \in Seq(Chan) /\ Len(waitq[l]) \in Nat
  BY LinkFacts DEF TypeOK
<1>3. /\ w = waitq[c][1] /\ 1 \in 1..Len(waitq[c]) /\ w \in Chan
      /\ Len(waitq'[c]) = Len(waitq[c]) - 1
      /\ \A i \in 1..Len(waitq[c]) - 1 : waitq'[c][i] = waitq[c][i + 1]
  BY <1>2, TailFacts
<1>4. WaitsFor(w, c)
  BY <1>3 DEF BlockedOnce
<1>5. curr[w] \in Msg /\ OnLink(curr[w], c)
  BY <1>3, <1>4, WaiterOnLink, Zenon DEF WaitsFor, Msg
<1>6. /\ Tail(queue[c]) \in Seq(Msg)
      /\ \A i \in 1..Len(Tail(queue[c])) : OnLink(Tail(queue[c])[i], c)
  <2>1. /\ Tail(queue[c]) \in Seq(Msg) /\ Len(Tail(queue[c])) = Len(queue[c]) - 1
        /\ Len(queue[c]) \in Nat
        /\ \A i \in 1..Len(queue[c]) - 1 : Tail(queue[c])[i] = queue[c][i + 1]
    BY <1>1, <1>2, TailFacts
  <2>2. ASSUME NEW i \in 1..Len(Tail(queue[c]))
        PROVE  OnLink(Tail(queue[c])[i], c)
    <3>1. i + 1 \in 1..Len(queue[c]) /\ Tail(queue[c])[i] = queue[c][i + 1]
      BY <2>1
    <3>2. QED
      BY <3>1 DEF Routed
  <2>3. QED
    BY <2>1, <2>2
<1>7. TypeOK'
  BY WriteBodyTypes
<1>8. WaitersFull'
  <2>. SUFFICES ASSUME NEW d \in Link, waitq'[d] # <<>>
                PROVE  Len(queue'[d]) >= LIMIT
    BY DEF WaitersFull
  <2>1. CASE d = c
    <3>1. Len(queue'[c]) = Len(Tail(queue[c])) + 1
      BY <1>5, <1>6, AppendFacts
    <3>2. QED
      BY <2>1, <3>1, BoundAssumption
  <2>2. CASE d # c
    BY <2>2, <1>1, LinkFacts DEF WaitersFull
  <2>3. QED
    BY <2>1, <2>2
<1>9. \A l \in Link : \A i \in 1..Len(waitq[l]) : waitq[l][i] = w => l = c /\ i = 1
  <2>. SUFFICES ASSUME NEW l \in Link, NEW i \in 1..Len(waitq[l]), waitq[l][i] = w
                PROVE  l = c /\ i = 1
    OBVIOUS
  <2>1. WaitsFor(w, l)
    BY DEF BlockedOnce
  <2>2. l = c
    BY <2>1, <1>4, Zenon DEF WaitsFor
  <2>3. QED
    BY <2>2, <1>3 DEF BlockedOnce
<1>10. BlockedOnce'
  <2>1. ASSUME NEW l \in Link, NEW i \in 1..Len(waitq'[l])
        PROVE  /\ l = c => i + 1 \in 1..Len(waitq[l]) /\ waitq'[l][i] = waitq[l][i + 1]
               /\ l # c => i \in 1..Len(waitq[l]) /\ waitq'[l][i] = waitq[l][i]
    <3>1. CASE l = c
      <4>1. Len(waitq[c]) \in Nat /\ i \in 1..Len(waitq[c]) - 1
        BY <3>1, <1>2, <1>3
      <4>2. i + 1 \in 1..Len(waitq[c]) /\ waitq'[c][i] = waitq[c][i + 1]
        BY <4>1, <1>3
      <4>3. QED
        BY <3>1, <4>2
    <3>2. CASE l # c
      BY <3>2, <1>1
    <3>3. QED
      BY <3>1, <3>2
  <2>2. ASSUME NEW l \in Link, NEW i \in 1..Len(waitq'[l]), NEW d, d = waitq'[l][i]
        PROVE  WaitsFor(d, l)'
    <3>1. PICK j \in 1..Len(waitq[l]) : d = waitq[l][j] /\ (l = c => j # 1)
      BY <2>1, <2>2
    <3>2. d # w /\ WaitsFor(d, l) /\ d \in Chan
      BY <3>1, <1>2, <1>9 DEF BlockedOnce
    <3>3. state'[d] = state[d] /\ curr'[d] = curr[d]
      BY <3>2
    <3>4. QED
      BY <3>2, <3>3 DEF WaitsFor
  <2>3. ASSUME NEW l \in Link, NEW i \in 1..Len(waitq'[l]), NEW j \in 1..Len(waitq'[l]),
               waitq'[l][i] = waitq'[l][j]
        PROVE  i = j
    <3>1. CASE l = c
      <4>1. i + 1 = j + 1
        BY <3>1, <2>1, <2>3 DEF BlockedOnce
      <4>2. QED
        BY <4>1
    <3>2. CASE l # c
      BY <3>2, <2>1, <2>3 DEF BlockedOnce
    <3>3. QED
      BY <3>1, <3>2
  <2>4. ASSUME NEW d \in Chan, state'[d] = "BLOCKING"
        PROVE  \E l \in Link : \E i \in 1..Len(waitq'[l]) : waitq'[l][i] = d
    <3>1. d # w /\ state[d] = "BLOCKING"
      BY <2>4
    <3>2. PICK l \in Link : \E i \in 1..Len(waitq[l]) : waitq[l][i] = d
      BY <3>1 DEF BlockedOnce
    <3>3. PICK i \in 1..Len(waitq[l]) : waitq[l][i] = d
      BY <3>2
    <3>4. CASE l = c
      <4>1. i # 1 /\ i - 1 \in 1..Len(waitq[c]) - 1 /\ (i - 1) + 1 = i
        BY <3>1, <3>3, <3>4, <1>2, <1>3
      <4>2. i - 1 \in 1..Len(waitq'[c]) /\ waitq'[c][i - 1] = d
        BY <3>3, <3>4, <4>1, <1>3
      <4>3. QED
        BY <4>2
    <3>5. CASE l # c
      BY <3>3, <3>5, <1>1
    <3>6. QED
      BY <3>4, <3>5
  <2>5. QED
    BY <2>2, <2>3, <2>4 DEF BlockedOnce, WaitsFor
<1>11. Routed'
  <2>1. ASSUME NEW d \in Link, NEW i \in 1..Len(queue'[d])
        PROVE  OnLink(queue'[d][i], d)
    <3>1. CASE d = c
      BY <3>1, <1>5, <1>6, AppendFacts
    <3>2. CASE d # c
      BY <3>2, <1>1, LinkFacts DEF Routed
    <3>3. QED
      BY <3>1, <3>2
  <2>2. \A n \in Node : queue'[Local(n)] = queue[Local(n)]
    BY <1>1, LocalFacts
  <2>3. ASSUME NEW d \in Link
        PROVE  /\ curr'[d] # NULL => OnLink(curr'[d], Rev(d))
               /\ state'[d] = "BLOCKING" => Dst[curr'[d].str] # d[1]
    <3>1. CASE d = w
      BY <3>1
    <3>2. CASE d # w
      BY <3>2, LinkFacts DEF Routed
    <3>3. QED
      BY <3>1, <3>2
  <2>4. ASSUME NEW n \in Node, curr'[Local(n)] # NULL
        PROVE  AtSource(curr'[Local(n)], n)
    BY <2>4, LocalFacts DEF Routed
  <2>5. QED
    BY <1>1, <2>1, <2>2, <2>3, <2>4 DEF Routed
<1>12. Framed'
  <2>1. ASSUME NEW d \in Link, head_off'[d] = 1
        PROVE  queue'[d] # <<>>
    <3>1. d # c /\ head_off[d] = 1
      BY <1>1, <2>1 DEF TypeOK
    <3>2. QED
      BY <3>1, <1>1, LinkFacts DEF Framed
  <2>2. \A d \in Chan : BeingRead(d)' => BeingRead(d)
    BY DEF BeingRead
  <2>3. QED
    BY <1>1, <2>1, <2>2, LinkFacts, LocalFacts DEF Framed
<1>13. QED
  BY <1>7, <1>8, <1>10, <1>11, <1>12

LEMMA WriteBodyInv ==
  ASSUME IInv, NEW c \in Link, WriteBody(c)
  PROVE  IInv'
<1>1. waitq[c] # <<>> => Head(waitq[c]) \in Chan
  BY TailFacts DEF IInv, TypeOK
<1>2. CASE /\ waitq[c] # <<>> => Len(Tail(queue[c])) >= LIMIT
           /\ queue'[c] = Tail(queue[c])
           /\ waitq'[c] = waitq[c]
           /\ \A d \in Chan : state'[d] = state[d] /\ curr'[d] = curr[d]
  BY <1>2, WriteBodyNobodyInv
<1>3. CASE /\ waitq[c] # <<>>
           /\ Len(Tail(queue[c])) = LIMIT - 1
           /\ queue'[c] = Append(Tail(queue[c]), curr[Head(waitq[c])])
           /\ waitq'[c] = Tail(waitq[c])
           /\ \A d \in Chan : IF d = Head(waitq[c])
                              THEN state'[d] = "ACTIVE" /\ curr'[d] = NULL
                              ELSE state'[d] = state[d] /\ curr'[d] = curr[d]
  BY <1>1, <1>3, WriteBodyAdmitInv
<1>4. QED
  BY <1>2, <1>3, WriteBodyEffect DEF IInv

LEMMA InitInv ==
  Init => IInv
<1>. SUFFICES ASSUME Init
              PROVE  IInv
  OBVIOUS
<1>. USE DEF Init
<1>1. TypeOK
  BY BoundAssumption DEF TypeOK
<1>2. /\ \A d \in Chan : state[d] = "ACTIVE" /\ curr[d] = NULL /\ queue[d] = <<>>
      /\ \A c \in Link : waitq[c] = <<>> /\ wire[c] = <<>> /\ head_off[c] = 0
  OBVIOUS
<1>3. WaitersFull /\ BlockedOnce
  BY <1>2 DEF WaitersFull, BlockedOnce
<1>4. Routed /\ Framed
  BY <1>2, LinkFacts, LocalFacts DEF Routed, Framed, BeingRead
<1>5. QED
  BY <1>1, <1>3, <1>4 DEF IInv

LEMMA StutterInv ==
  ASSUME IInv, UNCHANGED vars
  PROVE  IInv'
<1>. USE DEF IInv, vars
<1>1. TypeOK' /\ WaitersFull' /\ BlockedOnce'
  BY BlockedOnceUnchanged DEF TypeOK, WaitersFull
<1>2. Routed' /\ Framed'
  BY DEF Routed, Framed, BeingRead
<1>3. QED
  BY <1>1, <1>2

LEMMA NextInv ==
  IInv /\ [Next]_vars => IInv'
<1>. SUFFICES ASSUME IInv, [Next]_vars
              PROVE  IInv'
  OBVIOUS
<1>1. CASE \E t \in Stream : comm_node_send_data(t)
  BY <1>1, SendDataInv
<1>2. CASE \E n \in Node : ioman_process_local_channel_read(n)
  BY <1>2, LocalReadInv
<1>3. CASE \E c \in Link : channel_send_msg(c)
  BY <1>3, SendMsgInv
<1>4. CASE \E c \in Link : ReadHeader(c)
  BY <1>4, ReadHeaderInv
<1>5. CASE \E c \in Link : ReadBody(c)
  BY <1>5, ReadBodyInv
<1>6. CASE \E c \in Link : WriteHeader(c)
  BY <1>6, WriteHeaderInv
<1>7. CASE \E c \in Link : WriteBody(c)
  BY <1>7, WriteBodyInv
<1>8. CASE UNCHANGED vars
  BY <1>8, StutterInv
<1>9. QED
  BY <1>1, <1>2, <1>3, <1>4, <1>5, <1>6, <1>7, <1>8 DEF Next

-----------------------------------------------------------------------------
(***************************************************************************)
(* Main results.                                                           *)
(***************************************************************************)

(***************************************************************************)
(* The inductive invariant holds in every reachable state: waiters only at *)
(* full queues, every blocked channel waits exactly once and for its next  *)
(* hop, chunks stay on their routes and headers pair up with bodies.       *)
(***************************************************************************)
THEOREM Invariance == Spec => []IInv
<1>1. Init /\ [][Next]_vars => []IInv
  BY InitInv, NextInv, PTL
<1>2. QED
  BY <1>1, PTL DEF Spec, SafeSpec

(***************************************************************************)
(* Type correctness: no handler ever queues or forwards anything but a     *)
(* message (channel_pipeline_chunk's assert(curr_buff != NULL) holds).     *)
(***************************************************************************)
THEOREM TypeCorrect == Spec => []TypeOK
<1>1. IInv => TypeOK
  BY DEF IInv
<1>2. QED
  BY <1>1, Invariance, PTL

(***************************************************************************)
(* No wake-up is ever lost: whoever waits, waits for a full queue, so the  *)
(* next message channel_write pops looks at the wait queue again.          *)
(***************************************************************************)
THEOREM NoLostWakeup == Spec => []WaitersFull
<1>1. IInv => WaitersFull
  BY DEF IInv
<1>2. QED
  BY <1>1, Invariance, PTL

(***************************************************************************)
(* A blocked channel is in exactly one place of one wait queue, that of    *)
(* the next hop of the chunk it holds.                                     *)
(***************************************************************************)
THEOREM WaitsOnce == Spec => []BlockedOnce
<1>1. IInv => BlockedOnce
  BY DEF IInv
<1>2. QED
  BY <1>1, Invariance, PTL

-----------------------------------------------------------------------------
(***************************************************************************)
(* Deadlock.  The argument: when no I/O thread has anything it could do,   *)
(* every link with a non-empty queue has a full wire, so its reader does   *)
(* not read, so it is blocked, so it waits for another link, whose queue   *)
(* is full because nobody waits for a queue with room.                     *)
(***************************************************************************)
Backlog == {c \in Link : queue[c] # <<>>}

LEMMA BlockedWaits ==
  ASSUME IInv, NEW r \in Chan, state[r] = "BLOCKING"
  PROVE  \E d \in Backlog : /\ \E i \in 1..Len(waitq[d]) : waitq[d][i] = r
                            /\ WaitsFor(r, d)
<1>. USE DEF IInv
<1>1. PICK d \in Link : \E i \in 1..Len(waitq[d]) : waitq[d][i] = r
  BY DEF BlockedOnce
<1>2. WaitsFor(r, d)
  BY <1>1 DEF BlockedOnce
<1>3. waitq[d] # <<>> /\ queue[d] \in Seq(Msg)
  BY <1>1, LinkFacts DEF TypeOK
<1>4. Len(queue[d]) >= LIMIT
  BY <1>3 DEF WaitersFull
<1>5. queue[d] # <<>>
  BY <1>4, BoundAssumption
<1>6. QED
  BY <1>1, <1>2, <1>5 DEF Backlog

LEMMA BlockedReader ==
  ASSUME IInv, Idle, NEW c \in Backlog
  PROVE  state[Rev(c)] = "BLOCKING"
<1>. USE DEF IInv
<1>1. /\ c \in Link /\ Rev(c) \in Link /\ Rev(c) \in Chan /\ Rev(Rev(c)) = c
      /\ queue[c] # <<>>
  BY LinkFacts DEF Backlog
<1>2. /\ wire[c] \in Seq(Msg) /\ Len(wire[c]) \in Nat /\ head_off[c] \in {0, 1}
      /\ state[Rev(c)] \in {"ACTIVE", "BLOCKING"}
  BY <1>1 DEF TypeOK
<1>3. ~ (InFlight(c) < WireCap) /\ ~ CanReadHeader(Rev(c)) /\ ~ CanReadBody(Rev(c))
  BY <1>1 DEF Idle, CanWrite
<1>. SUFFICES ASSUME state[Rev(c)] = "ACTIVE"
              PROVE  FALSE
  BY <1>2
<1>4. curr[Rev(c)] = NULL => wire[c] = <<>>
  BY <1>1, <1>3 DEF CanReadHeader
<1>5. curr[Rev(c)] # NULL => wire[c] = <<>> \/ (Len(wire[c]) = 1 /\ head_off[c] = 1)
  BY <1>1, <1>2, <1>3 DEF CanReadBody
<1>6. wire[c] = <<>> => Len(wire[c]) = 0
  OBVIOUS
<1>7. CASE Len(wire[c]) = 0
  <2>1. InFlight(c) = 0 - head_off[c] - (IF BeingRead(Rev(c)) THEN 1 ELSE 0)
    BY <1>7 DEF InFlight
  <2>2. InFlight(c) < 1
    BY <1>2, <2>1
  <2>3. QED
    BY <1>3, <2>1, <2>2, <1>2, BoundAssumption
<1>8. CASE curr[Rev(c)] # NULL /\ Len(wire[c]) = 1 /\ head_off[c] = 1
  <2>1. BeingRead(Rev(c))
    BY <1>8 DEF BeingRead
  <2>2. InFlight(c) = 0
    BY <1>8, <2>1 DEF InFlight
  <2>3. QED
    BY <1>3, <2>2, BoundAssumption
<1>9. QED
  BY <1>4, <1>5, <1>6, <1>7, <1>8

LEMMA HeldUp ==
  ASSUME IInv, Idle, NEW c \in Backlog
  PROVE  \E d \in Backlog : HeldUpBy(c, d) /\ DependsOn(c, d)
<1>1. /\ c \in Link /\ Rev(c) \in Link /\ Rev(c) \in Chan /\ Rev(Rev(c)) = c
      /\ queue[c] # <<>>
  BY LinkFacts DEF Backlog
<1>2. state[Rev(c)] = "BLOCKING"
  BY BlockedReader
<1>3. PICK d \in Backlog : /\ \E i \in 1..Len(waitq[d]) : waitq[d][i] = Rev(c)
                           /\ WaitsFor(Rev(c), d)
  BY <1>1, <1>2, BlockedWaits
<1>4. HeldUpBy(c, d)
  BY <1>1, <1>2, <1>3 DEF HeldUpBy
<1>5. d \in Link
  BY DEF Backlog
<1>6. DependsOn(Rev(Rev(c)), d)
  BY <1>1, <1>3, <1>5, WaiterOnLink
<1>7. QED
  BY <1>1, <1>4, <1>6

LEMMA PendingBacklog ==
  ASSUME IInv, Idle, Pending
  PROVE  Backlog # {}
<1>. USE DEF IInv
<1>1. ASSUME NEW r \in Chan, state[r] = "BLOCKING"
      PROVE  Backlog # {}
  BY <1>1, BlockedWaits
<1>2. ASSUME NEW r \in Chan, BeingRead(r)
      PROVE  Backlog # {}
  <2>1. r \in Link
    BY <1>2 DEF Framed, Chan
  <2>2. wire[Rev(r)] # <<>> /\ Rev(r) \in Link /\ ~ CanReadBody(r)
    BY <1>2, <2>1, LinkFacts DEF Framed, Idle
  <2>3. head_off[Rev(r)] = 1
    BY <1>2, <2>2 DEF CanReadBody, BeingRead, TypeOK
  <2>4. QED
    BY <2>2, <2>3 DEF Framed, Backlog
<1>3. ASSUME NEW r \in Chan, curr[r] # NULL
      PROVE  Backlog # {}
  <2>1. state[r] = "ACTIVE" \/ state[r] = "BLOCKING"
    BY DEF TypeOK
  <2>2. QED
    BY <2>1, <1>1, <1>2, <1>3 DEF BeingRead
<1>4. ASSUME NEW r \in Chan, queue[r] # <<>>
      PROVE  Backlog # {}
  <2>1. CASE r \in Link
    BY <1>4, <2>1 DEF Backlog
  <2>2. CASE r \notin Link
    <3>1. PICK n \in Node : r = Local(n)
      BY <2>2 DEF Chan
    <3>2. state[r] # "ACTIVE"
      BY <1>4, <3>1 DEF Idle, CanReadLocal
    <3>3. QED
      BY <3>2, <1>1 DEF TypeOK
  <2>3. QED
    BY <2>1, <2>2
<1>5. ASSUME NEW c \in Link, wire[c] # <<>>
      PROVE  Backlog # {}
  <2>1. Rev(c) \in Link /\ Rev(c) \in Chan /\ Rev(Rev(c)) = c
    BY LinkFacts
  <2>2. state[Rev(c)] # "ACTIVE" \/ curr[Rev(c)] # NULL
    BY <1>5, <2>1 DEF Idle, CanReadHeader
  <2>3. QED
    BY <2>1, <2>2, <1>1, <1>3 DEF TypeOK
<1>6. QED
  BY <1>3, <1>4, <1>5 DEF Pending

(***************************************************************************)
(* The network gets stuck only on a set of channels with full queues each  *)
(* of which is held up by another one of the set: whatever the routes, the *)
(* hand-over between channels never stops for any other reason.            *)
(***************************************************************************)
THEOREM DeadlockNeedsCycle == Spec => []StuckOnlyOnCycle
<1>1. IInv => StuckOnlyOnCycle
  <2>. SUFFICES ASSUME IInv, Stuck
                PROVE  \E S \in SUBSET Link :
                         S # {} /\ \A c \in S : \E d \in S : HeldUpBy(c, d)
    BY DEF StuckOnlyOnCycle
  <2>1. Backlog # {} /\ Backlog \in SUBSET Link
    BY PendingBacklog DEF Stuck, Backlog
  <2>2. \A c \in Backlog : \E d \in Backlog : HeldUpBy(c, d)
    BY HeldUp DEF Stuck
  <2>. HIDE DEF Backlog
  <2>3. QED
    BY <2>1, <2>2
<1>2. QED
  BY <1>1, Invariance, PTL

(***************************************************************************)
(* DLFree's claim: with routes whose channel dependencies have no cycle,   *)
(* forwarding never gets stuck, for every topology and every load.         *)
(***************************************************************************)
THEOREM DeadlockFree == Spec => []NoDeadlock
<1>1. IInv => NoDeadlock
  <2>. SUFFICES ASSUME IInv, Stuck, AcyclicRoutes
                PROVE  FALSE
    BY DEF NoDeadlock
  <2>1. Backlog # {} /\ Backlog \in SUBSET Link
    BY PendingBacklog DEF Stuck, Backlog
  <2>2. \A c \in Backlog : \E d \in Backlog : DependsOn(c, d)
    BY HeldUp DEF Stuck
  <2>. HIDE DEF Backlog
  <2>3. QED
    BY <2>1, <2>2 DEF AcyclicRoutes
<1>2. QED
  BY <1>1, Invariance, PTL

-----------------------------------------------------------------------------
(***************************************************************************)
(* Memory.  Data chunks enter a queue only while it has room, so what lies *)
(* beyond the limit are control messages.                                  *)
(***************************************************************************)
Data(s) == {i \in 1..Len(s) : s[i] # Ctrl}

(***************************************************************************)
(* The data chunks of a queue are finitely many, at most its length.       *)
(***************************************************************************)
LEMMA DataCount ==
  ASSUME NEW s \in Seq(Msg)
  PROVE  IsFiniteSet(Data(s)) /\ Cardinality(Data(s)) \in Nat /\ Cardinality(Data(s)) <= Len(s)
<1>1. Len(s) \in Nat
  OBVIOUS
<1>2. IsFiniteSet(1..Len(s)) /\ Cardinality(1..Len(s)) = Len(s)
  BY <1>1, FS_Interval, SMTT(30)
<1>3. Data(s) \in SUBSET (1..Len(s))
  BY DEF Data
<1>4. IsFiniteSet(Data(s)) /\ Cardinality(Data(s)) <= Len(s)
  BY <1>2, <1>3, FS_Subset
<1>5. QED
  BY <1>4, FS_CardinalityType

(***************************************************************************)
(* Removing the head of a queue never adds a data chunk.                   *)
(***************************************************************************)
LEMMA DataOfTail ==
  ASSUME NEW s \in Seq(Msg), s # <<>>
  PROVE  Cardinality(Data(Tail(s))) <= Cardinality(Data(s))
<1>. DEFINE f == [i \in Data(Tail(s)) |-> i + 1]
<1>1. /\ Tail(s) \in Seq(Msg) /\ Len(s) \in Nat \ {0} /\ Len(Tail(s)) = Len(s) - 1
      /\ \A i \in 1..Len(s) - 1 : Tail(s)[i] = s[i + 1]
  BY TailFacts
<1>2. ASSUME NEW i \in Data(Tail(s))
      PROVE  i \in Int /\ i + 1 \in Data(s)
  <2>1. i \in 1..Len(s) - 1 /\ Tail(s)[i] # Ctrl
    BY <1>1 DEF Data
  <2>2. i + 1 \in 1..Len(s) /\ s[i + 1] # Ctrl
    BY <1>1, <2>1
  <2>3. QED
    BY <2>1, <2>2 DEF Data
<1>3. f \in Injection(Data(Tail(s)), Data(s))
  <2>1. f \in [Data(Tail(s)) -> Data(s)]
    BY <1>2
  <2>2. \A a, b \in Data(Tail(s)) : f[a] = f[b] => a = b
    BY <1>2
  <2>3. QED
    BY <2>1, <2>2 DEF Injection, IsInjective
<1>4. IsFiniteSet(Data(s))
  BY DataCount
<1>. HIDE DEF f
<1>5. QED
  BY <1>3, <1>4, FS_Injection

(***************************************************************************)
(* A control message at the end of a queue is no data chunk.               *)
(***************************************************************************)
LEMMA DataOfAppendCtrl ==
  ASSUME NEW s \in Seq(Msg)
  PROVE  Data(Append(s, Ctrl)) = Data(s)
<1>1. Ctrl \in Msg
  BY DEF Msg
<1>2. /\ Len(Append(s, Ctrl)) = Len(s) + 1 /\ Len(s) \in Nat
      /\ \A i \in 1..Len(s) : Append(s, Ctrl)[i] = s[i]
      /\ Append(s, Ctrl)[Len(s) + 1] = Ctrl
  BY <1>1, AppendFacts
<1>. DEFINE a == Append(s, Ctrl)
<1>. HIDE DEF a
<1>3. QED
  BY <1>2 DEF Data, a

(***************************************************************************)
(* What a handler may do to a queue: nothing, drop the head, append a      *)
(* control message, or append anything while there is room.                *)
(***************************************************************************)
LEMMA BoundKept ==
  ASSUME NEW s \in Seq(Msg), NEW r \in Seq(Msg), Cardinality(Data(s)) <= LIMIT,
         \/ r = s
         \/ s # <<>> /\ r = Tail(s)
         \/ r = Append(s, Ctrl)
         \/ Len(r) <= LIMIT
  PROVE  Cardinality(Data(r)) <= LIMIT
<1>. DEFINE m == Cardinality(Data(s))
            n == Cardinality(Data(r))
<1>1. m \in Nat /\ n \in Nat /\ LIMIT \in Nat /\ n <= Len(r) /\ Len(r) \in Nat
  BY DataCount, BoundAssumption
<1>2. CASE s # <<>> /\ r = Tail(s)
  <2>1. n <= m
    BY <1>2, DataOfTail
  <2>. HIDE DEF m, n
  <2>2. m <= LIMIT
    BY DEF m
  <2>3. n <= LIMIT
    BY <1>1, <2>1, <2>2
  <2>4. QED
    BY <2>3 DEF n
<1>3. CASE r = Append(s, Ctrl)
  BY <1>3, DataOfAppendCtrl
<1>4. CASE Len(r) <= LIMIT
  <2>. HIDE DEF m, n
  <2>1. n <= LIMIT
    BY <1>1, <1>4
  <2>2. QED
    BY <2>1 DEF n
<1>5. QED
  BY <1>2, <1>3, <1>4

(***************************************************************************)
(* A queue below the limit has room for one more message.                  *)
(***************************************************************************)
LEMMA LengthAppend ==
  ASSUME NEW S, NEW s \in Seq(S), NEW e \in S, Len(s) < LIMIT
  PROVE  Len(Append(s, e)) <= LIMIT
BY BoundAssumption, AppendFacts

(***************************************************************************)
(* A chunk passed on makes the next queue at most as long as the limit.    *)
(***************************************************************************)
LEMMA PipelineBound ==
  ASSUME TypeOK, NEW c, NEW k, NEW next, NEW q, PipelineCall(c, k, next, q), NEW d \in Chan
  PROVE  queue'[d] = q[d] \/ Len(queue'[d]) <= LIMIT
<1>1. next \in Link /\ next \in Chan /\ k \in Msg /\ q[next] = queue[next]
  BY LinkFacts DEF PipelineCall, Msg
<1>2. CASE d # next
  BY <1>2, PipelineEffect
<1>3. CASE d = next
  <2>1. queue[next] \in Seq(Msg)
    BY <1>1 DEF TypeOK
  <2>2. \/ Len(queue[next]) < LIMIT /\ queue'[next] = Append(queue[next], k)
        \/ queue'[next] = queue[next]
    BY PipelineEffect
  <2>3. CASE Len(queue[next]) < LIMIT /\ queue'[next] = Append(queue[next], k)
    BY <1>1, <1>3, <2>1, <2>3, LengthAppend
  <2>4. QED
    BY <1>1, <1>3, <2>2, <2>3
<1>4. QED
  BY <1>2, <1>3

(***************************************************************************)
(* The two handlers that pass a chunk on, as calls of                      *)
(* channel_pipeline_chunk.                                                 *)
(***************************************************************************)
LEMMA LocalReadCall ==
  ASSUME IInv, NEW n \in Node, ioman_process_local_channel_read(n)
  PROVE  \E q, k, next :
           /\ PipelineCall(Local(n), k, next, q)
           /\ queue[Local(n)] # <<>> /\ k = Head(queue[Local(n)]) /\ AtSource(k, n)
           /\ q[Local(n)] = Tail(queue[Local(n)])
           /\ \A d \in Chan : d # Local(n) => q[d] = queue[d]
           /\ UNCHANGED <<head_off, wire, sent, recv>>
<1>. DEFINE c == Local(n)
            k == Head(queue[c])
            q == [queue EXCEPT ![c] = Tail(@)]
            next == ioman_get_nexthop_channel(n, k.str)
<1>. USE DEF IInv
<1>1. c \in Chan /\ c \notin Link /\ c[1] = n
  BY LocalFacts
<1>2. /\ state[c] = "ACTIVE" /\ queue[c] # <<>> /\ queue[c] \in Seq(Msg)
      /\ channel_pipeline_chunk(c, k, next, q)
      /\ UNCHANGED <<head_off, wire, sent, recv, ctrl>>
  BY <1>1 DEF ioman_process_local_channel_read, CanReadLocal, TypeOK
<1>3. k = queue[c][1] /\ Len(queue[c]) \in Nat \ {0} /\ Tail(queue[c]) \in Seq(Msg)
  BY <1>2, TailFacts
<1>4. AtSource(k, n)
  BY <1>3 DEF Routed
<1>5. /\ q \in [Chan -> Seq(Msg)]
      /\ \A d \in Chan : d # c => q[d] = queue[d]
      /\ q[c] = Tail(queue[c])
  <2>. HIDE DEF c
  <2>1. QED
    BY <1>1, <1>3 DEF TypeOK
<1>. HIDE DEF q
<1>6. k \in Chunk /\ next \in Link /\ OnLink(k, next)
  BY <1>4, NextHopFromSource
<1>. HIDE DEF k, c
<1>7. PipelineCall(c, k, next, q)
  BY <1>1, <1>2, <1>5, <1>6, LinkFacts DEF PipelineCall
<1>. HIDE DEF next
<1>8. /\ PipelineCall(c, k, next, q)
      /\ queue[c] # <<>> /\ k = Head(queue[c]) /\ AtSource(k, n)
      /\ q[c] = Tail(queue[c])
      /\ \A d \in Chan : d # c => q[d] = queue[d]
      /\ UNCHANGED <<head_off, wire, sent, recv>>
  BY <1>2, <1>4, <1>5, <1>7 DEF k
<1>9. QED
  BY <1>8, Zenon DEF c

(***************************************************************************)
(* ReadBody leaves the queues alone or calls channel_pipeline_chunk once.  *)
(***************************************************************************)
LEMMA ReadBodyCall ==
  ASSUME IInv, NEW c \in Link, ReadBody(c), ~ UNCHANGED queue \/ ~ UNCHANGED <<state, waitq>>
  PROVE  \E next :
           /\ PipelineCall(c, curr[c], next, queue)
           /\ UNCHANGED recv
           /\ Dst[curr[c].str] # c[1]
<1>. DEFINE k == curr[c]
            next == ioman_get_nexthop_channel(c[1], k.str)
<1>. USE DEF IInv
<1>1. /\ k # Ctrl /\ Dst[k.str] # c[1]
      /\ channel_pipeline_chunk(c, k, next, queue)
      /\ UNCHANGED recv
  BY Zenon DEF ReadBody
<1>2. c \in Chan /\ Rev(c) \in Link /\ Rev(c)[2] = c[1]
  BY LinkFacts DEF Rev
<1>3. k \in Chunk /\ OnLink(k, Rev(c)) /\ state[c] = "ACTIVE"
  BY <1>1, ReadBodyWire DEF Msg
<1>4. next \in Link /\ OnLink(k, next)
  BY <1>1, <1>2, <1>3, NextHopFromLink
<1>5. PipelineCall(c, k, next, queue)
  BY <1>1, <1>2, <1>3, <1>4, LinkFacts DEF PipelineCall, TypeOK
<1>6. QED
  BY <1>1, <1>5

(***************************************************************************)
(* What one step can do to one queue: nothing, remove its head, append a   *)
(* control message, or anything that leaves it within LIMIT.               *)
(***************************************************************************)
LEMMA QueueEffect ==
  ASSUME IInv, [Next]_vars, NEW d \in Chan
  PROVE  \/ queue'[d] = queue[d]
         \/ queue[d] # <<>> /\ queue'[d] = Tail(queue[d])
         \/ queue'[d] = Append(queue[d], Ctrl)
         \/ Len(queue'[d]) <= LIMIT
<1>. USE DEF IInv
<1>0. queue[d] \in Seq(Msg) /\ Len(queue[d]) \in Nat
  BY DEF TypeOK
<1>1. ASSUME NEW t \in Stream, comm_node_send_data(t)
      PROVE  queue'[d] = queue[d] \/ Len(queue'[d]) <= LIMIT
  <2>1. PICK c, k : /\ c = Local(Src[t]) /\ k = [str |-> t, seq |-> sent[t] + 1]
                    /\ Len(queue[c]) < LIMIT
                    /\ queue' = [queue EXCEPT ![c] = Append(@, k)]
    BY <1>1 DEF comm_node_send_data
  <2>2. c \in Chan /\ k \in Msg
    <3>1. Src[t] \in Node
      BY RouteAssumption
    <3>2. c \in Chan
      BY <2>1, <3>1, LocalFacts
    <3>3. sent[t] + 1 \in Nat /\ sent[t] + 1 > 0
      BY DEF TypeOK
    <3>4. k \in Chunk
      BY <2>1, <3>3 DEF Chunk
    <3>5. QED
      BY <3>2, <3>4 DEF Msg
  <2>3. queue'[d] = IF d = c THEN Append(queue[c], k) ELSE queue[d]
    BY <2>1, <2>2 DEF TypeOK
  <2>4. QED
    BY <1>0, <2>1, <2>2, <2>3, LengthAppend
<1>2. ASSUME NEW n \in Node, ioman_process_local_channel_read(n)
      PROVE  \/ queue'[d] = queue[d]
             \/ queue[d] # <<>> /\ queue'[d] = Tail(queue[d])
             \/ Len(queue'[d]) <= LIMIT
  <2>1. PICK q, k, next : /\ PipelineCall(Local(n), k, next, q)
                          /\ \A e \in Chan : e # Local(n) => q[e] = queue[e]
                          /\ queue[Local(n)] # <<>> /\ q[Local(n)] = Tail(queue[Local(n)])
    BY <1>2, LocalReadCall, Zenon
  <2>2. queue'[d] = q[d] \/ Len(queue'[d]) <= LIMIT
    BY <2>1, PipelineBound
  <2>3. QED
    BY <2>1, <2>2
<1>3. ASSUME NEW c \in Link, channel_send_msg(c)
      PROVE  queue'[d] = queue[d] \/ queue'[d] = Append(queue[d], Ctrl)
  BY <1>3, LinkFacts DEF channel_send_msg, TypeOK
<1>4. ASSUME NEW c \in Link, ReadBody(c)
      PROVE  queue'[d] = queue[d] \/ Len(queue'[d]) <= LIMIT
  <2>1. CASE UNCHANGED queue
    BY <2>1
  <2>2. CASE ~ UNCHANGED queue
    <3>1. PICK next : PipelineCall(c, curr[c], next, queue)
      BY <1>4, <2>2, ReadBodyCall
    <3>2. QED
      BY <3>1, PipelineBound
  <2>3. QED
    BY <2>1, <2>2
<1>5. ASSUME NEW c \in Link, WriteBody(c)
      PROVE  \/ queue'[d] = queue[d]
             \/ queue[d] # <<>> /\ queue'[d] = Tail(queue[d])
             \/ Len(queue'[d]) <= LIMIT
  <2>1. queue[c] # <<>> /\ (d # c => queue'[d] = queue[d])
    BY <1>5, WriteBodyEffect
  <2>2. CASE queue'[c] = Tail(queue[c])
    BY <2>1, <2>2
  <2>3. CASE /\ waitq[c] # <<>>
             /\ Len(Tail(queue[c])) = LIMIT - 1
             /\ queue'[c] = Append(Tail(queue[c]), curr[Head(waitq[c])])
    <3>1. queue[c] \in Seq(Msg) /\ waitq[c] \in Seq(Chan)
      BY LinkFacts DEF TypeOK
    <3>2. Tail(queue[c]) \in Seq(Msg) /\ Head(waitq[c]) = waitq[c][1] /\ 1 \in 1..Len(waitq[c])
      BY <2>1, <2>3, <3>1, TailFacts
    <3>3. curr[Head(waitq[c])] \in Msg
      BY <3>2 DEF BlockedOnce, WaitsFor, Msg
    <3>4. Len(queue'[c]) = Len(Tail(queue[c])) + 1
      BY <2>3, <3>2, <3>3, AppendFacts
    <3>5. Len(queue'[c]) <= LIMIT
      BY <2>3, <3>4, BoundAssumption
    <3>6. QED
      BY <2>1, <3>5
  <2>4. QED
    BY <1>5, <2>2, <2>3, WriteBodyEffect
<1>6. CASE UNCHANGED queue
  BY <1>6
<1>7. ASSUME NEW c \in Link, ReadHeader(c) \/ WriteHeader(c)
      PROVE  UNCHANGED queue
  BY <1>7 DEF ReadHeader, WriteHeader
<1>8. QED
  BY <1>1, <1>2, <1>3, <1>4, <1>5, <1>6, <1>7 DEF Next, vars

(***************************************************************************)
(* Back-pressure bounds the memory of a node: no channel ever queues more  *)
(* than LIMIT data chunks, however many control messages are among them    *)
(* and whatever the neighbours do.                                         *)
(***************************************************************************)
THEOREM BoundedQueues == Spec => []QueueBound
<1>1. Init => QueueBound
  <2>. SUFFICES ASSUME Init, NEW c \in Chan
                PROVE  Cardinality(Data(queue[c])) <= LIMIT
    BY DEF QueueBound, Data
  <2>1. Data(queue[c]) = {}
    BY DEF Init, Data
  <2>2. Cardinality(Data(queue[c])) = 0
    BY <2>1, FS_EmptySet
  <2>3. QED
    BY <2>2, BoundAssumption
<1>2. IInv /\ IInv' /\ QueueBound /\ [Next]_vars => QueueBound'
  <2>. SUFFICES ASSUME IInv, IInv', QueueBound, [Next]_vars, NEW c \in Chan
                PROVE  Cardinality(Data(queue'[c])) <= LIMIT
    BY DEF QueueBound, Data
  <2>1. PICK s, r : s = queue[c] /\ r = queue'[c]
    OBVIOUS
  <2>2. s \in Seq(Msg) /\ r \in Seq(Msg)
    BY <2>1 DEF IInv, TypeOK
  <2>3. Cardinality(Data(s)) <= LIMIT
    BY <2>1 DEF QueueBound, Data
  <2>4. \/ r = s
        \/ s # <<>> /\ r = Tail(s)
        \/ r = Append(s, Ctrl)
        \/ Len(r) <= LIMIT
    BY <2>1, QueueEffect
  <2>5. QED
    BY <2>1, <2>2, <2>3, <2>4, BoundKept
<1>3. QED
  BY <1>1, <1>2, Invariance, PTL DEF Spec, SafeSpec

(***************************************************************************)
(* Where a chunk is, by channel c of its route: queued on c (0), on the    *)
(* wire of c (1), or held by the channel that read it from c (2).  A       *)
(* message whose header is sent is on the wire, though it stays at the     *)
(* head of the queue until its body is sent, too.                          *)
(***************************************************************************)
In(e, s) == \E i \in 1..Len(s) : s[i] = e

Queued(k, c) == In(k, queue[c]) /\ ~ (c \in Link /\ head_off[c] = 1 /\ k = Head(queue[c]))

Held(k, d) == state[d] = "BLOCKING" /\ curr[d] = k

At(k, c, j) ==
  \/ j = 0 /\ Queued(k, c)
  \/ j = 1 /\ c \in Link /\ In(k, wire[c])
  \/ j = 2 /\ Held(k, Rev(c))

(***************************************************************************)
(* The channels of a route: first the local channel of the source, then    *)
(* the link from each node of the path to the next.  Places are ranked in  *)
(* the order in which a chunk passes them.                                 *)
(***************************************************************************)
HopChan(t, h) == IF h = 0 THEN Local(Src[t]) ELSE <<Path(t)[h], Path(t)[h + 1]>>

Hops(t) == 0..Len(Path(t)) - 1

OnPath(t, c) == \E h \in Hops(t) : c = HopChan(t, h)

HopOf(t, c) == CHOOSE h \in Hops(t) : c = HopChan(t, h)

Rank(t, c, j) == 3 * HopOf(t, c) + j

(***************************************************************************)
(* Chunks of one stream are in the order of their numbers, the smallest in *)
(* front: within a queue and a wire, and from each place to the next.      *)
(***************************************************************************)
Sorted(s) ==
  \A i, j \in 1..Len(s) :
    (i < j /\ s[i] \in Chunk /\ s[j] \in Chunk /\ s[i].str = s[j].str) => s[i].seq < s[j].seq

SortedInv ==
  /\ \A c \in Chan : Sorted(queue[c])
  /\ \A c \in Link : Sorted(wire[c])

OrderInv ==
  \A k, l \in Chunk : \A c, d \in Chan : \A i, j \in 0..2 :
    (k.str = l.str /\ At(k, c, i) /\ At(l, d, j) /\ Rank(k.str, c, i) > Rank(l.str, d, j))
      => k.seq < l.seq

(***************************************************************************)
(* In the network are the chunks pushed and not delivered, no others.      *)
(***************************************************************************)
InNetwork(k) == \E c \in Chan, j \in 0..2 : At(k, c, j)

CoverInv ==
  /\ \A k \in Chunk : InNetwork(k) <=> (Len(recv[k.str]) < k.seq /\ k.seq <= sent[k.str])
  /\ \A t \in Stream : /\ Len(recv[t]) <= sent[t]
                       /\ sent[t] <= NChunks[t]
                       /\ \A i \in 1..Len(recv[t]) : recv[t][i] = i

(***************************************************************************)
(* A header sent is the last thing on the wire; a header read is that of   *)
(* the first message on it.                                                *)
(***************************************************************************)
HeaderInv ==
  /\ \A c \in Link : head_off[c] = 1 => wire[c] # <<>> /\ wire[c][Len(wire[c])] = Head(queue[c])
  /\ \A c \in Link : BeingRead(c) => curr[c] = Head(wire[Rev(c)])

FlowInv == SortedInv /\ OrderInv /\ CoverInv /\ HeaderInv

-----------------------------------------------------------------------------
(***************************************************************************)
(* What a queue holds after a message is put at its end.                   *)
(***************************************************************************)
LEMMA InAppend ==
  ASSUME NEW s \in Seq(Msg), NEW e \in Msg, NEW x
  PROVE  In(x, Append(s, e)) <=> In(x, s) \/ x = e
<1>1. /\ Len(Append(s, e)) = Len(s) + 1 /\ Len(s) \in Nat
      /\ \A i \in 1..Len(s) : Append(s, e)[i] = s[i]
      /\ Append(s, e)[Len(s) + 1] = e
  BY AppendFacts
<1>. DEFINE a == Append(s, e)
<1>. HIDE DEF a
<1>2. QED
  BY <1>1 DEF In, a

(***************************************************************************)
(* A chunk behind all the chunks of its stream keeps a sequence sorted.    *)
(***************************************************************************)
LEMMA SortedAppend ==
  ASSUME NEW s \in Seq(Msg), NEW e \in Msg, Sorted(s),
         e \in Chunk => \A l \in Chunk : l.str = e.str /\ In(l, s) => l.seq < e.seq
  PROVE  Sorted(Append(s, e))
<1>1. /\ Len(Append(s, e)) = Len(s) + 1 /\ Len(s) \in Nat
      /\ \A i \in 1..Len(s) : Append(s, e)[i] = s[i]
      /\ Append(s, e)[Len(s) + 1] = e
  BY AppendFacts
<1>. DEFINE a == Append(s, e)
<1>. HIDE DEF a
<1>. SUFFICES ASSUME NEW i \in 1..Len(a), NEW j \in 1..Len(a), i < j,
                     a[i] \in Chunk, a[j] \in Chunk, a[i].str = a[j].str
              PROVE  a[i].seq < a[j].seq
  BY DEF Sorted, a
<1>2. i \in 1..Len(s) /\ a[i] = s[i]
  BY <1>1 DEF a
<1>3. CASE j \in 1..Len(s)
  <2>1. a[j] = s[j]
    BY <1>1, <1>3 DEF a
  <2>2. QED
    BY <1>2, <1>3, <2>1 DEF Sorted
<1>4. CASE j = Len(s) + 1
  <2>1. a[j] = e
    BY <1>1, <1>4 DEF a
  <2>2. In(a[i], s)
    BY <1>2 DEF In
  <2>3. QED
    BY <2>1, <2>2
<1>5. QED
  BY <1>1, <1>3, <1>4 DEF a

(***************************************************************************)
(* Without its head a sorted sequence is sorted and holds the other        *)
(* chunks, those of the stream of the head with larger numbers.            *)
(***************************************************************************)
LEMMA SortedTail ==
  ASSUME NEW s \in Seq(Msg), s # <<>>, Sorted(s)
  PROVE  /\ Sorted(Tail(s))
         /\ \A l \in Chunk : In(l, Tail(s)) <=> In(l, s) /\ l # Head(s)
         /\ \A l \in Chunk : In(l, s) /\ Head(s) \in Chunk /\ l.str = Head(s).str /\ l # Head(s)
              => Head(s).seq < l.seq
<1>1. /\ Len(s) \in Nat \ {0} /\ Len(Tail(s)) = Len(s) - 1
      /\ \A i \in 1..Len(s) - 1 : Tail(s)[i] = s[i + 1]
      /\ Head(s) = s[1]
  BY TailFacts
<1>. DEFINE r == Tail(s)
            h == Head(s)
<1>. HIDE DEF r, h
<1>2. ASSUME NEW i \in 1..Len(r)
      PROVE  i + 1 \in 1..Len(s) /\ r[i] = s[i + 1]
  BY <1>1 DEF r
<1>3. Sorted(r)
  <2>. SUFFICES ASSUME NEW i \in 1..Len(r), NEW j \in 1..Len(r), i < j,
                       r[i] \in Chunk, r[j] \in Chunk, r[i].str = r[j].str
                PROVE  r[i].seq < r[j].seq
    BY DEF Sorted
  <2>1. PICK a \in 1..Len(s), b \in 1..Len(s) : a < b /\ r[i] = s[a] /\ r[j] = s[b]
    <3>1. i + 1 \in 1..Len(s) /\ j + 1 \in 1..Len(s) /\ i + 1 < j + 1
      BY <1>2
    <3>2. QED
      BY <3>1, <1>2
  <2>2. QED
    BY <2>1 DEF Sorted
<1>4. \A l \in Chunk : \A i \in 1..Len(s) :
        s[i] = l /\ h \in Chunk /\ l.str = h.str /\ i # 1 => h.seq < l.seq
  <2>. SUFFICES ASSUME NEW l \in Chunk, NEW i \in 1..Len(s), s[i] = l, h \in Chunk,
                       l.str = h.str, i # 1
                PROVE  h.seq < l.seq
    OBVIOUS
  <2>1. 1 \in 1..Len(s) /\ 1 < i /\ h = s[1]
    BY <1>1 DEF h
  <2>2. QED
    BY <2>1 DEF Sorted
<1>5. ASSUME NEW l \in Chunk
      PROVE  In(l, r) <=> In(l, s) /\ l # h
  <2>1. ASSUME In(l, r)
        PROVE  In(l, s) /\ l # h
    <3>1. PICK i \in 1..Len(r) : r[i] = l
      BY <2>1 DEF In
    <3>2. PICK j \in 1..Len(s) : s[j] = l /\ j # 1
      BY <3>1, <1>2
    <3>3. l # h
      BY <3>2, <1>4 DEF Chunk
    <3>4. QED
      BY <3>2, <3>3 DEF In
  <2>2. ASSUME In(l, s), l # h
        PROVE  In(l, r)
    <3>1. PICK i \in 1..Len(s) : s[i] = l
      BY <2>2 DEF In
    <3>2. i # 1
      BY <2>2, <3>1, <1>1 DEF h
    <3>3. PICK j \in 1..Len(r) : i = j + 1
      <4>1. i - 1 \in 1..Len(r) /\ i = (i - 1) + 1
        BY <3>2, <1>1 DEF r
      <4>2. QED
        BY <4>1
    <3>4. r[j] = l
      BY <3>1, <3>3, <1>2
    <3>5. QED
      BY <3>4 DEF In
  <2>3. QED
    BY <2>1, <2>2
<1>6. \A l \in Chunk : In(l, s) /\ h \in Chunk /\ l.str = h.str /\ l # h => h.seq < l.seq
  <2>. SUFFICES ASSUME NEW l \in Chunk, In(l, s), h \in Chunk, l.str = h.str, l # h
                PROVE  h.seq < l.seq
    OBVIOUS
  <2>1. PICK i \in 1..Len(s) : s[i] = l
    BY DEF In
  <2>2. i # 1
    BY <2>1, <1>1 DEF h
  <2>3. QED
    BY <2>1, <2>2, <1>4
<1>7. QED
  BY <1>3, <1>5, <1>6 DEF r, h

-----------------------------------------------------------------------------
(***************************************************************************)
(* The nodes of a route, as the assumption gives them.                     *)
(***************************************************************************)
LEMMA PathFacts ==
  ASSUME NEW t \in Stream
  PROVE  /\ Path(t) \in Seq(Node) /\ Len(Path(t)) \in Nat /\ Len(Path(t)) >= 2
         /\ Path(t)[1] = Src[t] /\ Path(t)[Len(Path(t))] = Dst[t]
         /\ Src[t] \in Node
         /\ \A i, j \in 1..Len(Path(t)) : Path(t)[i] = Path(t)[j] => i = j
         /\ \A i \in 1..Len(Path(t)) - 1 : <<Path(t)[i], Path(t)[i + 1]>> \in Link
  BY RouteAssumption

(***************************************************************************)
(* Each hop of a route is a channel of its own, the first one local and    *)
(* the others links.                                                       *)
(***************************************************************************)
LEMMA HopFacts ==
  ASSUME NEW t \in Stream, NEW h \in Hops(t)
  PROVE  /\ h \in Nat
         /\ HopChan(t, h) \in Chan
         /\ HopChan(t, h) \in Link <=> h # 0
         /\ OnPath(t, HopChan(t, h))
         /\ HopOf(t, HopChan(t, h)) = h
<1>1. h \in Nat /\ h <= Len(Path(t)) - 1
  BY PathFacts DEF Hops
<1>2. h = 0 => HopChan(t, h) \in Chan /\ HopChan(t, h) \notin Link
  BY PathFacts, LocalFacts DEF HopChan
<1>3. h # 0 => h \in 1..Len(Path(t)) - 1 /\ HopChan(t, h) \in Link
  BY <1>1, PathFacts DEF HopChan
<1>4. OnPath(t, HopChan(t, h))
  BY DEF OnPath
<1>5. ASSUME NEW g \in Hops(t), HopChan(t, g) = HopChan(t, h)
      PROVE  g = h
  <2>1. g \in Nat /\ g <= Len(Path(t)) - 1
    BY PathFacts DEF Hops
  <2>2. g = 0 => HopChan(t, g) \notin Link
    BY PathFacts, LocalFacts DEF HopChan
  <2>3. g # 0 => g \in 1..Len(Path(t)) - 1 /\ HopChan(t, g) \in Link
    BY <2>1, PathFacts DEF HopChan
  <2>4. CASE g # 0 /\ h # 0
    <3>1. Path(t)[g] = Path(t)[h]
      BY <1>5, <2>4 DEF HopChan
    <3>2. g \in 1..Len(Path(t)) /\ h \in 1..Len(Path(t))
      BY <2>3, <2>4, <1>3, PathFacts
    <3>3. QED
      BY <3>1, <3>2, PathFacts
  <2>5. QED
    BY <1>2, <1>3, <1>5, <2>2, <2>3, <2>4
<1>6. HopOf(t, HopChan(t, h)) = h
  BY <1>5 DEF HopOf
<1>7. QED
  BY <1>1, <1>2, <1>3, <1>4, <1>6, LinkFacts

(***************************************************************************)
(* The position of a channel of a route is among its hops.                 *)
(***************************************************************************)
LEMMA OnPathFacts ==
  ASSUME NEW t \in Stream, NEW c, OnPath(t, c)
  PROVE  HopOf(t, c) \in Hops(t) /\ c = HopChan(t, HopOf(t, c)) /\ HopOf(t, c) \in Nat /\ c \in Chan
<1>1. PICK h \in Hops(t) : c = HopChan(t, h)
  BY DEF OnPath
<1>2. QED
  BY <1>1, HopFacts

(***************************************************************************)
(* A link between two consecutive nodes of a route is a hop of it.         *)
(***************************************************************************)
LEMMA OnLinkPath ==
  ASSUME NEW k \in Chunk, NEW c, OnLink(k, c)
  PROVE  OnPath(k.str, c)
<1>1. k.str \in Stream
  BY DEF Chunk
<1>2. PICK i \in 1..Len(Path(k.str)) - 1 : c = <<Path(k.str)[i], Path(k.str)[i + 1]>>
  BY DEF OnLink
<1>3. i \in Hops(k.str) /\ i # 0
  BY <1>1, <1>2, PathFacts DEF Hops
<1>4. c = HopChan(k.str, i)
  BY <1>2, <1>3 DEF HopChan
<1>5. QED
  BY <1>3, <1>4 DEF OnPath

(***************************************************************************)
(* The local channel of the source is the first hop of a route.            *)
(***************************************************************************)
LEMMA AtSourcePath ==
  ASSUME NEW k, NEW n \in Node, AtSource(k, n)
  PROVE  OnPath(k.str, Local(n)) /\ HopOf(k.str, Local(n)) = 0
<1>1. k.str \in Stream /\ n = Src[k.str]
  BY DEF AtSource, Chunk
<1>2. 0 \in Hops(k.str) /\ Local(n) = HopChan(k.str, 0)
  BY <1>1, PathFacts DEF Hops, HopChan
<1>3. QED
  BY <1>1, <1>2, HopFacts

(***************************************************************************)
(* The channel a chunk is passed on to is the next one of its route.       *)
(***************************************************************************)
LEMMA HopNext ==
  ASSUME NEW t \in Stream, NEW c, OnPath(t, c),
         c \in Link => Dst[t] # c[2]
  PROVE  /\ OnPath(t, ioman_get_nexthop_channel(c[2], t))
         /\ HopOf(t, ioman_get_nexthop_channel(c[2], t)) = HopOf(t, c) + 1
         /\ ioman_get_nexthop_channel(c[2], t) \in Link
<1>1. PICK h \in Hops(t) : c = HopChan(t, h) /\ HopOf(t, c) = h /\ h \in Nat
  BY OnPathFacts
<1>2. h + 1 \in Hops(t) /\ h + 1 # 0 /\ c[2] = Path(t)[h + 1]
  <2>1. CASE h = 0
    BY <2>1, <1>1, PathFacts DEF HopChan, Hops, Local
  <2>2. CASE h # 0
    <3>1. c \in Link
      BY <1>1, <2>2, HopFacts
    <3>2. c[2] = Path(t)[h + 1]
      BY <1>1, <2>2 DEF HopChan
    <3>3. h + 1 # Len(Path(t))
      BY <3>1, <3>2, PathFacts
    <3>4. h + 1 \in Hops(t) /\ h + 1 # 0
      BY <3>3, <1>1, PathFacts DEF Hops
    <3>5. QED
      BY <3>2, <3>4
  <2>3. QED
    BY <2>1, <2>2
<1>3. h + 1 \in 1..Len(Path(t)) - 1
  BY <1>1, <1>2, PathFacts DEF Hops
<1>. DEFINE g == h + 1
<1>4. ioman_get_nexthop_channel(Path(t)[g], t) = <<Path(t)[g], Path(t)[g + 1]>>
  <2>. HIDE DEF g
  <2>1. g \in 1..Len(Path(t)) - 1
    BY <1>3 DEF g
  <2>2. QED
    BY <2>1, NextHop
<1>5. ioman_get_nexthop_channel(c[2], t) = HopChan(t, g)
  BY <1>2, <1>4 DEF HopChan
<1>6. g \in Hops(t) /\ g # 0 /\ HopOf(t, c) + 1 = g
  BY <1>1, <1>2
<1>. HIDE DEF g
<1>7. OnPath(t, HopChan(t, g)) /\ HopOf(t, HopChan(t, g)) = g /\ HopChan(t, g) \in Link
  BY <1>6, HopFacts
<1>8. QED
  BY <1>5, <1>6, <1>7

(***************************************************************************)
(* The last hop of a route is the one into the destination.                *)
(***************************************************************************)
LEMMA HopLast ==
  ASSUME NEW t \in Stream, NEW c \in Link, OnPath(t, c), c[2] = Dst[t],
         NEW d, OnPath(t, d)
  PROVE  HopOf(t, d) <= HopOf(t, c)
<1>1. PICK h \in Hops(t) : c = HopChan(t, h) /\ HopOf(t, c) = h /\ h \in Nat
  BY OnPathFacts
<1>2. h # 0
  BY <1>1, HopFacts
<1>3. Path(t)[h + 1] = Dst[t]
  BY <1>1, <1>2 DEF HopChan
<1>4. h + 1 \in 1..Len(Path(t)) /\ Len(Path(t)) \in 1..Len(Path(t))
  BY <1>1, PathFacts DEF Hops
<1>5. h + 1 = Len(Path(t))
  BY <1>3, <1>4, PathFacts
<1>6. HopOf(t, d) \in Hops(t)
  BY OnPathFacts
<1>7. QED
  BY <1>1, <1>5, <1>6, PathFacts DEF Hops

-----------------------------------------------------------------------------
(***************************************************************************)
(* Ranks tell the places of a route apart.                                 *)
(***************************************************************************)
LEMMA RankFacts ==
  ASSUME NEW t \in Stream, NEW c, OnPath(t, c), NEW d, OnPath(t, d),
         NEW i \in 0..2, NEW j \in 0..2
  PROVE  /\ Rank(t, c, i) \in Nat
         /\ Rank(t, c, i) = Rank(t, d, j) => c = d /\ i = j
         /\ HopOf(t, c) < HopOf(t, d) => Rank(t, c, i) < Rank(t, d, j)
         /\ Rank(t, c, i) < Rank(t, d, j) => HopOf(t, c) <= HopOf(t, d) /\ (c = d => i < j)
<1>. DEFINE g == HopOf(t, c)
            h == HopOf(t, d)
<1>1. g \in Nat /\ h \in Nat /\ (g = h => c = d)
  BY OnPathFacts
<1>2. Rank(t, c, i) = 3 * g + i /\ Rank(t, d, j) = 3 * h + j
  BY DEF Rank
<1>3. c = d => g = h
  OBVIOUS
<1>. HIDE DEF g, h
<1>4. /\ 3 * g + i \in Nat
      /\ 3 * g + i = 3 * h + j => g = h /\ i = j
      /\ g < h => 3 * g + i < 3 * h + j
      /\ 3 * g + i < 3 * h + j => g <= h /\ (g = h => i < j)
  BY <1>1
<1>5. QED
  BY <1>1, <1>2, <1>3, <1>4 DEF g, h

(***************************************************************************)
(* Between a place and the next hop of its chunk there are only the later  *)
(* places of the same channel.                                             *)
(***************************************************************************)
LEMMA RankBetween ==
  ASSUME NEW t \in Stream, NEW c, OnPath(t, c), NEW d, OnPath(t, d),
         NEW e, OnPath(t, e), NEW i \in 0..2, NEW j \in 0..2, NEW m \in 0..2,
         d = c \/ (HopOf(t, d) = HopOf(t, c) + 1 /\ j = 0),
         Rank(t, c, i) < Rank(t, e, m), Rank(t, e, m) < Rank(t, d, j)
  PROVE  e = c /\ i < m /\ (d = c => m < j)
<1>1. HopOf(t, c) \in Nat /\ HopOf(t, d) \in Nat /\ HopOf(t, e) \in Nat
  BY OnPathFacts
<1>2. HopOf(t, c) <= HopOf(t, e) /\ HopOf(t, e) <= HopOf(t, d)
  BY RankFacts
<1>3. HopOf(t, e) = HopOf(t, c) => e = c
  BY OnPathFacts
<1>4. HopOf(t, e) = HopOf(t, d) => e = d
  BY OnPathFacts
<1>5. CASE d = c
  <2>1. e = c
    BY <1>1, <1>2, <1>3, <1>5
  <2>2. QED
    BY <2>1, <1>5, RankFacts
<1>6. CASE HopOf(t, d) = HopOf(t, c) + 1 /\ j = 0
  <2>1. e # d
    BY <1>6, RankFacts
  <2>2. e = c
    BY <1>1, <1>2, <1>3, <1>4, <1>6, <2>1
  <2>3. i < m
    BY <2>2, RankFacts
  <2>4. d # c
    BY <1>1, <1>6
  <2>5. QED
    BY <2>2, <2>3, <2>4
<1>7. QED
  BY <1>5, <1>6

(***************************************************************************)
(* Rev pairs the two directions of a link, and a local channel with        *)
(* itself.                                                                 *)
(***************************************************************************)
LEMMA RevFacts ==
  ASSUME NEW c \in Chan
  PROVE  /\ Rev(c) \in Chan /\ Rev(Rev(c)) = c
         /\ c \in Link => Rev(c) \in Link
         /\ \A n \in Node : c = Local(n) => Rev(c) = c
         /\ c \notin Link => \E n \in Node : c = Local(n)
<1>1. CASE c \in Link
  BY <1>1, LinkFacts, LocalFacts
<1>2. CASE c \notin Link
  <2>1. PICK n \in Node : c = Local(n)
    BY <1>2 DEF Chan
  <2>2. Rev(c) = c
    BY <2>1 DEF Rev, Local
  <2>3. QED
    BY <1>2, <2>1, <2>2
<1>3. QED
  BY <1>1, <1>2

(***************************************************************************)
(* Chunks are only ever on channels of their route.                        *)
(***************************************************************************)
LEMMA AtOnPath ==
  ASSUME IInv, NEW k \in Chunk, NEW c \in Chan, NEW j \in 0..2, At(k, c, j)
  PROVE  OnPath(k.str, c)
<1>. USE DEF IInv
<1>1. k # NULL /\ k \in Msg
  BY BoundAssumption DEF Msg
<1>2. CASE c \in Link
  <2>1. CASE In(k, queue[c])
    BY <2>1, <1>2, OnLinkPath DEF In, Routed
  <2>2. CASE In(k, wire[c])
    BY <2>2, <1>2, OnLinkPath DEF In, Routed
  <2>3. CASE Held(k, Rev(c))
    <3>1. Rev(c) \in Link /\ Rev(Rev(c)) = c /\ curr[Rev(c)] = k
      BY <1>2, <2>3, LinkFacts DEF Held
    <3>2. OnLink(k, c)
      BY <1>1, <3>1 DEF Routed
    <3>3. QED
      BY <3>2, OnLinkPath
  <2>4. QED
    BY <2>1, <2>2, <2>3 DEF At, Queued
<1>3. CASE c \notin Link
  <2>1. PICK n \in Node : c = Local(n) /\ Rev(c) = c
    BY <1>3, RevFacts
  <2>2. In(k, queue[c]) \/ curr[c] = k
    BY <1>3, <2>1 DEF At, Queued, Held
  <2>3. AtSource(k, n)
    BY <1>1, <2>1, <2>2 DEF In, Routed
  <2>4. QED
    BY <2>1, <2>3, AtSourcePath
<1>4. QED
  BY <1>2, <1>3

-----------------------------------------------------------------------------
(***************************************************************************)
(* What a step may do to the place of a chunk: move it on, and nothing     *)
(* else to any other chunk.                                                *)
(***************************************************************************)
Moved(k, c, i, d, j) ==
  \A l \in Chunk : \A e \in Chan : \A m \in 0..2 :
    At(l, e, m)' <=> \/ At(l, e, m) /\ ~ (l = k /\ e = c /\ m = i)
                     \/ l = k /\ e = d /\ m = j

Stayed == \A l \in Chunk : \A e \in Chan : \A m \in 0..2 : At(l, e, m)' <=> At(l, e, m)

(***************************************************************************)
(* A step that moves no chunk keeps the order.                             *)
(***************************************************************************)
LEMMA StayedOrder ==
  ASSUME OrderInv, CoverInv, Stayed, UNCHANGED <<sent, recv>>
  PROVE  OrderInv' /\ CoverInv'
<1>1. OrderInv'
  BY DEF OrderInv, Stayed
<1>2. ASSUME NEW l \in Chunk
      PROVE  InNetwork(l)' <=> InNetwork(l)
  BY DEF InNetwork, Stayed
<1>3. CoverInv'
  BY <1>2 DEF CoverInv
<1>4. QED
  BY <1>1, <1>3

(***************************************************************************)
(* The order survives a move if the chunk was the first of its place and   *)
(* the places it passes are empty.                                         *)
(***************************************************************************)
LEMMA MovedOrder ==
  ASSUME IInv, OrderInv, CoverInv, UNCHANGED <<sent, recv>>,
         NEW k \in Chunk, NEW c \in Chan, NEW d \in Chan, NEW i \in 0..2, NEW j \in 0..2,
         At(k, c, i), OnPath(k.str, d),
         (d = c /\ i < j) \/ (HopOf(k.str, d) = HopOf(k.str, c) + 1 /\ j = 0),
         \A l \in Chunk : l.str = k.str /\ At(l, c, i) /\ l # k => k.seq < l.seq,
         \A l \in Chunk : \A m \in 0..2 : i < m /\ (d = c => m < j) => ~ At(l, c, m),
         Moved(k, c, i, d, j)
  PROVE  OrderInv' /\ CoverInv'
<1>1. k.str \in Stream /\ OnPath(k.str, c)
  BY AtOnPath DEF Chunk
<1>2. Rank(k.str, c, i) < Rank(k.str, d, j)
  <2>1. CASE d = c /\ i < j
    BY <2>1, <1>1, OnPathFacts DEF Rank
  <2>2. CASE HopOf(k.str, d) = HopOf(k.str, c) + 1
    BY <2>2, <1>1, OnPathFacts, RankFacts
  <2>3. QED
    BY <2>1, <2>2
<1>3. ASSUME NEW l \in Chunk, l.str = k.str, NEW e \in Chan, NEW m \in 0..2, At(l, e, m),
             ~ (l = k /\ e = c /\ m = i), Rank(k.str, e, m) < Rank(k.str, d, j)
      PROVE  k.seq < l.seq
  <2>1. OnPath(k.str, e)
    BY <1>3, AtOnPath
  <2>2. /\ Rank(k.str, e, m) \in Nat /\ Rank(k.str, c, i) \in Nat
        /\ Rank(k.str, e, m) = Rank(k.str, c, i) => e = c /\ m = i
    BY <1>1, <2>1, RankFacts
  <2>3. CASE Rank(k.str, e, m) < Rank(k.str, c, i)
    BY <2>3, <1>3 DEF OrderInv
  <2>4. CASE Rank(k.str, e, m) = Rank(k.str, c, i)
    BY <2>4, <2>2, <1>3
  <2>5. CASE Rank(k.str, c, i) < Rank(k.str, e, m)
    BY <2>5, <2>1, <1>1, <1>3, RankBetween
  <2>6. QED
    BY <2>2, <2>3, <2>4, <2>5
<1>4. ASSUME NEW l \in Chunk, l.str = k.str, NEW e \in Chan, NEW m \in 0..2, At(l, e, m),
             Rank(k.str, e, m) > Rank(k.str, d, j)
      PROVE  l.seq < k.seq
  <2>1. OnPath(k.str, e)
    BY <1>4, AtOnPath
  <2>2. /\ Rank(k.str, e, m) \in Nat /\ Rank(k.str, c, i) \in Nat /\ Rank(k.str, d, j) \in Nat
    BY <1>1, <2>1, RankFacts
  <2>3. Rank(k.str, e, m) > Rank(k.str, c, i)
    BY <2>2, <1>2, <1>4
  <2>4. QED
    BY <2>3, <1>4 DEF OrderInv
<1>5. OrderInv'
  <2>. SUFFICES ASSUME NEW a \in Chunk, NEW b \in Chunk, NEW e \in Chan, NEW f \in Chan,
                       NEW m \in 0..2, NEW n \in 0..2,
                       a.str = b.str, At(a, e, m)', At(b, f, n)',
                       Rank(a.str, e, m) > Rank(b.str, f, n)
                PROVE  a.seq < b.seq
    BY DEF OrderInv
  <2>1. \/ At(a, e, m) /\ ~ (a = k /\ e = c /\ m = i)
        \/ a = k /\ e = d /\ m = j
    BY DEF Moved
  <2>2. \/ At(b, f, n) /\ ~ (b = k /\ f = c /\ n = i)
        \/ b = k /\ f = d /\ n = j
    BY DEF Moved
  <2>3. Rank(k.str, d, j) \in Nat
    BY <1>1, RankFacts
  <2>4. CASE At(a, e, m) /\ At(b, f, n)
    BY <2>4 DEF OrderInv
  <2>5. CASE a = k /\ e = d /\ m = j /\ b = k /\ f = d /\ n = j
    BY <2>3, <2>5
  <2>6. CASE a = k /\ e = d /\ m = j /\ At(b, f, n) /\ ~ (b = k /\ f = c /\ n = i)
    <3>1. Rank(k.str, f, n) < Rank(k.str, d, j)
      <4>1. OnPath(k.str, f)
        BY <2>6, AtOnPath
      <4>2. Rank(k.str, f, n) \in Nat
        BY <4>1, <1>1, RankFacts
      <4>3. QED
        BY <4>2, <2>3, <2>6
    <3>2. QED
      BY <3>1, <2>6, <1>3
  <2>7. CASE At(a, e, m) /\ b = k /\ f = d /\ n = j
    BY <2>7, <1>4
  <2>8. QED
    BY <2>1, <2>2, <2>4, <2>5, <2>6, <2>7
<1>6. ASSUME NEW l \in Chunk
      PROVE  InNetwork(l)' <=> InNetwork(l)
  <2>1. l = k => InNetwork(l)' /\ InNetwork(l)
    BY DEF InNetwork, Moved
  <2>2. l # k => (InNetwork(l)' <=> InNetwork(l))
    BY DEF InNetwork, Moved
  <2>3. QED
    BY <2>1, <2>2
<1>7. CoverInv'
  BY <1>6 DEF CoverInv
<1>8. QED
  BY <1>5, <1>7

-----------------------------------------------------------------------------
(***************************************************************************)
(* A chunk put behind all the chunks of its stream in a queue.             *)
(***************************************************************************)
LEMMA Enqueued ==
  ASSUME IInv, SortedInv, UNCHANGED head_off, NEW c \in Chan, NEW k \in Chunk,
         queue'[c] = Append(queue[c], k),
         \A l \in Chunk : l.str = k.str /\ In(l, queue[c]) => l.seq < k.seq
  PROVE  /\ Sorted(queue'[c])
         /\ \A l \in Chunk : Queued(l, c)' <=> Queued(l, c) \/ l = k
         /\ c \in Link /\ head_off[c] = 1 => Head(queue'[c]) = Head(queue[c])
<1>. USE DEF IInv
<1>1. queue[c] \in Seq(Msg) /\ k \in Msg /\ k.seq \in Nat
  BY DEF TypeOK, Msg, Chunk
<1>2. Sorted(queue[c])
  BY DEF SortedInv
<1>3. PICK s : s = queue[c]
  OBVIOUS
<1>4. s \in Seq(Msg) /\ queue'[c] = Append(s, k)
  BY <1>1, <1>3
<1>5. \A l \in Chunk : In(l, Append(s, k)) <=> In(l, s) \/ l = k
  BY <1>1, <1>4, InAppend
<1>6. Sorted(Append(s, k))
  BY <1>1, <1>2, <1>3, <1>4, SortedAppend
<1>7. ASSUME c \in Link, head_off[c] = 1
      PROVE  Head(queue'[c]) = Head(s) /\ In(Head(s), s)
  <2>1. s # <<>>
    BY <1>3, <1>7 DEF Framed
  <2>2. Append(s, k)[1] = s[1] /\ Head(s) = s[1] /\ 1 \in 1..Len(s)
    BY <2>1, <1>1, <1>4, TailFacts, AppendFacts
  <2>3. Head(Append(s, k)) = Append(s, k)[1]
    BY <1>1, <1>4, AppendFacts, TailFacts
  <2>4. QED
    BY <2>2, <2>3, <1>4 DEF In
<1>8. k # Head(s) \/ ~ (c \in Link /\ head_off[c] = 1)
  <2>. SUFFICES ASSUME k = Head(s), c \in Link, head_off[c] = 1
                PROVE  FALSE
    OBVIOUS
  <2>1. In(k, queue[c])
    BY <1>3, <1>7
  <2>2. k.seq < k.seq
    BY <2>1
  <2>3. QED
    BY <2>2, <1>1
<1>9. \A l \in Chunk : Queued(l, c)' <=> Queued(l, c) \/ l = k
  <2>. SUFFICES ASSUME NEW l \in Chunk
                PROVE  Queued(l, c)' <=> Queued(l, c) \/ l = k
    OBVIOUS
  <2>1. In(l, queue[c])' <=> In(l, s) \/ l = k
    BY <1>4, <1>5 DEF In
  <2>2. Queued(l, c)' <=> (In(l, s) \/ l = k) /\ ~ (c \in Link /\ head_off[c] = 1 /\ l = Head(queue'[c]))
    BY <2>1 DEF Queued
  <2>3. Queued(l, c) <=> In(l, s) /\ ~ (c \in Link /\ head_off[c] = 1 /\ l = Head(s))
    BY <1>3 DEF Queued
  <2>4. QED
    BY <2>2, <2>3, <1>7, <1>8
<1>10. QED
  BY <1>3, <1>4, <1>6, <1>7, <1>9

(***************************************************************************)
(* The chunks of its stream that are in the queue of the next hop are      *)
(* ahead of a chunk.                                                       *)
(***************************************************************************)
LEMMA AheadInQueue ==
  ASSUME IInv, FlowInv, NEW k \in Chunk, NEW c \in Chan, NEW i \in 0..2, At(k, c, i),
         NEW d \in Link, OnPath(k.str, d), HopOf(k.str, d) = HopOf(k.str, c) + 1
  PROVE  \A l \in Chunk : l.str = k.str /\ In(l, queue[d]) => l.seq < k.seq
<1>. SUFFICES ASSUME NEW l \in Chunk, l.str = k.str, In(l, queue[d])
              PROVE  l.seq < k.seq
  OBVIOUS
<1>1. k.str \in Stream /\ OnPath(k.str, c) /\ d \in Chan
  BY AtOnPath, LinkFacts DEF Chunk
<1>2. PICK j \in 0..2 : At(l, d, j)
  <2>1. CASE head_off[d] = 1 /\ l = Head(queue[d])
    <3>1. wire[d] # <<>> /\ wire[d][Len(wire[d])] = l /\ wire[d] \in Seq(Msg)
      BY <2>1 DEF FlowInv, HeaderInv, IInv, TypeOK
    <3>2. Len(wire[d]) \in 1..Len(wire[d])
      BY <3>1
    <3>3. In(l, wire[d])
      BY <3>1, <3>2 DEF In
    <3>4. At(l, d, 1)
      BY <3>3 DEF At
    <3>5. QED
      BY <3>4
  <2>2. CASE ~ (head_off[d] = 1 /\ l = Head(queue[d]))
    <3>1. At(l, d, 0)
      BY <2>2 DEF At, Queued
    <3>2. QED
      BY <3>1
  <2>3. QED
    BY <2>1, <2>2
<1>3. Rank(l.str, d, j) > Rank(k.str, c, i)
  <2>1. HopOf(k.str, c) \in Nat
    BY <1>1, OnPathFacts
  <2>2. HopOf(k.str, c) < HopOf(k.str, d)
    BY <2>1
  <2>3. Rank(k.str, c, i) < Rank(k.str, d, j) /\ Rank(k.str, c, i) \in Nat
    BY <1>1, <2>2, RankFacts
  <2>4. Rank(k.str, d, j) \in Nat
    BY <1>1, RankFacts
  <2>5. QED
    BY <2>3, <2>4
<1>4. QED
  BY <1>1, <1>2, <1>3 DEF FlowInv, OrderInv

(***************************************************************************)
(* Passing chunk k on from channel c moves it to the queue of the next     *)
(* hop, or leaves it in the hands of c.                                    *)
(***************************************************************************)
LEMMA PipelineFlow ==
  ASSUME IInv, FlowInv, UNCHANGED head_off,
         NEW c, NEW k, NEW next, NEW q, PipelineCall(c, k, next, q),
         NEW i \in 0..2, At(k, Rev(c), i), i < 2, OnPath(k.str, next),
         HopOf(k.str, next) = HopOf(k.str, Rev(c)) + 1
  PROVE  \E d \in Chan, j \in 0..2 :
           /\ OnPath(k.str, d)
           /\ \/ d = Rev(c) /\ j = 2
              \/ d = next /\ HopOf(k.str, d) = HopOf(k.str, Rev(c)) + 1 /\ j = 0
           /\ \A l \in Chunk : \A e \in Link :
                Queued(l, e)' <=> Queued(l, e) \/ (l = k /\ e = d /\ j = 0)
           /\ \A e \in Link : Sorted(queue'[e])
           /\ \A e \in Link : head_off[e] = 1 => Head(queue'[e]) = Head(queue[e])
           /\ \A l \in Chunk : \A e \in Chan :
                Held(l, Rev(e))' <=> Held(l, Rev(e)) \/ (l = k /\ e = d /\ j = 2)
           /\ \A e \in Chan : BeingRead(e)' => e # c /\ BeingRead(e) /\ curr'[e] = curr[e]
<1>. USE DEF IInv
<1>1. /\ c \in Chan /\ state[c] = "ACTIVE" /\ k \in Chunk /\ next \in Link /\ next \in Chan
      /\ \A e \in Link : q[e] = queue[e] /\ e \in Chan
  BY LinkFacts DEF PipelineCall
<1>2. /\ \A e \in Chan : e # c => state'[e] = state[e] /\ curr'[e] = curr[e]
      /\ \A e \in Link : e # next => queue'[e] = queue[e]
  BY <1>1, PipelineEffect
<1>3. Rev(c) \in Chan /\ Rev(Rev(c)) = c /\ OnPath(k.str, Rev(c))
  BY <1>1, RevFacts, AtOnPath
<1>4. SortedInv
  BY DEF FlowInv
<1>5. \A l \in Chunk : \A e \in Link : e # next => (Queued(l, e)' <=> Queued(l, e))
  BY <1>2 DEF Queued, In
<1>6. \A e \in Link : e # next => Sorted(queue'[e]) /\ Head(queue'[e]) = Head(queue[e])
  BY <1>1, <1>2, <1>4 DEF SortedInv
<1>7. \A l \in Chunk : \A e \in Chan : e # c => (Held(l, e)' <=> Held(l, e))
  BY <1>2 DEF Held
<1>8. \A l \in Chunk : ~ Held(l, c)
  BY <1>1 DEF Held
<1>9. \A e \in Chan : Rev(e) \in Chan /\ (Rev(e) = c <=> e = Rev(c))
  BY <1>1, RevFacts
<1>10. \A e \in Chan : e # c /\ BeingRead(e)' => BeingRead(e) /\ curr'[e] = curr[e]
  BY <1>2 DEF BeingRead
<1>11. ~ BeingRead(c)'
  BY PipelineEffect DEF BeingRead
<1>12. CASE state'[c] = "ACTIVE" /\ queue'[next] = Append(queue[next], k)
  <2>1. \A l \in Chunk : l.str = k.str /\ In(l, queue[next]) => l.seq < k.seq
    BY <1>1, <1>3, AheadInQueue
  <2>2. /\ Sorted(queue'[next])
        /\ \A l \in Chunk : Queued(l, next)' <=> Queued(l, next) \/ l = k
        /\ head_off[next] = 1 => Head(queue'[next]) = Head(queue[next])
    BY <1>1, <1>4, <1>12, <2>1, Enqueued
  <2>3. \A l \in Chunk : ~ Held(l, c)'
    BY <1>12 DEF Held
  <2>4. \A l \in Chunk : \A e \in Link :
          Queued(l, e)' <=> Queued(l, e) \/ (l = k /\ e = next)
    BY <1>5, <2>2
  <2>5. \A e \in Link : Sorted(queue'[e])
    BY <1>6, <2>2
  <2>6. \A e \in Link : head_off[e] = 1 => Head(queue'[e]) = Head(queue[e])
    BY <1>6, <2>2
  <2>7. \A l \in Chunk : \A e \in Chan : Held(l, Rev(e))' <=> Held(l, Rev(e))
    <3>. SUFFICES ASSUME NEW l \in Chunk, NEW e \in Chan
                  PROVE  Held(l, Rev(e))' <=> Held(l, Rev(e))
      OBVIOUS
    <3>1. PICK f \in Chan : f = Rev(e)
      BY <1>9
    <3>2. Held(l, f)' <=> Held(l, f)
      BY <1>7, <1>8, <2>3
    <3>3. QED
      BY <3>1, <3>2
  <2>8. 0 \in 0..2 /\ 0 # 2
    OBVIOUS
  <2>9. QED
    <3>1. \A l \in Chunk : \A e \in Link :
            Queued(l, e)' <=> Queued(l, e) \/ (l = k /\ e = next /\ 0 = 0)
      BY <2>4
    <3>2. \A l \in Chunk : \A e \in Chan :
            Held(l, Rev(e))' <=> Held(l, Rev(e)) \/ (l = k /\ e = next /\ 0 = 2)
      BY <2>7, <2>8
    <3>3. \A e \in Chan : BeingRead(e)' => e # c /\ BeingRead(e) /\ curr'[e] = curr[e]
      BY <1>10, <1>11
    <3>4. OnPath(k.str, next) /\ HopOf(k.str, next) = HopOf(k.str, Rev(c)) + 1
      OBVIOUS
    <3>5. next \in Chan /\ 0 \in 0..2
      BY <1>1
    <3>6. PICK d \in Chan, j \in 0..2 : d = next /\ j = 0
      BY <3>5
    <3>7. /\ \A l \in Chunk : \A e \in Link :
               Queued(l, e)' <=> Queued(l, e) \/ (l = k /\ e = d /\ j = 0)
          /\ \A l \in Chunk : \A e \in Chan :
               Held(l, Rev(e))' <=> Held(l, Rev(e)) \/ (l = k /\ e = d /\ j = 2)
      BY <3>1, <3>2, <3>6
    <3>8. OnPath(k.str, d) /\ HopOf(k.str, d) = HopOf(k.str, Rev(c)) + 1
      BY <3>4, <3>6
    <3>9. QED
      BY <2>5, <2>6, <3>3, <3>6, <3>7, <3>8
<1>13. CASE state'[c] = "BLOCKING" /\ curr'[c] = k /\ queue'[next] = queue[next]
  <2>1. \A l \in Chunk : \A e \in Link : Queued(l, e)' <=> Queued(l, e)
    <3>1. \A l \in Chunk : Queued(l, next)' <=> Queued(l, next)
      BY <1>13 DEF Queued, In
    <3>2. QED
      BY <3>1, <1>5
  <2>2. \A e \in Link : Sorted(queue'[e])
    BY <1>1, <1>4, <1>6, <1>13 DEF SortedInv
  <2>3. \A e \in Link : Head(queue'[e]) = Head(queue[e])
    BY <1>6, <1>13
  <2>4. \A l \in Chunk : Held(l, c)' <=> l = k
    BY <1>13 DEF Held
  <2>5. \A l \in Chunk : \A e \in Chan :
          Held(l, Rev(e))' <=> Held(l, Rev(e)) \/ (l = k /\ e = Rev(c))
    <3>. SUFFICES ASSUME NEW l \in Chunk, NEW e \in Chan
                  PROVE  Held(l, Rev(e))' <=> Held(l, Rev(e)) \/ (l = k /\ e = Rev(c))
      OBVIOUS
    <3>1. PICK f \in Chan : f = Rev(e) /\ (f = c <=> e = Rev(c))
      BY <1>9
    <3>2. Held(l, f)' <=> Held(l, f) \/ (l = k /\ f = c)
      BY <1>7, <1>8, <2>4
    <3>3. QED
      BY <3>1, <3>2
  <2>6. 2 \in 0..2 /\ 0 # 2
    OBVIOUS
  <2>7. QED
    BY <1>3, <1>10, <1>11, <2>1, <2>2, <2>3, <2>5, <2>6, Zenon
<1>14. QED
  BY <1>12, <1>13, PipelineEffect

-----------------------------------------------------------------------------
(***************************************************************************)
(* local_channel_read_message passes the new chunk on from the first hop.  *)
(***************************************************************************)
LEMMA LocalReadFlow ==
  ASSUME IInv, FlowInv, NEW n \in Node, ioman_process_local_channel_read(n)
  PROVE  FlowInv'
<1>. USE DEF IInv
<1>1. PICK q, k, next : /\ PipelineCall(Local(n), k, next, q)
                        /\ queue[Local(n)] # <<>> /\ k = Head(queue[Local(n)]) /\ AtSource(k, n)
                        /\ q[Local(n)] = Tail(queue[Local(n)])
                        /\ \A d \in Chan : d # Local(n) => q[d] = queue[d]
                        /\ UNCHANGED <<head_off, wire, sent, recv>>
  BY LocalReadCall, Zenon
<1>2. PICK c : c = Local(n)
  OBVIOUS
<1>3. /\ c \in Chan /\ c \notin Link /\ c = Rev(c) /\ c[1] = n /\ c[2] = n
      /\ PipelineCall(c, k, next, q)
      /\ queue[c] # <<>> /\ k = Head(queue[c]) /\ queue[c] \in Seq(Msg)
      /\ q[c] = Tail(queue[c])
      /\ \A d \in Chan : d # c => q[d] = queue[d]
  <2>1. c \in Chan /\ c \notin Link /\ c = Rev(c) /\ c[1] = n /\ c[2] = n
    BY <1>2, LocalFacts DEF Rev
  <2>2. QED
    BY <1>1, <1>2, <2>1 DEF TypeOK
<1>4. k \in Chunk /\ k \in Msg /\ k.str \in Stream /\ OnPath(k.str, c)
  BY <1>1, <1>2, AtSourcePath DEF AtSource, Chunk, Msg
<1>5. /\ next \in Link /\ OnPath(k.str, next)
      /\ HopOf(k.str, next) = HopOf(k.str, c) + 1
  <2>1. next = ioman_get_nexthop_channel(c[2], k.str)
    BY <1>3 DEF PipelineCall
  <2>2. QED
    BY <2>1, <1>3, <1>4, HopNext
<1>6. SortedInv /\ OrderInv /\ CoverInv /\ HeaderInv
  BY DEF FlowInv
<1>7. In(k, queue[c])
  BY <1>3, TailFacts DEF In
<1>8. At(k, c, 0)
  BY <1>3, <1>7 DEF At, Queued
<1>9. PICK d \in Chan, j \in 0..2 :
        /\ OnPath(k.str, d)
        /\ \/ d = c /\ j = 2
           \/ d = next /\ HopOf(k.str, d) = HopOf(k.str, c) + 1 /\ j = 0
        /\ \A l \in Chunk : \A e \in Link :
             Queued(l, e)' <=> Queued(l, e) \/ (l = k /\ e = d /\ j = 0)
        /\ \A e \in Link : Sorted(queue'[e])
        /\ \A e \in Link : head_off[e] = 1 => Head(queue'[e]) = Head(queue[e])
        /\ \A l \in Chunk : \A e \in Chan :
             Held(l, Rev(e))' <=> Held(l, Rev(e)) \/ (l = k /\ e = d /\ j = 2)
        /\ \A e \in Chan : BeingRead(e)' => e # c /\ BeingRead(e) /\ curr'[e] = curr[e]
  <2>1. At(k, Rev(c), 0) /\ HopOf(k.str, next) = HopOf(k.str, Rev(c)) + 1
    BY <1>3, <1>5, <1>8
  <2>2. 0 \in 0..2 /\ 0 < 2
    OBVIOUS
  <2>3. UNCHANGED head_off /\ IInv /\ FlowInv
    BY <1>1
  <2>4. \E d \in Chan, j \in 0..2 :
        /\ OnPath(k.str, d)
        /\ \/ d = Rev(c) /\ j = 2
           \/ d = next /\ HopOf(k.str, d) = HopOf(k.str, Rev(c)) + 1 /\ j = 0
        /\ \A l \in Chunk : \A e \in Link :
             Queued(l, e)' <=> Queued(l, e) \/ (l = k /\ e = d /\ j = 0)
        /\ \A e \in Link : Sorted(queue'[e])
        /\ \A e \in Link : head_off[e] = 1 => Head(queue'[e]) = Head(queue[e])
        /\ \A l \in Chunk : \A e \in Chan :
             Held(l, Rev(e))' <=> Held(l, Rev(e)) \/ (l = k /\ e = d /\ j = 2)
        /\ \A e \in Chan : BeingRead(e)' => e # c /\ BeingRead(e) /\ curr'[e] = curr[e]
    BY <1>3, <1>5, <2>1, <2>2, <2>3, PipelineFlow
  <2>5. QED
    BY <2>4, <1>3
<1>10. \A e \in Chan \ Link : /\ e # c => queue'[e] = queue[e]
                              /\ queue'[c] = Tail(queue[c])
  <2>1. \A e \in Chan : e # next => queue'[e] = q[e]
    BY <1>3, PipelineEffect
  <2>2. QED
    BY <2>1, <1>3, <1>5
<1>11. /\ Sorted(Tail(queue[c]))
       /\ \A l \in Chunk : In(l, Tail(queue[c])) <=> In(l, queue[c]) /\ l # k
       /\ \A l \in Chunk : In(l, queue[c]) /\ l.str = k.str /\ l # k => k.seq < l.seq
  <2>1. Sorted(queue[c])
    BY <1>3, <1>6 DEF SortedInv
  <2>2. QED
    BY <2>1, <1>3, <1>4, SortedTail
<1>12. \A l \in Chunk : \A e \in Chan \ Link :
         Queued(l, e)' <=> Queued(l, e) /\ ~ (l = k /\ e = c)
  <2>. SUFFICES ASSUME NEW l \in Chunk, NEW e \in Chan \ Link
                PROVE  Queued(l, e)' <=> Queued(l, e) /\ ~ (l = k /\ e = c)
    OBVIOUS
  <2>1. (Queued(l, e)' <=> In(l, queue[e])') /\ (Queued(l, e) <=> In(l, queue[e]))
    BY DEF Queued
  <2>2. CASE e = c
    <3>1. In(l, queue[e])' <=> In(l, Tail(queue[c]))
      BY <2>2, <1>10 DEF In
    <3>2. QED
      BY <2>1, <2>2, <3>1, <1>11
  <2>3. CASE e # c
    BY <2>1, <2>3, <1>10 DEF In
  <2>4. QED
    BY <2>2, <2>3
<1>13. Moved(k, c, 0, d, j)
  <2>. SUFFICES ASSUME NEW l \in Chunk, NEW e \in Chan, NEW m \in 0..2
                PROVE  At(l, e, m)' <=> \/ At(l, e, m) /\ ~ (l = k /\ e = c /\ m = 0)
                                        \/ l = k /\ e = d /\ m = j
    BY DEF Moved
  <2>1. CASE m = 0
    <3>1. (At(l, e, m)' <=> Queued(l, e)') /\ (At(l, e, m) <=> Queued(l, e))
      BY <2>1 DEF At
    <3>2. CASE e \in Link
      <4>1. Queued(l, e)' <=> Queued(l, e) \/ (l = k /\ e = d /\ j = 0)
        BY <3>2, <1>9
      <4>2. e # c
        BY <3>2, <1>3
      <4>3. QED
        BY <2>1, <3>1, <4>1, <4>2
    <3>3. CASE e \notin Link
      <4>1. Queued(l, e)' <=> Queued(l, e) /\ ~ (l = k /\ e = c)
        BY <3>3, <1>12
      <4>2. ~ (e = d /\ j = 0)
        BY <3>3, <1>5, <1>9
      <4>3. QED
        BY <2>1, <3>1, <4>1, <4>2
    <3>4. QED
      BY <3>2, <3>3
  <2>2. CASE m = 1
    <3>1. At(l, e, m)' <=> At(l, e, m)
      BY <2>2, <1>1 DEF At, In
    <3>2. j # 1
      BY <1>9
    <3>3. QED
      BY <2>2, <3>1, <3>2
  <2>3. CASE m = 2
    <3>1. (At(l, e, m)' <=> Held(l, Rev(e))') /\ (At(l, e, m) <=> Held(l, Rev(e)))
      BY <2>3 DEF At
    <3>2. Held(l, Rev(e))' <=> Held(l, Rev(e)) \/ (l = k /\ e = d /\ j = 2)
      BY <1>9
    <3>3. QED
      BY <2>3, <3>1, <3>2
  <2>4. QED
    BY <2>1, <2>2, <2>3
<1>14. OrderInv' /\ CoverInv'
  <2>1. \A l \in Chunk : l.str = k.str /\ At(l, c, 0) /\ l # k => k.seq < l.seq
    BY <1>11 DEF At, Queued
  <2>2. \A l \in Chunk : \A m \in 0..2 : 0 < m /\ (d = c => m < j) => ~ At(l, c, m)
    <3>1. state[c] = "ACTIVE"
      BY <1>3 DEF PipelineCall
    <3>2. \A l \in Chunk : ~ At(l, c, 1) /\ ~ At(l, c, 2)
      BY <3>1, <1>3 DEF At, Held
    <3>3. QED
      BY <3>2
  <2>3. (d = c /\ 0 < j) \/ (HopOf(k.str, d) = HopOf(k.str, c) + 1 /\ j = 0)
    BY <1>9
  <2>4. 0 \in 0..2 /\ UNCHANGED <<sent, recv>>
    BY <1>1
  <2>5. QED
    BY <1>3, <1>4, <1>6, <1>8, <1>9, <1>13, <2>1, <2>2, <2>3, <2>4, MovedOrder
<1>15. SortedInv'
  <2>1. \A e \in Chan : Sorted(queue'[e])
    BY <1>6, <1>9, <1>10, <1>11 DEF SortedInv
  <2>2. \A e \in Link : Sorted(wire'[e])
    BY <1>1, <1>6 DEF SortedInv
  <2>3. QED
    BY <2>1, <2>2 DEF SortedInv
<1>16. HeaderInv'
  BY <1>1, <1>6, <1>9, LinkFacts DEF HeaderInv
<1>17. QED
  BY <1>14, <1>15, <1>16 DEF FlowInv

-----------------------------------------------------------------------------
(***************************************************************************)
(* A new chunk has the largest number of its stream and the lowest place.  *)
(***************************************************************************)
LEMMA SendDataFlow ==
  ASSUME IInv, FlowInv, NEW t \in Stream, comm_node_send_data(t)
  PROVE  FlowInv'
<1>. USE DEF IInv
<1>1. PICK c, k : /\ c = Local(Src[t]) /\ k = [str |-> t, seq |-> sent[t] + 1]
                  /\ queue' = [queue EXCEPT ![c] = Append(@, k)]
                  /\ sent' = [sent EXCEPT ![t] = @ + 1]
                  /\ sent[t] < NChunks[t]
                  /\ UNCHANGED <<head_off, wire, state, curr, waitq, recv>>
  BY DEF comm_node_send_data
<1>2. /\ c \in Chan /\ c \notin Link /\ Rev(c) = c
      /\ sent[t] \in Nat /\ k \in Chunk /\ k.str = t /\ k.seq = sent[t] + 1
      /\ AtSource(k, Src[t])
  <2>1. Src[t] \in Node
    BY RouteAssumption
  <2>2. c \in Chan /\ c \notin Link /\ c = <<Src[t], Src[t]>>
    BY <1>1, <2>1, LocalFacts
  <2>3. Rev(c) = c
    BY <2>2 DEF Rev
  <2>4. sent[t] \in Nat /\ sent[t] + 1 \in Nat \ {0}
    BY DEF TypeOK
  <2>5. k \in Chunk /\ k.str = t /\ k.seq = sent[t] + 1
    BY <1>1, <2>4 DEF Chunk
  <2>6. AtSource(k, Src[t])
    BY <2>5 DEF AtSource
  <2>7. QED
    BY <2>2, <2>3, <2>4, <2>5, <2>6
<1>3. OnPath(t, c) /\ HopOf(t, c) = 0
  <2>1. 0 \in Hops(t) /\ c = HopChan(t, 0)
    BY <1>1, PathFacts DEF Hops, HopChan
  <2>2. QED
    BY <2>1, HopFacts
<1>4. SortedInv /\ OrderInv /\ CoverInv /\ HeaderInv
  BY DEF FlowInv
<1>5. /\ queue'[c] = Append(queue[c], k)
      /\ \A e \in Chan : e # c => queue'[e] = queue[e]
  BY <1>1, <1>2 DEF TypeOK
<1>6. ASSUME NEW l \in Chunk, l.str = t, NEW e \in Chan, NEW m \in 0..2, At(l, e, m)
      PROVE  l.seq < k.seq
  <2>1. l.seq <= sent[t]
    BY <1>4, <1>6 DEF CoverInv, InNetwork
  <2>2. QED
    BY <2>1, <1>2 DEF Chunk
<1>7. \A l \in Chunk : l.str = k.str /\ In(l, queue[c]) => l.seq < k.seq
  <2>. SUFFICES ASSUME NEW l \in Chunk, l.str = k.str, In(l, queue[c])
                PROVE  l.seq < k.seq
    OBVIOUS
  <2>1. At(l, c, 0)
    BY <1>2 DEF At, Queued
  <2>2. QED
    BY <2>1, <1>2, <1>6
<1>8. /\ Sorted(queue'[c])
      /\ \A l \in Chunk : Queued(l, c)' <=> Queued(l, c) \/ l = k
  <2>1. UNCHANGED head_off
    BY <1>1
  <2>2. QED
    BY <1>2, <1>4, <1>5, <1>7, <2>1, Enqueued
<1>9. \A l \in Chunk : \A e \in Chan : \A m \in 0..2 :
        At(l, e, m)' <=> At(l, e, m) \/ (l = k /\ e = c /\ m = 0)
  <2>. SUFFICES ASSUME NEW l \in Chunk, NEW e \in Chan, NEW m \in 0..2
                PROVE  At(l, e, m)' <=> At(l, e, m) \/ (l = k /\ e = c /\ m = 0)
    OBVIOUS
  <2>1. CASE m = 0
    <3>1. (At(l, e, m)' <=> Queued(l, e)') /\ (At(l, e, m) <=> Queued(l, e))
      BY <2>1 DEF At
    <3>2. e # c => (Queued(l, e)' <=> Queued(l, e))
      BY <1>1, <1>5 DEF Queued, In
    <3>3. QED
      BY <2>1, <3>1, <3>2, <1>8
  <2>2. CASE m # 0
    BY <2>2, <1>1 DEF At, In, Held
  <2>3. QED
    BY <2>1, <2>2
<1>10. OrderInv'
  <2>. SUFFICES ASSUME NEW a \in Chunk, NEW b \in Chunk, NEW e \in Chan, NEW f \in Chan,
                       NEW m \in 0..2, NEW n \in 0..2,
                       a.str = b.str, At(a, e, m)', At(b, f, n)',
                       Rank(a.str, e, m) > Rank(b.str, f, n)
                PROVE  a.seq < b.seq
    BY DEF OrderInv
  <2>1. Rank(t, c, 0) = 0
    BY <1>3 DEF Rank
  <2>2. CASE At(a, e, m) /\ At(b, f, n)
    BY <2>2, <1>4 DEF OrderInv
  <2>3. CASE a = k /\ e = c /\ m = 0
    <3>1. OnPath(t, f)
      <4>1. CASE At(b, f, n)
        BY <4>1, <2>3, <1>2, AtOnPath
      <4>2. CASE b = k /\ f = c /\ n = 0
        BY <4>2, <1>3
      <4>3. QED
        BY <4>1, <4>2, <1>9
    <3>2. Rank(t, f, n) \in Nat
      BY <3>1, <1>3, RankFacts
    <3>3. QED
      BY <3>2, <2>1, <2>3, <1>2
  <2>4. CASE At(a, e, m) /\ b = k /\ f = c /\ n = 0
    BY <2>4, <1>2, <1>6
  <2>5. QED
    BY <1>9, <2>2, <2>3, <2>4
<1>11. CoverInv'
  <2>1. \A s \in Stream : sent'[s] = IF s = t THEN sent[t] + 1 ELSE sent[s]
    BY <1>1 DEF TypeOK
  <2>2. \A s \in Stream : Len(recv[s]) \in Nat /\ sent[s] \in Nat
    BY DEF TypeOK
  <2>3. ASSUME NEW l \in Chunk
        PROVE  InNetwork(l)' <=> (Len(recv'[l.str]) < l.seq /\ l.seq <= sent'[l.str])
    <3>1. l.str \in Stream /\ l.seq \in Nat
      BY DEF Chunk
    <3>2. InNetwork(l)' <=> InNetwork(l) \/ l = k
      <4>1. l # k => (InNetwork(l)' <=> InNetwork(l))
        BY <1>9 DEF InNetwork
      <4>2. l = k => InNetwork(l)'
        BY <1>2, <1>9 DEF InNetwork
      <4>3. QED
        BY <4>1, <4>2
    <3>3. InNetwork(l) <=> (Len(recv[l.str]) < l.seq /\ l.seq <= sent[l.str])
      BY <1>4 DEF CoverInv
    <3>4. CASE l.str # t
      BY <3>1, <3>2, <3>3, <3>4, <2>1, <1>1, <1>2
    <3>5. CASE l.str = t
      <4>1. l = k <=> l.seq = sent[t] + 1
        BY <3>5, <1>2 DEF Chunk
      <4>2. Len(recv[t]) <= sent[t]
        BY <1>4 DEF CoverInv
      <4>3. l.str = t /\ sent'[t] = sent[t] + 1 /\ recv'[t] = recv[t]
        BY <3>5, <2>1, <1>1
      <4>4. Len(recv[t]) \in Nat /\ sent[t] \in Nat /\ l.seq \in Nat
        BY <2>2, <3>1
      <4>5. (Len(recv[t]) < l.seq /\ l.seq <= sent[t] + 1)
              <=> (Len(recv[t]) < l.seq /\ l.seq <= sent[t]) \/ l.seq = sent[t] + 1
        BY <4>2, <4>4
      <4>6. QED
        BY <3>2, <3>3, <4>1, <4>3, <4>5
    <3>6. QED
      BY <3>4, <3>5
  <2>4. ASSUME NEW s \in Stream
        PROVE  /\ Len(recv'[s]) <= sent'[s] /\ sent'[s] <= NChunks[s]
               /\ \A i \in 1..Len(recv'[s]) : recv'[s][i] = i
    <3>1. /\ Len(recv[s]) <= sent[s] /\ sent[s] <= NChunks[s]
          /\ \A i \in 1..Len(recv[s]) : recv[s][i] = i
      BY <1>4 DEF CoverInv
    <3>2. sent'[s] = sent[s] \/ (s = t /\ sent'[s] = sent[s] + 1)
      BY <2>1
    <3>3. NChunks[s] \in Nat
      BY BoundAssumption
    <3>4. QED
      BY <3>1, <3>2, <3>3, <2>2, <1>1
  <2>5. QED
    BY <2>3, <2>4 DEF CoverInv
<1>12. SortedInv'
  BY <1>1, <1>4, <1>5, <1>8 DEF SortedInv
<1>13. HeaderInv'
  <2>1. \A e \in Link : queue'[e] = queue[e]
    BY <1>2, <1>5, LinkFacts
  <2>2. QED
    BY <2>1, <1>1, <1>4 DEF HeaderInv, BeingRead
<1>14. QED
  BY <1>10, <1>11, <1>12, <1>13 DEF FlowInv

(***************************************************************************)
(* A control message moves no chunk and is never out of order.             *)
(***************************************************************************)
LEMMA SendMsgFlow ==
  ASSUME IInv, FlowInv, NEW c \in Link, channel_send_msg(c)
  PROVE  FlowInv'
<1>. USE DEF IInv
<1>1. /\ queue' = [queue EXCEPT ![c] = Append(@, Ctrl)]
      /\ UNCHANGED <<head_off, wire, state, curr, waitq, sent, recv>>
  BY DEF channel_send_msg
<1>2. c \in Chan /\ Ctrl \in Msg /\ Ctrl \notin Chunk /\ queue[c] \in Seq(Msg)
  BY LinkFacts, BoundAssumption DEF TypeOK, Msg
<1>3. SortedInv /\ OrderInv /\ CoverInv /\ HeaderInv
  BY DEF FlowInv
<1>4. /\ queue'[c] = Append(queue[c], Ctrl)
      /\ \A e \in Chan : e # c => queue'[e] = queue[e]
  BY <1>1, <1>2 DEF TypeOK
<1>5. head_off[c] = 1 => Head(queue'[c]) = Head(queue[c])
  <2>. SUFFICES ASSUME head_off[c] = 1
                PROVE  Head(queue'[c]) = Head(queue[c])
    OBVIOUS
  <2>1. queue[c] # <<>>
    BY DEF Framed
  <2>2. PICK s : s = queue[c] /\ s \in Seq(Msg) /\ s # <<>>
    BY <1>2, <2>1
  <2>3. Append(s, Ctrl)[1] = s[1] /\ Head(s) = s[1] /\ Head(Append(s, Ctrl)) = Append(s, Ctrl)[1]
    BY <1>2, <2>2, AppendFacts, TailFacts
  <2>4. QED
    BY <1>4, <2>2, <2>3
<1>6. \A e \in Link : head_off[e] = 1 => Head(queue'[e]) = Head(queue[e])
  BY <1>4, <1>5, LinkFacts
<1>7. \A l \in Chunk : \A e \in Chan : Queued(l, e)' <=> Queued(l, e)
  <2>. SUFFICES ASSUME NEW l \in Chunk, NEW e \in Chan
                PROVE  Queued(l, e)' <=> Queued(l, e)
    OBVIOUS
  <2>1. In(l, queue[e])' <=> In(l, queue[e])
    <3>1. CASE e = c
      <4>1. In(l, Append(queue[c], Ctrl)) <=> In(l, queue[c]) \/ l = Ctrl
        BY <1>2, InAppend
      <4>2. l # Ctrl
        BY <1>2
      <4>3. QED
        BY <3>1, <4>1, <4>2, <1>4 DEF In
    <3>2. CASE e # c
      BY <3>2, <1>4 DEF In
    <3>3. QED
      BY <3>1, <3>2
  <2>2. QED
    BY <2>1, <1>1, <1>6 DEF Queued
<1>8. Stayed
  BY <1>1, <1>7 DEF Stayed, At, In, Held
<1>9. OrderInv' /\ CoverInv'
  BY <1>1, <1>3, <1>8, StayedOrder
<1>10. SortedInv'
  <2>1. Sorted(queue'[c])
    <3>1. Sorted(queue[c])
      BY <1>2, <1>3 DEF SortedInv
    <3>2. QED
      BY <1>2, <1>4, <3>1, SortedAppend
  <2>2. QED
    BY <1>1, <1>3, <1>4, <2>1 DEF SortedInv
<1>11. HeaderInv'
  BY <1>1, <1>3, <1>6 DEF HeaderInv, BeingRead
<1>12. QED
  BY <1>9, <1>10, <1>11 DEF FlowInv

(***************************************************************************)
(* Reading a header notes the message and moves no chunk.                  *)
(***************************************************************************)
LEMMA ReadHeaderFlow ==
  ASSUME IInv, FlowInv, NEW c \in Link, ReadHeader(c)
  PROVE  FlowInv'
<1>. USE DEF IInv
<1>1. /\ state[c] = "ACTIVE"
      /\ curr' = [curr EXCEPT ![c] = Head(wire[Rev(c)])]
      /\ UNCHANGED <<queue, head_off, wire, state, waitq, sent, recv>>
  BY DEF ReadHeader, CanReadHeader
<1>2. c \in Chan
  BY LinkFacts
<1>3. SortedInv /\ OrderInv /\ CoverInv /\ HeaderInv
  BY DEF FlowInv
<1>4. \A e \in Chan : curr'[e] = IF e = c THEN Head(wire[Rev(c)]) ELSE curr[e]
  BY <1>1 DEF TypeOK
<1>5. \A l \in Chunk : \A e \in Chan : Held(l, e)' <=> Held(l, e)
  BY <1>1, <1>4 DEF Held
<1>6. Stayed
  BY <1>1, <1>5, RevFacts DEF Stayed, At, Queued, In
<1>7. OrderInv' /\ CoverInv'
  BY <1>1, <1>3, <1>6, StayedOrder
<1>8. SortedInv'
  BY <1>1, <1>3 DEF SortedInv
<1>9. HeaderInv'
  BY <1>1, <1>3, <1>4, LinkFacts DEF HeaderInv, BeingRead
<1>10. QED
  BY <1>7, <1>8, <1>9 DEF FlowInv

-----------------------------------------------------------------------------
(***************************************************************************)
(* Reading a body takes the first message, which is the one being read,    *)
(* from the wire; a header sent stays the last thing on it.                *)
(***************************************************************************)
LEMMA ReadBodyHead ==
  ASSUME IInv, FlowInv, NEW c \in Link, ReadBody(c)
  PROVE  /\ wire[Rev(c)] # <<>> /\ wire[Rev(c)] \in Seq(Msg)
         /\ curr[c] = Head(wire[Rev(c)])
         /\ In(curr[c], wire[Rev(c)])
         /\ wire'[Rev(c)] = Tail(wire[Rev(c)])
         /\ \A l \in Chunk : \A e \in Link :
              In(l, wire[e])' <=> In(l, wire[e]) /\ ~ (l = curr[c] /\ e = Rev(c))
         /\ \A l \in Chunk : In(l, wire[Rev(c)]) /\ curr[c] \in Chunk /\ l.str = curr[c].str
                               /\ l # curr[c] => curr[c].seq < l.seq
         /\ \A e \in Link : Sorted(wire'[e])
         /\ \A e \in Link : head_off[e] = 1 =>
              wire'[e] # <<>> /\ wire'[e][Len(wire'[e])] = wire[e][Len(wire[e])]
         /\ \A e \in Link : Rev(e) # Rev(c) /\ BeingRead(e) =>
              Head(wire'[Rev(e)]) = Head(wire[Rev(e)])
<1>. USE DEF IInv
<1>1. /\ CanReadBody(c)
      /\ wire' = [wire EXCEPT ![Rev(c)] = Tail(@)]
  BY DEF ReadBody
<1>2. PICK w \in Link : w = Rev(c)
  BY LinkFacts
<1>3. PICK s : s = wire[w]
  OBVIOUS
<1>4. /\ s \in Seq(Msg) /\ s # <<>> /\ (Len(s) = 1 => head_off[w] = 0)
      /\ BeingRead(c)
  BY <1>1, <1>2, <1>3 DEF CanReadBody, TypeOK, BeingRead
<1>5. wire'[w] = Tail(s) /\ \A e \in Link : e # w => wire'[e] = wire[e]
  BY <1>1, <1>2, <1>3 DEF TypeOK
<1>6. curr[c] = Head(s)
  BY <1>2, <1>3, <1>4 DEF FlowInv, HeaderInv
<1>7. /\ Head(s) = s[1] /\ Len(s) \in Nat \ {0} /\ Len(Tail(s)) = Len(s) - 1
      /\ \A i \in 1..Len(s) - 1 : Tail(s)[i] = s[i + 1]
      /\ Tail(s) \in Seq(Msg)
  BY <1>4, TailFacts
<1>8. In(curr[c], s)
  BY <1>6, <1>7 DEF In
<1>9. Sorted(s)
  BY <1>3 DEF FlowInv, SortedInv
<1>10. /\ Sorted(Tail(s))
       /\ \A l \in Chunk : In(l, Tail(s)) <=> In(l, s) /\ l # Head(s)
       /\ \A l \in Chunk : In(l, s) /\ Head(s) \in Chunk /\ l.str = Head(s).str /\ l # Head(s)
            => Head(s).seq < l.seq
  BY <1>4, <1>9, SortedTail
<1>11. ASSUME NEW l \in Chunk, NEW e \in Link
       PROVE  In(l, wire[e])' <=> In(l, wire[e]) /\ ~ (l = curr[c] /\ e = Rev(c))
  <2>1. CASE e = w
    <3>1. In(l, wire[e])' <=> In(l, Tail(s))
      BY <2>1, <1>5 DEF In
    <3>2. In(l, wire[e]) <=> In(l, s)
      BY <2>1, <1>3
    <3>3. QED
      BY <2>1, <3>1, <3>2, <1>2, <1>6, <1>10
  <2>2. CASE e # w
    BY <2>2, <1>2, <1>5 DEF In
  <2>3. QED
    BY <2>1, <2>2
<1>12. ASSUME NEW e \in Link
       PROVE  Sorted(wire'[e])
  <2>1. Sorted(wire[e])
    BY DEF FlowInv, SortedInv
  <2>2. QED
    BY <2>1, <1>5, <1>10
<1>13. ASSUME NEW e \in Link, head_off[e] = 1
       PROVE  wire'[e] # <<>> /\ wire'[e][Len(wire'[e])] = wire[e][Len(wire[e])]
  <2>1. CASE e = w
    <3>1. Len(s) # 1
      BY <2>1, <1>4, <1>13
    <3>2. Len(s) - 1 \in 1..Len(s) - 1 /\ (Len(s) - 1) + 1 = Len(s)
      BY <3>1, <1>7
    <3>3. Tail(s)[Len(s) - 1] = s[Len(s)]
      BY <3>2, <1>7
    <3>4. Tail(s) # <<>>
      <4>1. PICK r \in Seq(Msg) : r = Tail(s)
        BY <1>7
      <4>2. Len(r) # 0
        BY <3>2, <4>1, <1>7
      <4>3. r # <<>>
        BY <4>2
      <4>4. QED
        BY <4>1, <4>3
    <3>5. wire'[e] = Tail(s) /\ wire[e] = s /\ Len(wire'[e]) = Len(s) - 1
      BY <2>1, <1>3, <1>5, <1>7
    <3>6. QED
      BY <3>3, <3>4, <3>5
  <2>2. CASE e # w
    <3>1. wire'[e] = wire[e] /\ wire[e] # <<>>
      BY <2>2, <1>5, <1>13 DEF FlowInv, HeaderInv
    <3>2. QED
      BY <3>1
  <2>3. QED
    BY <2>1, <2>2
<1>14. \A e \in Link : Rev(e) # Rev(c) => wire'[Rev(e)] = wire[Rev(e)]
  BY <1>2, <1>5, LinkFacts
<1>15. QED
  <2>1. /\ wire[Rev(c)] # <<>> /\ wire[Rev(c)] \in Seq(Msg)
        /\ curr[c] = Head(wire[Rev(c)])
        /\ In(curr[c], wire[Rev(c)])
        /\ wire'[Rev(c)] = Tail(wire[Rev(c)])
        /\ \A l \in Chunk : In(l, wire[Rev(c)]) /\ curr[c] \in Chunk /\ l.str = curr[c].str
                              /\ l # curr[c] => curr[c].seq < l.seq
    BY <1>2, <1>3, <1>4, <1>5, <1>6, <1>8, <1>10
  <2>2. QED
    BY <2>1, <1>11, <1>12, <1>13, <1>14

(***************************************************************************)
(* The first outcome: a control message leaves every chunk where it is.    *)
(***************************************************************************)
LEMMA ReadBodyCtrlFlow ==
  ASSUME IInv, FlowInv, NEW c \in Link, ReadBody(c), curr[c] = Ctrl
  PROVE  FlowInv'
<1>. USE DEF IInv
<1>1. /\ curr' = [curr EXCEPT ![c] = NULL]
      /\ UNCHANGED <<queue, state, waitq, recv, head_off, sent>>
      /\ state[c] = "ACTIVE"
  BY DEF ReadBody, CanReadBody
<1>2. c \in Chan /\ curr[c] \notin Chunk
  BY LinkFacts, BoundAssumption
<1>3. SortedInv /\ OrderInv /\ CoverInv /\ HeaderInv
  BY DEF FlowInv
<1>4. \A e \in Chan : curr'[e] = IF e = c THEN NULL ELSE curr[e]
  BY <1>1, <1>2 DEF TypeOK
<1>5. \A l \in Chunk : \A e \in Chan : Held(l, e)' <=> Held(l, e)
  BY <1>1, <1>4 DEF Held
<1>6. \A l \in Chunk : \A e \in Link : In(l, wire[e])' <=> In(l, wire[e])
  BY <1>2, ReadBodyHead
<1>7. \A l \in Chunk : \A e \in Chan : Queued(l, e)' <=> Queued(l, e)
  BY <1>1 DEF Queued, In
<1>8. Stayed
  <2>. SUFFICES ASSUME NEW l \in Chunk, NEW e \in Chan, NEW m \in 0..2
                PROVE  At(l, e, m)' <=> At(l, e, m)
    BY DEF Stayed
  <2>1. PICK f \in Chan : f = Rev(e)
    BY RevFacts
  <2>2. Held(l, f)' <=> Held(l, f)
    BY <1>5
  <2>3. (At(l, e, m)' <=> \/ m = 0 /\ Queued(l, e)'
                          \/ m = 1 /\ e \in Link /\ In(l, wire[e])'
                          \/ m = 2 /\ Held(l, f)')
    BY <2>1 DEF At
  <2>4. (At(l, e, m) <=> \/ m = 0 /\ Queued(l, e)
                         \/ m = 1 /\ e \in Link /\ In(l, wire[e])
                         \/ m = 2 /\ Held(l, f))
    BY <2>1 DEF At
  <2>5. QED
    BY <2>2, <2>3, <2>4, <1>6, <1>7
<1>9. OrderInv' /\ CoverInv'
  BY <1>1, <1>3, <1>8, StayedOrder
<1>10. SortedInv'
  BY <1>1, <1>3, ReadBodyHead DEF SortedInv
<1>11. HeaderInv'
  <2>1. \A e \in Link : head_off'[e] = 1 =>
          wire'[e] # <<>> /\ wire'[e][Len(wire'[e])] = Head(queue'[e])
    BY <1>1, <1>3, ReadBodyHead DEF HeaderInv
  <2>2. ASSUME NEW e \in Link, BeingRead(e)'
        PROVE  curr'[e] = Head(wire'[Rev(e)])
    <3>1. e # c /\ BeingRead(e) /\ curr'[e] = curr[e]
      BY <2>2, <1>1, <1>2, <1>4, LinkFacts DEF BeingRead
    <3>2. Rev(e) # Rev(c)
      BY <3>1, LinkFacts
    <3>3. Head(wire'[Rev(e)]) = Head(wire[Rev(e)])
      BY <3>1, <3>2, ReadBodyHead
    <3>4. QED
      BY <3>1, <3>3, <1>3 DEF HeaderInv
  <2>3. QED
    BY <2>1, <2>2 DEF HeaderInv
<1>12. QED
  BY <1>9, <1>10, <1>11 DEF FlowInv

(***************************************************************************)
(* The second outcome: a chunk that reaches its destination is the one     *)
(* after those delivered before it, so Streams!Deliver.                    *)
(***************************************************************************)
LEMMA DeliveredNext ==
  ASSUME IInv, FlowInv, NEW c \in Link, ReadBody(c), curr[c] # Ctrl, Dst[curr[c].str] = c[1]
  PROVE  /\ curr[c] \in Chunk
         /\ curr[c].seq = Len(recv[curr[c].str]) + 1
         /\ curr[c].seq <= sent[curr[c].str]
         /\ At(curr[c], Rev(c), 1)
         /\ \A l \in Chunk : l.str = curr[c].str =>
              \A e \in Chan, m \in 0..2 : At(l, e, m) /\ l.seq <= curr[c].seq =>
                l = curr[c] /\ e = Rev(c) /\ m = 1
<1>. USE DEF IInv
<1>1. PICK k : k = curr[c]
  OBVIOUS
<1>2. PICK w \in Link : w = Rev(c)
  BY LinkFacts
<1>3. k \in Chunk /\ OnLink(k, w) /\ state[c] = "ACTIVE"
  BY <1>1, <1>2, ReadBodyWire DEF Msg
<1>4. /\ w \in Chan /\ w[2] = c[1] /\ Rev(w) = c
  BY <1>2, LinkFacts DEF Rev
<1>5. k.str \in Stream /\ k.seq \in Nat /\ OnPath(k.str, w) /\ w[2] = Dst[k.str]
  BY <1>1, <1>3, <1>4, OnLinkPath DEF Chunk
<1>6. In(k, wire[w])
  BY <1>1, <1>2, ReadBodyHead
<1>7. At(k, w, 1)
  BY <1>6 DEF At
<1>8. ASSUME NEW l \in Chunk, l.str = k.str, NEW e \in Chan, NEW m \in 0..2, At(l, e, m),
             l.seq <= k.seq
      PROVE  l = k /\ e = w /\ m = 1
  <2>1. OnPath(k.str, e)
    BY <1>8, AtOnPath
  <2>2. /\ Rank(k.str, e, m) \in Nat /\ Rank(k.str, w, 1) \in Nat
        /\ Rank(k.str, e, m) = Rank(k.str, w, 1) => e = w /\ m = 1
    BY <2>1, <1>5, RankFacts
  <2>3. l.seq \in Nat /\ ~ (k.seq < l.seq)
    BY <1>5, <1>8 DEF Chunk
  <2>4. ~ (Rank(k.str, e, m) < Rank(k.str, w, 1))
    <3>. SUFFICES ASSUME Rank(k.str, e, m) < Rank(k.str, w, 1)
                  PROVE  FALSE
      OBVIOUS
    <3>1. k.seq < l.seq
      BY <1>3, <1>4, <1>7, <1>8 DEF FlowInv, OrderInv
    <3>2. QED
      BY <3>1, <2>3
  <2>5. ~ (Rank(k.str, w, 1) < Rank(k.str, e, m))
    <3>. SUFFICES ASSUME Rank(k.str, w, 1) < Rank(k.str, e, m)
                  PROVE  FALSE
      OBVIOUS
    <3>1. HopOf(k.str, e) <= HopOf(k.str, w)
      BY <2>1, <1>5, HopLast
    <3>2. HopOf(k.str, w) <= HopOf(k.str, e) /\ (w = e => 1 < m)
      BY <2>1, <1>5, RankFacts
    <3>3. e = w
      BY <3>1, <3>2, <2>1, <1>5, OnPathFacts
    <3>4. m = 2
      BY <3>2, <3>3
    <3>5. Held(l, c)
      BY <3>3, <3>4, <1>4, <1>8 DEF At
    <3>6. QED
      BY <3>5, <1>3 DEF Held
  <2>6. e = w /\ m = 1
    BY <2>2, <2>4, <2>5
  <2>7. In(l, wire[w])
    BY <2>6, <1>8 DEF At
  <2>8. l # k => k.seq < l.seq
    BY <2>7, <1>1, <1>2, <1>3, <1>8, ReadBodyHead
  <2>9. QED
    BY <2>3, <2>6, <2>8
<1>9. Len(recv[k.str]) < k.seq /\ k.seq <= sent[k.str]
  BY <1>3, <1>4, <1>7 DEF FlowInv, CoverInv, InNetwork
<1>10. k.seq = Len(recv[k.str]) + 1
  <2>. SUFFICES ASSUME k.seq # Len(recv[k.str]) + 1
                PROVE  FALSE
    OBVIOUS
  <2>. DEFINE l == [str |-> k.str, seq |-> Len(recv[k.str]) + 1]
  <2>1. Len(recv[k.str]) \in Nat /\ sent[k.str] \in Nat
    BY <1>5 DEF TypeOK
  <2>2. l \in Chunk /\ l.str = k.str /\ l.seq = Len(recv[k.str]) + 1
    BY <2>1, <1>5 DEF Chunk
  <2>. HIDE DEF l
  <2>3. Len(recv[k.str]) < l.seq /\ l.seq <= sent[k.str] /\ l.seq < k.seq
    BY <2>1, <2>2, <1>5, <1>9
  <2>4. InNetwork(l)
    BY <2>2, <2>3 DEF FlowInv, CoverInv
  <2>5. PICK e \in Chan, m \in 0..2 : At(l, e, m)
    BY <2>4 DEF InNetwork
  <2>6. l = k
    BY <2>1, <2>2, <2>3, <2>5, <1>5, <1>8
  <2>7. QED
    BY <2>2, <2>6
<1>11. \A l \in Chunk : l.str = k.str =>
         \A e \in Chan, m \in 0..2 : At(l, e, m) /\ l.seq <= k.seq => l = k /\ e = w /\ m = 1
  BY <1>8
<1>12. QED
  BY <1>1, <1>2, <1>3, <1>7, <1>9, <1>10, <1>11

(***************************************************************************)
(* The second outcome: the chunk leaves the wire of its last hop for its   *)
(* destination.                                                            *)
(***************************************************************************)
LEMMA ReadBodyDeliverFlow ==
  ASSUME IInv, FlowInv, NEW c \in Link, ReadBody(c), curr[c] # Ctrl, Dst[curr[c].str] = c[1]
  PROVE  FlowInv'
<1>. USE DEF IInv
<1>1. PICK k : k = curr[c]
  OBVIOUS
<1>2. PICK w \in Link : w = Rev(c) /\ w \in Chan /\ Rev(w) = c
  BY LinkFacts
<1>3. /\ curr' = [curr EXCEPT ![c] = NULL]
      /\ recv' = [recv EXCEPT ![k.str] = Append(@, k.seq)]
      /\ UNCHANGED <<queue, state, waitq, head_off, sent>>
      /\ state[c] = "ACTIVE"
  BY <1>1 DEF ReadBody, CanReadBody
<1>4. c \in Chan
  BY LinkFacts
<1>5. SortedInv /\ OrderInv /\ CoverInv /\ HeaderInv
  BY DEF FlowInv
<1>6. /\ k \in Chunk /\ k.str \in Stream /\ k.seq \in Nat
      /\ k.seq = Len(recv[k.str]) + 1 /\ k.seq <= sent[k.str]
      /\ At(k, w, 1)
      /\ \A l \in Chunk : l.str = k.str =>
           \A e \in Chan, m \in 0..2 : At(l, e, m) /\ l.seq <= k.seq => l = k /\ e = w /\ m = 1
  BY <1>1, <1>2, DeliveredNext DEF Chunk
<1>7. \A e \in Chan : curr'[e] = IF e = c THEN NULL ELSE curr[e]
  BY <1>3, <1>4 DEF TypeOK
<1>8. \A l \in Chunk : \A e \in Chan : Held(l, e)' <=> Held(l, e)
  BY <1>3, <1>7 DEF Held
<1>9. \A l \in Chunk : \A e \in Link : In(l, wire[e])' <=> In(l, wire[e]) /\ ~ (l = k /\ e = w)
  BY <1>1, <1>2, ReadBodyHead
<1>10. \A l \in Chunk : \A e \in Chan : Queued(l, e)' <=> Queued(l, e)
  BY <1>3 DEF Queued, In
<1>11. \A l \in Chunk : \A e \in Chan : \A m \in 0..2 :
         At(l, e, m)' <=> At(l, e, m) /\ ~ (l = k /\ e = w /\ m = 1)
  <2>. SUFFICES ASSUME NEW l \in Chunk, NEW e \in Chan, NEW m \in 0..2
                PROVE  At(l, e, m)' <=> At(l, e, m) /\ ~ (l = k /\ e = w /\ m = 1)
    OBVIOUS
  <2>1. PICK f \in Chan : f = Rev(e)
    BY RevFacts
  <2>2. Held(l, f)' <=> Held(l, f)
    BY <1>8
  <2>3. At(l, e, m)' <=> \/ m = 0 /\ Queued(l, e)'
                         \/ m = 1 /\ e \in Link /\ In(l, wire[e])'
                         \/ m = 2 /\ Held(l, f)'
    BY <2>1 DEF At
  <2>4. At(l, e, m) <=> \/ m = 0 /\ Queued(l, e)
                        \/ m = 1 /\ e \in Link /\ In(l, wire[e])
                        \/ m = 2 /\ Held(l, f)
    BY <2>1 DEF At
  <2>5. QED
    BY <2>2, <2>3, <2>4, <1>9, <1>10
<1>12. OrderInv'
  BY <1>5, <1>11 DEF OrderInv
<1>13. /\ \A s \in Stream : s # k.str => recv'[s] = recv[s]
       /\ recv'[k.str] = Append(recv[k.str], k.seq)
       /\ \A s \in Stream : recv[s] \in Seq(Nat) /\ Len(recv[s]) \in Nat /\ sent[s] \in Nat
  BY <1>3, <1>6 DEF TypeOK
<1>14. /\ Len(recv'[k.str]) = Len(recv[k.str]) + 1
       /\ \A i \in 1..Len(recv[k.str]) : recv'[k.str][i] = recv[k.str][i]
       /\ recv'[k.str][Len(recv[k.str]) + 1] = k.seq
  BY <1>6, <1>13, AppendFacts
<1>15. CoverInv'
  <2>1. ASSUME NEW l \in Chunk
        PROVE  InNetwork(l)' <=> (Len(recv'[l.str]) < l.seq /\ l.seq <= sent'[l.str])
    <3>1. l.str \in Stream /\ l.seq \in Nat
      BY DEF Chunk
    <3>2. InNetwork(l) <=> (Len(recv[l.str]) < l.seq /\ l.seq <= sent[l.str])
      BY <1>5 DEF CoverInv
    <3>3. InNetwork(l)' <=> InNetwork(l) /\ l # k
      <4>1. l # k => (InNetwork(l)' <=> InNetwork(l))
        BY <1>11 DEF InNetwork
      <4>2. ASSUME l = k, InNetwork(l)'
            PROVE  FALSE
        <5>1. PICK e \in Chan, m \in 0..2 : At(l, e, m)'
          BY <4>2 DEF InNetwork
        <5>2. At(l, e, m) /\ ~ (e = w /\ m = 1)
          BY <5>1, <4>2, <1>11
        <5>3. l.seq <= k.seq /\ l.str = k.str
          BY <4>2, <1>6
        <5>4. QED
          BY <5>2, <5>3, <1>6
      <4>3. QED
        BY <4>1, <4>2
    <3>4. CASE l.str # k.str
      BY <3>1, <3>2, <3>3, <3>4, <1>3, <1>13
    <3>5. CASE l.str = k.str
      <4>1. l = k <=> l.seq = k.seq
        BY <3>5, <1>6 DEF Chunk
      <4>2. sent'[l.str] = sent[k.str] /\ Len(recv'[l.str]) = Len(recv[k.str]) + 1
        BY <3>5, <1>3, <1>14
      <4>3. Len(recv[k.str]) \in Nat /\ sent[k.str] \in Nat
        BY <1>6, <1>13
      <4>4. (Len(recv[k.str]) + 1 < l.seq) <=> (Len(recv[k.str]) < l.seq /\ l.seq # k.seq)
        BY <4>3, <3>1, <1>6
      <4>5. QED
        BY <3>2, <3>3, <3>5, <4>1, <4>2, <4>4
    <3>6. QED
      BY <3>4, <3>5
  <2>2. ASSUME NEW s \in Stream
        PROVE  /\ Len(recv'[s]) <= sent'[s] /\ sent'[s] <= NChunks[s]
               /\ \A i \in 1..Len(recv'[s]) : recv'[s][i] = i
    <3>1. /\ Len(recv[s]) <= sent[s] /\ sent[s] <= NChunks[s]
          /\ \A i \in 1..Len(recv[s]) : recv[s][i] = i
      BY <1>5 DEF CoverInv
    <3>2. CASE s # k.str
      BY <3>1, <3>2, <1>3, <1>13
    <3>3. CASE s = k.str
      <4>1. Len(recv'[s]) <= sent'[s] /\ sent'[s] <= NChunks[s]
        BY <3>1, <3>3, <1>3, <1>6, <1>14
      <4>2. ASSUME NEW i \in 1..Len(recv'[s])
            PROVE  recv'[s][i] = i
        <5>1. Len(recv[s]) \in Nat /\ Len(recv'[s]) = Len(recv[s]) + 1
          BY <3>3, <1>13, <1>14
        <5>2. CASE i = Len(recv[s]) + 1
          BY <5>2, <3>3, <1>6, <1>14
        <5>3. CASE i # Len(recv[s]) + 1
          <6>1. i \in 1..Len(recv[s])
            BY <5>1, <5>3
          <6>2. QED
            BY <6>1, <3>1, <3>3, <1>14
        <5>4. QED
          BY <5>2, <5>3
      <4>3. QED
        BY <4>1, <4>2
    <3>4. QED
      BY <3>2, <3>3
  <2>3. QED
    BY <2>1, <2>2 DEF CoverInv
<1>16. SortedInv'
  BY <1>3, <1>5, ReadBodyHead DEF SortedInv
<1>17. HeaderInv'
  <2>1. \A e \in Link : head_off'[e] = 1 =>
          wire'[e] # <<>> /\ wire'[e][Len(wire'[e])] = Head(queue'[e])
    BY <1>3, <1>5, ReadBodyHead DEF HeaderInv
  <2>2. ASSUME NEW e \in Link, BeingRead(e)'
        PROVE  curr'[e] = Head(wire'[Rev(e)])
    <3>1. e # c /\ BeingRead(e) /\ curr'[e] = curr[e]
      BY <2>2, <1>3, <1>7, LinkFacts DEF BeingRead
    <3>2. Rev(e) # Rev(c)
      BY <3>1, LinkFacts
    <3>3. Head(wire'[Rev(e)]) = Head(wire[Rev(e)])
      BY <3>1, <3>2, ReadBodyHead
    <3>4. QED
      BY <3>1, <3>3, <1>5 DEF HeaderInv
  <2>3. QED
    BY <2>1, <2>2 DEF HeaderInv
<1>18. QED
  BY <1>12, <1>15, <1>16, <1>17 DEF FlowInv

(***************************************************************************)
(* The third outcome: the chunk is passed on.                              *)
(***************************************************************************)
LEMMA ForwardCall ==
  ASSUME IInv, NEW c \in Link, ReadBody(c), curr[c] # Ctrl, Dst[curr[c].str] # c[1]
  PROVE  \E k, next :
           /\ k = curr[c] /\ k \in Chunk
           /\ PipelineCall(c, k, next, queue)
           /\ OnPath(k.str, Rev(c)) /\ OnPath(k.str, next) /\ next \in Link
           /\ HopOf(k.str, next) = HopOf(k.str, Rev(c)) + 1
           /\ UNCHANGED <<head_off, sent, recv>>
<1>. DEFINE k == curr[c]
            next == ioman_get_nexthop_channel(c[1], k.str)
<1>. USE DEF IInv
<1>1. /\ channel_pipeline_chunk(c, k, next, queue)
      /\ UNCHANGED <<head_off, sent, recv>>
  BY Zenon DEF ReadBody
<1>2. c \in Chan /\ Rev(c) \in Link /\ Rev(c)[2] = c[1]
  BY LinkFacts DEF Rev
<1>3. k \in Chunk /\ OnLink(k, Rev(c)) /\ state[c] = "ACTIVE"
  BY ReadBodyWire DEF Msg
<1>4. next \in Link /\ OnLink(k, next)
  BY <1>2, <1>3, NextHopFromLink
<1>5. PipelineCall(c, k, next, queue)
  BY <1>1, <1>2, <1>3, <1>4, LinkFacts DEF PipelineCall, TypeOK
<1>6. k.str \in Stream /\ OnPath(k.str, Rev(c)) /\ Dst[k.str] # Rev(c)[2]
  BY <1>2, <1>3, OnLinkPath DEF Chunk
<1>7. OnPath(k.str, next) /\ HopOf(k.str, next) = HopOf(k.str, Rev(c)) + 1
  BY <1>2, <1>6, HopNext
<1>. HIDE DEF next, k
<1>8. QED
  BY <1>1, <1>3, <1>4, <1>5, <1>6, <1>7 DEF k

(***************************************************************************)
(* A chunk that is passed on leaves the wire for the next hop, or for the  *)
(* hands of the channel that read it.                                      *)
(***************************************************************************)
LEMMA ReadBodyForwardFlow ==
  ASSUME IInv, FlowInv, NEW c \in Link, ReadBody(c), curr[c] # Ctrl, Dst[curr[c].str] # c[1]
  PROVE  FlowInv'
<1>. USE DEF IInv
<1>1. PICK k, next :
        /\ k = curr[c] /\ k \in Chunk
        /\ PipelineCall(c, k, next, queue)
        /\ OnPath(k.str, Rev(c)) /\ OnPath(k.str, next) /\ next \in Link
        /\ HopOf(k.str, next) = HopOf(k.str, Rev(c)) + 1
        /\ UNCHANGED <<head_off, sent, recv>>
  BY ForwardCall, Zenon
<1>2. PICK w \in Link : w = Rev(c) /\ w \in Chan /\ Rev(w) = c
  BY LinkFacts
<1>3. c \in Chan
  BY LinkFacts
<1>4. SortedInv /\ OrderInv /\ CoverInv /\ HeaderInv
  BY DEF FlowInv
<1>5. In(k, wire[w])
  BY <1>1, <1>2, ReadBodyHead
<1>6. At(k, w, 1)
  BY <1>5 DEF At
<1>7. PICK d \in Chan, j \in 0..2 :
        /\ OnPath(k.str, d)
        /\ \/ d = Rev(c) /\ j = 2
           \/ d = next /\ HopOf(k.str, d) = HopOf(k.str, Rev(c)) + 1 /\ j = 0
        /\ \A l \in Chunk : \A e \in Link :
             Queued(l, e)' <=> Queued(l, e) \/ (l = k /\ e = d /\ j = 0)
        /\ \A e \in Link : Sorted(queue'[e])
        /\ \A e \in Link : head_off[e] = 1 => Head(queue'[e]) = Head(queue[e])
        /\ \A l \in Chunk : \A e \in Chan :
             Held(l, Rev(e))' <=> Held(l, Rev(e)) \/ (l = k /\ e = d /\ j = 2)
        /\ \A e \in Chan : BeingRead(e)' => e # c /\ BeingRead(e) /\ curr'[e] = curr[e]
  <2>1. At(k, Rev(c), 1) /\ 1 \in 0..2 /\ 1 < 2
    BY <1>2, <1>6
  <2>2. UNCHANGED head_off
    BY <1>1
  <2>3. QED
    BY <1>1, <2>1, <2>2, PipelineFlow
<1>8. \A e \in Chan \ Link : queue'[e] = queue[e]
  <2>1. \A e \in Chan : e # next => queue'[e] = queue[e]
    BY <1>1, PipelineEffect
  <2>2. QED
    BY <2>1, <1>1
<1>9. \A l \in Chunk : \A e \in Chan :
        Queued(l, e)' <=> Queued(l, e) \/ (l = k /\ e = d /\ j = 0)
  <2>1. \A l \in Chunk : \A e \in Chan \ Link : Queued(l, e)' <=> Queued(l, e)
    BY <1>8 DEF Queued, In
  <2>2. j = 0 => d \in Link
    BY <1>1, <1>7
  <2>3. QED
    BY <1>7, <2>1, <2>2
<1>10. \A l \in Chunk : \A e \in Link : In(l, wire[e])' <=> In(l, wire[e]) /\ ~ (l = k /\ e = w)
  BY <1>1, <1>2, ReadBodyHead
<1>11. Moved(k, w, 1, d, j)
  <2>. SUFFICES ASSUME NEW l \in Chunk, NEW e \in Chan, NEW m \in 0..2
                PROVE  At(l, e, m)' <=> \/ At(l, e, m) /\ ~ (l = k /\ e = w /\ m = 1)
                                        \/ l = k /\ e = d /\ m = j
    BY DEF Moved
  <2>0. j # 1
    BY <1>7
  <2>1. CASE m = 0
    <3>1. (At(l, e, m)' <=> Queued(l, e)') /\ (At(l, e, m) <=> Queued(l, e))
      BY <2>1 DEF At
    <3>2. QED
      BY <2>1, <3>1, <1>9
  <2>2. CASE m = 1
    <3>1. (At(l, e, m)' <=> e \in Link /\ In(l, wire[e])') /\ (At(l, e, m) <=> e \in Link /\ In(l, wire[e]))
      BY <2>2 DEF At
    <3>2. QED
      BY <2>0, <2>2, <3>1, <1>10
  <2>3. CASE m = 2
    <3>1. (At(l, e, m)' <=> Held(l, Rev(e))') /\ (At(l, e, m) <=> Held(l, Rev(e)))
      BY <2>3 DEF At
    <3>2. Held(l, Rev(e))' <=> Held(l, Rev(e)) \/ (l = k /\ e = d /\ j = 2)
      BY <1>7
    <3>3. QED
      BY <2>3, <3>1, <3>2
  <2>4. QED
    BY <2>1, <2>2, <2>3
<1>12. OrderInv' /\ CoverInv'
  <2>1. \A l \in Chunk : l.str = k.str /\ At(l, w, 1) /\ l # k => k.seq < l.seq
    <3>. SUFFICES ASSUME NEW l \in Chunk, l.str = k.str, At(l, w, 1), l # k
                  PROVE  k.seq < l.seq
      OBVIOUS
    <3>1. In(l, wire[Rev(c)])
      BY <1>2 DEF At
    <3>2. QED
      BY <3>1, <1>1, ReadBodyHead
  <2>2. \A l \in Chunk : \A m \in 0..2 : 1 < m /\ (d = w => m < j) => ~ At(l, w, m)
    <3>1. state[c] = "ACTIVE"
      BY <1>1 DEF PipelineCall
    <3>2. \A l \in Chunk : ~ At(l, w, 2)
      BY <3>1, <1>2 DEF At, Held
    <3>3. \A m \in 0..2 : 1 < m => m = 2
      OBVIOUS
    <3>4. QED
      BY <3>2, <3>3
  <2>3. (d = w /\ 1 < j) \/ (HopOf(k.str, d) = HopOf(k.str, w) + 1 /\ j = 0)
    BY <1>2, <1>7
  <2>4. 1 \in 0..2 /\ UNCHANGED <<sent, recv>>
    BY <1>1
  <2>5. QED
    BY <1>1, <1>2, <1>4, <1>6, <1>7, <1>11, <2>1, <2>2, <2>3, <2>4, MovedOrder
<1>13. SortedInv'
  <2>1. \A e \in Chan : Sorted(queue'[e])
    BY <1>4, <1>7, <1>8 DEF SortedInv
  <2>2. QED
    BY <2>1, ReadBodyHead DEF SortedInv
<1>14. HeaderInv'
  <2>1. ASSUME NEW e \in Link, head_off'[e] = 1
        PROVE  wire'[e] # <<>> /\ wire'[e][Len(wire'[e])] = Head(queue'[e])
    <3>1. head_off[e] = 1
      BY <2>1, <1>1
    <3>2. wire'[e] # <<>> /\ wire'[e][Len(wire'[e])] = wire[e][Len(wire[e])]
      BY <3>1, ReadBodyHead
    <3>3. wire[e][Len(wire[e])] = Head(queue[e]) /\ Head(queue'[e]) = Head(queue[e])
      BY <3>1, <1>4, <1>7 DEF HeaderInv
    <3>4. QED
      BY <3>2, <3>3
  <2>2. ASSUME NEW e \in Link, BeingRead(e)'
        PROVE  curr'[e] = Head(wire'[Rev(e)])
    <3>1. e # c /\ BeingRead(e) /\ curr'[e] = curr[e]
      BY <2>2, <1>7, LinkFacts
    <3>2. Rev(e) # Rev(c)
      BY <3>1, LinkFacts
    <3>3. Head(wire'[Rev(e)]) = Head(wire[Rev(e)])
      BY <3>1, <3>2, ReadBodyHead
    <3>4. QED
      BY <3>1, <3>3, <1>4 DEF HeaderInv
  <2>3. QED
    BY <2>1, <2>2 DEF HeaderInv
<1>15. QED
  BY <1>12, <1>13, <1>14 DEF FlowInv

(***************************************************************************)
(* Reading a body, whatever its outcome.                                   *)
(***************************************************************************)
LEMMA ReadBodyFlow ==
  ASSUME IInv, FlowInv, NEW c \in Link, ReadBody(c)
  PROVE  FlowInv'
BY ReadBodyCtrlFlow, ReadBodyDeliverFlow, ReadBodyForwardFlow

-----------------------------------------------------------------------------
(***************************************************************************)
(* Sending a header puts the message on the wire: it moves from the queue  *)
(* of a channel to the wire of the same channel.                           *)
(***************************************************************************)
LEMMA WriteHeaderFlow ==
  ASSUME IInv, FlowInv, NEW c \in Link, WriteHeader(c)
  PROVE  FlowInv'
<1>. USE DEF IInv
<1>1. /\ queue[c] # <<>> /\ head_off[c] = 0
      /\ head_off' = [head_off EXCEPT ![c] = 1]
      /\ wire' = [wire EXCEPT ![c] = Append(@, Head(queue[c]))]
      /\ UNCHANGED <<queue, state, curr, waitq, sent, recv>>
  BY DEF WriteHeader, CanWrite
<1>2. PICK k, s, w : k = Head(queue[c]) /\ s = queue[c] /\ w = wire[c]
  OBVIOUS
<1>3. c \in Chan /\ s \in Seq(Msg) /\ w \in Seq(Msg) /\ s # <<>>
  BY <1>1, <1>2, LinkFacts DEF TypeOK
<1>4. k \in Msg /\ k = Head(s) /\ In(k, s)
  BY <1>2, <1>3, TailFacts DEF In
<1>5. SortedInv /\ OrderInv /\ CoverInv /\ HeaderInv
  BY DEF FlowInv
<1>6. /\ wire'[c] = Append(w, k)
      /\ \A e \in Link : e # c => wire'[e] = wire[e]
      /\ \A e \in Link : head_off'[e] = IF e = c THEN 1 ELSE head_off[e]
  BY <1>1, <1>2 DEF TypeOK
<1>7. \A l \in Chunk : In(l, wire[c])' <=> In(l, w) \/ l = k
  <2>1. \A l \in Chunk : In(l, Append(w, k)) <=> In(l, w) \/ l = k
    BY <1>3, <1>4, InAppend
  <2>2. QED
    BY <2>1, <1>6 DEF In
<1>8. \A l \in Chunk : Queued(l, c)' <=> Queued(l, c) /\ l # k
  <2>. SUFFICES ASSUME NEW l \in Chunk
                PROVE  Queued(l, c)' <=> Queued(l, c) /\ l # k
    OBVIOUS
  <2>1. Queued(l, c)' <=> In(l, s) /\ l # k
    BY <1>1, <1>2, <1>6 DEF Queued, In
  <2>2. Queued(l, c) <=> In(l, s)
    BY <1>1, <1>2 DEF Queued
  <2>3. QED
    BY <2>1, <2>2
<1>9. \A l \in Chunk : \A e \in Chan : e # c => (Queued(l, e)' <=> Queued(l, e))
  BY <1>1, <1>6 DEF Queued, In
<1>10. \A l \in Chunk : \A e \in Link : e # c => (In(l, wire[e])' <=> In(l, wire[e]))
  BY <1>6 DEF In
<1>11. \A l \in Chunk : \A e \in Chan : \A m \in 0..2 :
         At(l, e, m)' <=> \/ At(l, e, m) /\ ~ (l = k /\ e = c /\ m = 0)
                          \/ l = k /\ e = c /\ m = 1
  <2>. SUFFICES ASSUME NEW l \in Chunk, NEW e \in Chan, NEW m \in 0..2
                PROVE  At(l, e, m)' <=> \/ At(l, e, m) /\ ~ (l = k /\ e = c /\ m = 0)
                                        \/ l = k /\ e = c /\ m = 1
    OBVIOUS
  <2>1. CASE m = 0
    <3>1. (At(l, e, m)' <=> Queued(l, e)') /\ (At(l, e, m) <=> Queued(l, e))
      BY <2>1 DEF At
    <3>2. QED
      BY <2>1, <3>1, <1>8, <1>9
  <2>2. CASE m = 1
    <3>1. (At(l, e, m)' <=> e \in Link /\ In(l, wire[e])') /\ (At(l, e, m) <=> e \in Link /\ In(l, wire[e]))
      BY <2>2 DEF At
    <3>2. In(l, wire[c]) <=> In(l, w)
      BY <1>2
    <3>3. QED
      BY <2>2, <3>1, <3>2, <1>7, <1>10
  <2>3. CASE m = 2
    <3>1. At(l, e, m)' <=> At(l, e, m)
      BY <2>3, <1>1 DEF At, Held
    <3>2. QED
      BY <2>3, <3>1
  <2>4. QED
    BY <2>1, <2>2, <2>3
<1>12. Sorted(s) /\ Sorted(w)
  BY <1>2, <1>3, <1>5 DEF SortedInv
<1>13. ASSUME k \in Chunk, NEW l \in Chunk, l.str = k.str
       PROVE  /\ In(l, w) => l.seq < k.seq
              /\ At(l, c, 0) /\ l # k => k.seq < l.seq
  <2>1. At(k, c, 0)
    BY <1>1, <1>2, <1>4 DEF At, Queued
  <2>2. OnPath(k.str, c) /\ k.str \in Stream
    BY <2>1, <1>3, <1>13, AtOnPath DEF Chunk
  <2>3. Rank(l.str, c, 1) > Rank(k.str, c, 0)
    BY <2>2, <1>13, OnPathFacts DEF Rank
  <2>4. In(l, w) => At(l, c, 1)
    BY <1>2 DEF At
  <2>5. In(l, w) => l.seq < k.seq
    BY <2>1, <2>3, <2>4, <1>3, <1>5, <1>13 DEF OrderInv
  <2>6. At(l, c, 0) /\ l # k => k.seq < l.seq
    <3>1. At(l, c, 0) => In(l, s)
      BY <1>2 DEF At, Queued
    <3>2. QED
      BY <3>1, <1>3, <1>4, <1>12, <1>13, SortedTail
  <2>7. QED
    BY <2>5, <2>6
<1>14. OrderInv' /\ CoverInv'
  <2>1. CASE k \in Chunk
    <3>0. At(k, c, 0)
      BY <1>1, <1>2, <1>4 DEF At, Queued
    <3>1. At(k, c, 0) /\ OnPath(k.str, c)
      <4>1. 0 \in 0..2
        OBVIOUS
      <4>2. QED
        BY <3>0, <4>1, <2>1, <1>3, AtOnPath
    <3>2. Moved(k, c, 0, c, 1)
      BY <1>11 DEF Moved
    <3>3. \A l \in Chunk : l.str = k.str /\ At(l, c, 0) /\ l # k => k.seq < l.seq
      BY <2>1, <1>13
    <3>4. \A m \in 0..2 : ~ (0 < m /\ m < 1)
      OBVIOUS
    <3>5. 0 \in 0..2 /\ 1 \in 0..2 /\ 0 < 1 /\ UNCHANGED <<sent, recv>>
      BY <1>1
    <3>6. QED
      BY <2>1, <3>1, <3>2, <3>3, <3>4, <3>5, <1>3, <1>5, MovedOrder
  <2>2. CASE k \notin Chunk
    <3>1. Stayed
      BY <2>2, <1>11 DEF Stayed
    <3>2. QED
      BY <3>1, <1>1, <1>5, StayedOrder
  <2>3. QED
    BY <2>1, <2>2
<1>15. SortedInv'
  <2>1. k \in Chunk => \A l \in Chunk : l.str = k.str /\ In(l, w) => l.seq < k.seq
    BY <1>13
  <2>2. Sorted(Append(w, k))
    BY <2>1, <1>3, <1>4, <1>12, SortedAppend
  <2>3. QED
    BY <2>2, <1>1, <1>5, <1>6 DEF SortedInv
<1>16. HeaderInv'
  <2>1. /\ Len(Append(w, k)) = Len(w) + 1 /\ Append(w, k) # <<>>
        /\ Append(w, k)[Len(w) + 1] = k
        /\ Append(w, k) \in Seq(Msg)
    BY <1>3, <1>4, AppendFacts
  <2>2. w # <<>> => Head(Append(w, k)) = Head(w)
    <3>. SUFFICES ASSUME w # <<>>
                  PROVE  Head(Append(w, k)) = Head(w)
      OBVIOUS
    <3>1. Append(w, k)[1] = w[1] /\ Head(w) = w[1]
      BY <1>3, <1>4, TailFacts, AppendFacts
    <3>2. Head(Append(w, k)) = Append(w, k)[1]
      BY <2>1, TailFacts
    <3>3. QED
      BY <3>1, <3>2
  <2>3. ASSUME NEW e \in Link, head_off'[e] = 1
        PROVE  wire'[e] # <<>> /\ wire'[e][Len(wire'[e])] = Head(queue'[e])
    <3>1. CASE e = c
      BY <3>1, <2>1, <1>1, <1>2, <1>6
    <3>2. CASE e # c
      BY <3>2, <2>3, <1>1, <1>5, <1>6 DEF HeaderInv
    <3>3. QED
      BY <3>1, <3>2
  <2>4. ASSUME NEW e \in Link, BeingRead(e)'
        PROVE  curr'[e] = Head(wire'[Rev(e)])
    <3>1. BeingRead(e) /\ curr'[e] = curr[e] /\ Rev(e) \in Link
      BY <2>4, <1>1, LinkFacts DEF BeingRead
    <3>2. wire[Rev(e)] # <<>> /\ curr[e] = Head(wire[Rev(e)])
      BY <3>1, <1>5 DEF Framed, HeaderInv
    <3>3. CASE Rev(e) = c
      BY <3>1, <3>2, <3>3, <2>2, <1>2, <1>6
    <3>4. CASE Rev(e) # c
      BY <3>1, <3>2, <3>4, <1>6
    <3>5. QED
      BY <3>3, <3>4
  <2>5. QED
    BY <2>3, <2>4 DEF HeaderInv
<1>17. QED
  BY <1>14, <1>15, <1>16 DEF FlowInv

(***************************************************************************)
(* Both outcomes of WriteBody: the head of the queue, which is on the wire *)
(* by now, leaves the queue.                                               *)
(***************************************************************************)
LEMMA WriteBodyQueue ==
  ASSUME IInv, FlowInv, NEW c \in Link, WriteBody(c)
  PROVE  /\ queue[c] # <<>> /\ queue[c] \in Seq(Msg) /\ Tail(queue[c]) \in Seq(Msg)
         /\ head_off'[c] = 0 /\ \A e \in Link : e # c => head_off'[e] = head_off[e]
         /\ \A l \in Chunk : Queued(l, c) <=> In(l, Tail(queue[c]))
         /\ \A l \in Chunk : In(l, Tail(queue[c])) => In(l, queue[c])
         /\ Sorted(Tail(queue[c]))
         /\ \A e \in Chan : e # c => queue'[e] = queue[e]
         /\ \A l \in Chunk : \A e \in Chan : e # c => (Queued(l, e)' <=> Queued(l, e))
         /\ UNCHANGED <<wire, sent, recv>>
<1>. USE DEF IInv
<1>1. /\ queue[c] # <<>> /\ head_off' = [head_off EXCEPT ![c] = 0]
      /\ UNCHANGED <<wire, sent, recv>>
      /\ \A d \in Chan : d # c => queue'[d] = queue[d]
  BY WriteBodyEffect
<1>2. head_off[c] = 1
  BY DEF WriteBody
<1>3. queue[c] \in Seq(Msg) /\ c \in Chan
  BY LinkFacts DEF TypeOK
<1>4. /\ Sorted(queue[c])
      /\ Tail(queue[c]) \in Seq(Msg)
  BY <1>1, <1>3, TailFacts DEF FlowInv, SortedInv
<1>5. /\ Sorted(Tail(queue[c]))
      /\ \A l \in Chunk : In(l, Tail(queue[c])) <=> In(l, queue[c]) /\ l # Head(queue[c])
  BY <1>1, <1>3, <1>4, SortedTail
<1>6. \A l \in Chunk : Queued(l, c) <=> In(l, queue[c]) /\ l # Head(queue[c])
  BY <1>2 DEF Queued
<1>7. /\ head_off'[c] = 0
      /\ \A e \in Link : e # c => head_off'[e] = head_off[e]
  BY <1>1 DEF TypeOK
<1>8. \A l \in Chunk : \A e \in Chan : e # c => (Queued(l, e)' <=> Queued(l, e))
  BY <1>1, <1>7 DEF Queued, In
<1>9. QED
  BY <1>1, <1>3, <1>4, <1>5, <1>6, <1>7, <1>8

(***************************************************************************)
(* Sending a body nobody waits behind: the message was on the wire         *)
(* already, so no chunk moves.                                             *)
(***************************************************************************)
LEMMA WriteBodyNobodyFlow ==
  ASSUME IInv, FlowInv, NEW c \in Link, WriteBody(c),
         queue'[c] = Tail(queue[c]),
         \A d \in Chan : state'[d] = state[d] /\ curr'[d] = curr[d]
  PROVE  FlowInv'
<1>1. SortedInv /\ OrderInv /\ CoverInv /\ HeaderInv
  BY DEF FlowInv
<1>2. \A l \in Chunk : \A e \in Chan : Queued(l, e)' <=> Queued(l, e)
  <2>1. \A l \in Chunk : Queued(l, c)' <=> In(l, Tail(queue[c]))
    BY WriteBodyQueue DEF Queued, In
  <2>2. QED
    BY <2>1, WriteBodyQueue
<1>3. \A l \in Chunk : \A e \in Chan : Held(l, e)' <=> Held(l, e)
  BY DEF Held
<1>4. UNCHANGED <<wire, sent, recv>>
  BY WriteBodyQueue
<1>5. Stayed
  BY <1>2, <1>3, <1>4, RevFacts DEF Stayed, At, In
<1>6. OrderInv' /\ CoverInv'
  BY <1>1, <1>4, <1>5, StayedOrder
<1>7. SortedInv'
  BY <1>1, <1>4, WriteBodyQueue DEF SortedInv
<1>8. HeaderInv'
  <2>1. \A e \in Link : head_off'[e] = 1 => e # c /\ head_off[e] = 1 /\ queue'[e] = queue[e]
    BY WriteBodyQueue, LinkFacts
  <2>2. \A e \in Link : (BeingRead(e)' <=> BeingRead(e)) /\ curr'[e] = curr[e]
    BY LinkFacts DEF BeingRead
  <2>3. QED
    BY <2>1, <2>2, <1>1, <1>4 DEF HeaderInv
<1>9. QED
  BY <1>6, <1>7, <1>8 DEF FlowInv

(***************************************************************************)
(* Sending a body that admits a waiter: the chunk the waiter holds enters  *)
(* the queue.                                                              *)
(***************************************************************************)
LEMMA WriteBodyAdmitFlow ==
  ASSUME IInv, FlowInv, NEW c \in Link, WriteBody(c),
         waitq[c] # <<>>,
         NEW w, w = Head(waitq[c]),
         queue'[c] = Append(Tail(queue[c]), curr[w]),
         state'[w] = "ACTIVE", curr'[w] = NULL,
         \A d \in Chan : d # w => state'[d] = state[d] /\ curr'[d] = curr[d]
  PROVE  FlowInv'
<1>. USE DEF IInv
<1>1. SortedInv /\ OrderInv /\ CoverInv /\ HeaderInv
  BY DEF FlowInv
<1>2. w \in Chan /\ WaitsFor(w, c) /\ c \in Chan
  <2>1. waitq[c] \in Seq(Chan) /\ c \in Chan
    BY LinkFacts DEF TypeOK
  <2>2. w = waitq[c][1] /\ 1 \in 1..Len(waitq[c]) /\ w \in Chan
    BY <2>1, TailFacts
  <2>3. QED
    BY <2>1, <2>2 DEF BlockedOnce
<1>3. PICK k : k = curr[w]
  BY SMTT(30)
<1>4. /\ state[w] = "BLOCKING" /\ k \in Chunk /\ k \in Msg /\ k.str \in Stream
      /\ c = ioman_get_nexthop_channel(w[1], k.str)
  BY <1>2, <1>3 DEF WaitsFor, Chunk, Msg
<1>5. PICK v \in Chan : v = Rev(w) /\ Rev(v) = w /\ v[2] = w[1]
  <2>1. Rev(w) \in Chan /\ Rev(Rev(w)) = w /\ Rev(w)[2] = w[1]
    BY <1>2, RevFacts, SMTT(30) DEF Rev
  <2>2. QED
    BY <2>1
<1>6. At(k, v, 2)
  BY <1>3, <1>4, <1>5, ZenonT(60) DEF At, Held
<1>7. OnPath(k.str, v) /\ OnPath(k.str, c) /\ HopOf(k.str, c) = HopOf(k.str, v) + 1
  <2>1. OnPath(k.str, v)
    <3>1. 2 \in 0..2
      BY SMTT(30)
    <3>2. QED
      BY <3>1, <1>4, <1>5, <1>6, AtOnPath
  <2>2. v \in Link => Dst[k.str] # v[2]
    <3>1. v \in Link => w \in Link
      BY <1>5, LinkFacts
    <3>2. QED
      BY <3>1, <1>3, <1>4, <1>5, ZenonT(60) DEF Routed
  <2>3. c = ioman_get_nexthop_channel(v[2], k.str)
    BY <1>4, <1>5
  <2>4. QED
    BY <2>1, <2>2, <2>3, <1>4, HopNext, ZenonT(60)
<1>8. /\ queue[c] \in Seq(Msg) /\ Tail(queue[c]) \in Seq(Msg) /\ queue'[c] = Append(Tail(queue[c]), k)
      /\ UNCHANGED <<wire, sent, recv>>
      /\ head_off'[c] = 0
      /\ \A e \in Link : e # c => head_off'[e] = head_off[e]
      /\ \A e \in Chan : e # c => queue'[e] = queue[e]
  BY <1>3, WriteBodyQueue
<1>9. \A l \in Chunk : \A e \in Chan : Queued(l, e)' <=> Queued(l, e) \/ (l = k /\ e = c)
  <2>0. PICK s \in Seq(Msg) : s = Tail(queue[c])
    BY <1>8
  <2>1. \A l \in Chunk : In(l, Append(Tail(queue[c]), k)) <=> In(l, Tail(queue[c])) \/ l = k
    <3>1. \A x : In(x, Append(s, k)) <=> In(x, s) \/ x = k
      <4>1. k \in Msg /\ s \in Seq(Msg)
        BY <1>4
      <4>2. QED
        BY <4>1, InAppend
    <3>2. QED
      BY <3>1, <2>0
  <2>2. \A l \in Chunk : Queued(l, c)' <=> In(l, Append(Tail(queue[c]), k))
    BY <1>8 DEF Queued, In
  <2>3. \A l \in Chunk : Queued(l, c)' <=> Queued(l, c) \/ l = k
    BY <2>1, <2>2, WriteBodyQueue
  <2>4. QED
    BY <2>3, WriteBodyQueue
<1>10. \A l \in Chunk : \A e \in Chan :
         Held(l, Rev(e))' <=> Held(l, Rev(e)) /\ ~ (l = k /\ e = v)
  <2>. SUFFICES ASSUME NEW l \in Chunk, NEW e \in Chan
                PROVE  Held(l, Rev(e))' <=> Held(l, Rev(e)) /\ ~ (l = k /\ e = v)
    OBVIOUS
  <2>1. PICK f \in Chan : f = Rev(e) /\ Rev(f) = e
    BY RevFacts
  <2>2. f = w <=> e = v
    BY <2>1, <1>5, SMTT(30)
  <2>3. CASE f = w
    BY <2>1, <2>2, <2>3, <1>3, <1>4 DEF Held
  <2>4. CASE f # w
    BY <2>1, <2>2, <2>4 DEF Held
  <2>5. QED
    BY <2>3, <2>4
<1>11. Moved(k, v, 2, c, 0)
  <2>. SUFFICES ASSUME NEW l \in Chunk, NEW e \in Chan, NEW m \in 0..2
                PROVE  At(l, e, m)' <=> \/ At(l, e, m) /\ ~ (l = k /\ e = v /\ m = 2)
                                        \/ l = k /\ e = c /\ m = 0
    BY DEF Moved
  <2>1. CASE m = 0
    <3>1. (At(l, e, m)' <=> Queued(l, e)') /\ (At(l, e, m) <=> Queued(l, e))
      BY <2>1 DEF At
    <3>2. QED
      BY <2>1, <3>1, <1>9
  <2>2. CASE m = 1
    <3>1. At(l, e, m)' <=> At(l, e, m)
      BY <2>2, <1>8 DEF At, In
    <3>2. QED
      BY <2>2, <3>1
  <2>3. CASE m = 2
    <3>1. (At(l, e, m)' <=> Held(l, Rev(e))') /\ (At(l, e, m) <=> Held(l, Rev(e)))
      BY <2>3, SMTT(30) DEF At
    <3>2. QED
      BY <2>3, <3>1, <1>10
  <2>4. QED
    BY <2>1, <2>2, <2>3
<1>12. OrderInv' /\ CoverInv'
  <2>1. \A l \in Chunk : At(l, v, 2) => l = k
    BY <1>3, <1>5 DEF At, Held
  <2>2. \A m \in 0..2 : ~ (2 < m)
    OBVIOUS
  <2>3. 2 \in 0..2 /\ 0 \in 0..2 /\ UNCHANGED <<sent, recv>>
    BY <1>8
  <2>4. QED
    BY <2>1, <2>2, <2>3, <1>1, <1>2, <1>4, <1>6, <1>7, <1>11, MovedOrder
<1>13. SortedInv'
  <2>1. \A l \in Chunk : l.str = k.str /\ In(l, queue[c]) => l.seq < k.seq
    <3>1. 2 \in 0..2
      OBVIOUS
    <3>2. QED
      BY <3>1, <1>4, <1>6, <1>7, AheadInQueue
  <2>2. \A l \in Chunk : l.str = k.str /\ In(l, Tail(queue[c])) => l.seq < k.seq
    BY <2>1, WriteBodyQueue
  <2>3. Sorted(Tail(queue[c]))
    BY WriteBodyQueue
  <2>4. Sorted(Append(Tail(queue[c]), k))
    BY <2>2, <2>3, <1>4, <1>8, SortedAppend
  <2>5. QED
    BY <2>4, <1>1, <1>8, ZenonT(60) DEF SortedInv
<1>14. HeaderInv'
  <2>1. \A e \in Link : head_off'[e] = 1 => e # c /\ head_off[e] = 1 /\ queue'[e] = queue[e]
    BY <1>8, LinkFacts
  <2>2. ASSUME NEW e \in Link, BeingRead(e)'
        PROVE  BeingRead(e) /\ curr'[e] = curr[e]
    BY <2>2, LinkFacts DEF BeingRead
  <2>3. QED
    BY <2>1, <2>2, <1>1, <1>8 DEF HeaderInv
<1>15. QED
  BY <1>12, <1>13, <1>14 DEF FlowInv

(***************************************************************************)
(* Sending a body, whatever its outcome.                                   *)
(***************************************************************************)
LEMMA WriteBodyFlow ==
  ASSUME IInv, FlowInv, NEW c \in Link, WriteBody(c)
  PROVE  FlowInv'
<1>1. CASE /\ queue'[c] = Tail(queue[c])
           /\ \A d \in Chan : state'[d] = state[d] /\ curr'[d] = curr[d]
  BY <1>1, WriteBodyNobodyFlow
<1>2. CASE /\ waitq[c] # <<>>
           /\ queue'[c] = Append(Tail(queue[c]), curr[Head(waitq[c])])
           /\ \A d \in Chan : IF d = Head(waitq[c])
                              THEN state'[d] = "ACTIVE" /\ curr'[d] = NULL
                              ELSE state'[d] = state[d] /\ curr'[d] = curr[d]
  <2>1. Head(waitq[c]) \in Chan
    BY <1>2, TailFacts DEF IInv, TypeOK
  <2>2. QED
    BY <1>2, <2>1, WriteBodyAdmitFlow
<1>3. QED
  BY <1>1, <1>2, WriteBodyEffect DEF IInv

-----------------------------------------------------------------------------
(***************************************************************************)
(* At the start there are no chunks.                                       *)
(***************************************************************************)
LEMMA InitFlow ==
  Init => FlowInv
<1>. SUFFICES ASSUME Init
              PROVE  FlowInv
  OBVIOUS
<1>1. /\ \A d \in Chan : state[d] = "ACTIVE" /\ curr[d] = NULL /\ queue[d] = <<>>
      /\ \A c \in Link : wire[c] = <<>> /\ head_off[c] = 0
      /\ \A t \in Stream : sent[t] = 0 /\ recv[t] = <<>>
  BY DEF Init
<1>2. \A e : ~ In(e, <<>>)
  BY DEF In
<1>3. \A l \in Chunk : \A e \in Chan : \A m \in 0..2 : ~ At(l, e, m)
  BY <1>1, <1>2, RevFacts DEF At, Queued, Held
<1>4. SortedInv
  BY <1>1 DEF SortedInv, Sorted
<1>5. OrderInv
  BY <1>3 DEF OrderInv
<1>6. CoverInv
  <2>1. \A l \in Chunk : ~ InNetwork(l) /\ l.str \in Stream /\ l.seq \in Nat \ {0}
    BY <1>3 DEF InNetwork, Chunk
  <2>2. \A t \in Stream : Len(recv[t]) = 0 /\ sent[t] = 0 /\ NChunks[t] \in Nat
    BY <1>1, BoundAssumption
  <2>3. QED
    BY <2>1, <2>2 DEF CoverInv
<1>7. HeaderInv
  BY <1>1, LinkFacts DEF HeaderInv, BeingRead
<1>8. QED
  BY <1>4, <1>5, <1>6, <1>7 DEF FlowInv

(***************************************************************************)
(* A stuttering step keeps the invariant.                                  *)
(***************************************************************************)
LEMMA StutterFlow ==
  ASSUME FlowInv, UNCHANGED vars
  PROVE  FlowInv'
<1>. USE DEF FlowInv, vars
<1>1. SortedInv'
  BY DEF SortedInv
<1>2. Stayed
  BY DEF Stayed, At, Queued, Held, In
<1>3. OrderInv' /\ CoverInv'
  BY <1>2, StayedOrder
<1>4. HeaderInv'
  BY DEF HeaderInv, BeingRead
<1>5. QED
  BY <1>1, <1>3, <1>4

(***************************************************************************)
(* Every step keeps the invariant, one lemma per action.                   *)
(***************************************************************************)
LEMMA NextFlow ==
  IInv /\ FlowInv /\ [Next]_vars => FlowInv'
<1>. SUFFICES ASSUME IInv, FlowInv, [Next]_vars
              PROVE  FlowInv'
  OBVIOUS
<1>1. CASE \E t \in Stream : comm_node_send_data(t)
  BY <1>1, SendDataFlow
<1>2. CASE \E n \in Node : ioman_process_local_channel_read(n)
  BY <1>2, LocalReadFlow
<1>3. CASE \E c \in Link : channel_send_msg(c)
  BY <1>3, SendMsgFlow
<1>4. CASE \E c \in Link : ReadHeader(c)
  BY <1>4, ReadHeaderFlow
<1>5. CASE \E c \in Link : ReadBody(c)
  BY <1>5, ReadBodyFlow
<1>6. CASE \E c \in Link : WriteHeader(c)
  BY <1>6, WriteHeaderFlow
<1>7. CASE \E c \in Link : WriteBody(c)
  BY <1>7, WriteBodyFlow
<1>8. CASE UNCHANGED vars
  BY <1>8, StutterFlow
<1>9. QED
  BY <1>1, <1>2, <1>3, <1>4, <1>5, <1>6, <1>7, <1>8 DEF Next

-----------------------------------------------------------------------------
(***************************************************************************)
(* The invariant of the flow holds in every state.                         *)
(***************************************************************************)
LEMMA FlowInvariance == SafeSpec => [](IInv /\ FlowInv)
<1>1. Init => IInv /\ FlowInv
  BY InitInv, InitFlow
<1>2. (IInv /\ FlowInv) /\ [Next]_vars => (IInv /\ FlowInv)'
  BY NextInv, NextFlow
<1>3. QED
  BY <1>1, <1>2, PTL DEF SafeSpec

(***************************************************************************)
(* What each step means to the sender and the receiver of a stream.        *)
(***************************************************************************)
LEMMA StepImplementsStreams ==
  IInv /\ FlowInv /\ [Next]_vars => [Reliable!Next]_(Reliable!vars)
<1>. SUFFICES ASSUME IInv, FlowInv, Next
              PROVE  Reliable!Next \/ UNCHANGED <<sent, recv>>
  BY DEF vars, Reliable!vars
<1>1. ASSUME NEW t \in Stream, comm_node_send_data(t)
      PROVE  Reliable!Next
  BY <1>1 DEF comm_node_send_data, Reliable!Next, Reliable!Send
<1>2. ASSUME NEW c \in Link, ReadBody(c), curr[c] # Ctrl, Dst[curr[c].str] = c[1]
      PROVE  Reliable!Next
  <2>1. PICK k : k = curr[c]
    OBVIOUS
  <2>2. k \in Chunk /\ k.seq = Len(recv[k.str]) + 1 /\ k.seq <= sent[k.str]
    BY <1>2, <2>1, DeliveredNext
  <2>3. recv' = [recv EXCEPT ![k.str] = Append(@, k.seq)] /\ UNCHANGED sent
    BY <1>2, <2>1 DEF ReadBody
  <2>4. PICK t \in Stream : t = k.str
    BY <2>2 DEF Chunk
  <2>5. Len(recv[t]) < sent[t]
    <3>1. Len(recv[t]) \in Nat /\ sent[t] \in Nat
      BY DEF IInv, TypeOK
    <3>2. QED
      BY <3>1, <2>2, <2>4
  <2>6. recv' = [recv EXCEPT ![t] = Append(@, Len(@) + 1)]
    BY <2>2, <2>3, <2>4
  <2>7. Reliable!Deliver(t)
    BY <2>3, <2>5, <2>6 DEF Reliable!Deliver
  <2>8. QED
    BY <2>7 DEF Reliable!Next
<1>3. ASSUME NEW c \in Link, ReadBody(c), ~ (curr[c] # Ctrl /\ Dst[curr[c].str] = c[1])
      PROVE  UNCHANGED <<sent, recv>>
  BY <1>3 DEF ReadBody
<1>4. ASSUME NEW n \in Node, ioman_process_local_channel_read(n)
      PROVE  UNCHANGED <<sent, recv>>
  BY <1>4 DEF ioman_process_local_channel_read
<1>5. ASSUME NEW c \in Link,
             channel_send_msg(c) \/ ReadHeader(c) \/ WriteHeader(c)
      PROVE  UNCHANGED <<sent, recv>>
  BY <1>5 DEF channel_send_msg, ReadHeader, WriteHeader
<1>6. ASSUME NEW c \in Link, WriteBody(c)
      PROVE  UNCHANGED <<sent, recv>>
  BY <1>6, WriteBodyQueue
<1>7. QED
  BY <1>1, <1>2, <1>3, <1>4, <1>5, <1>6 DEF Next

(***************************************************************************)
(* Reliable streams, their safe part: whatever the routes, the load and    *)
(* the limit, every chunk handed to the receiver of a stream is the one    *)
(* after the last, and none is handed over before it was pushed.           *)
(***************************************************************************)
THEOREM SafeStreams == Spec => ImplementsSafeStreams
<1>1. Init => Reliable!Init
  BY DEF Init, Reliable!Init
<1>2. SafeSpec => [][Reliable!Next]_(Reliable!vars)
  BY FlowInvariance, StepImplementsStreams, PTL DEF SafeSpec
<1>3. QED
  BY <1>1, <1>2, PTL DEF Spec, SafeSpec, ImplementsSafeStreams, Reliable!SafeSpec

-----------------------------------------------------------------------------
(***************************************************************************)
(* Two places of one chunk are the same place.                             *)
(***************************************************************************)
LEMMA OnePlace ==
  ASSUME IInv, FlowInv, NEW k \in Chunk,
         NEW c \in Chan, NEW i \in 0..2, At(k, c, i), NEW d \in Chan, NEW j \in 0..2, At(k, d, j)
  PROVE  c = d /\ i = j
<1>1. k.str \in Stream /\ k.seq \in Nat /\ OnPath(k.str, c) /\ OnPath(k.str, d)
  BY AtOnPath DEF Chunk
<1>2. /\ Rank(k.str, c, i) \in Nat /\ Rank(k.str, d, j) \in Nat
      /\ Rank(k.str, c, i) = Rank(k.str, d, j) => c = d /\ i = j
  BY <1>1, RankFacts
<1>3. ~ (Rank(k.str, c, i) > Rank(k.str, d, j)) /\ ~ (Rank(k.str, d, j) > Rank(k.str, c, i))
  <2>1. ~ (k.seq < k.seq)
    BY <1>1
  <2>2. QED
    BY <2>1 DEF FlowInv, OrderInv
<1>4. QED
  BY <1>2, <1>3

(***************************************************************************)
(* A sorted sequence holds a chunk once.                                   *)
(***************************************************************************)
LEMMA SortedOnce ==
  ASSUME NEW s \in Seq(Msg), Sorted(s), NEW k \in Chunk,
         NEW i \in 1..Len(s), s[i] = k, NEW j \in 1..Len(s), s[j] = k
  PROVE  i = j
<1>1. k.seq \in Nat /\ ~ (k.seq < k.seq)
  BY DEF Chunk
<1>2. ~ (i < j) /\ ~ (j < i)
  BY <1>1 DEF Sorted
<1>3. QED
  BY <1>2

(***************************************************************************)
(* The four sets of ExactlyOnce, in terms of the places of the chunk.      *)
(***************************************************************************)
LEMMA QueuedSet ==
  ASSUME IInv, FlowInv, NEW k \in Chunk
  PROVE  /\ (\A c \in Chan : ~ At(k, c, 0)) => QueuedAt(k) = {}
         /\ (\E c \in Chan : At(k, c, 0)) => \E x : QueuedAt(k) = {x}
<1>1. ASSUME NEW c \in Chan, NEW i \in 1..Len(queue[c]), queue[c][i] = k,
             ~ (i = 1 /\ c \in Link /\ head_off[c] = 1)
      PROVE  At(k, c, 0)
  <2>1. In(k, queue[c])
    BY <1>1 DEF In
  <2>2. ASSUME c \in Link, head_off[c] = 1, k = Head(queue[c])
        PROVE  FALSE
    <3>1. PICK s \in Seq(Msg) : s = queue[c]
      BY DEF IInv, TypeOK
    <3>2. Sorted(s)
      BY <3>1 DEF FlowInv, SortedInv
    <3>3. s # <<>>
      BY <3>1, <1>1
    <3>4. s[1] = k /\ 1 \in 1..Len(s)
      BY <2>2, <3>1, <3>3, TailFacts
    <3>5. i = 1
      BY <1>1, <3>1, <3>2, <3>4, SortedOnce
    <3>6. QED
      BY <3>5, <2>2, <1>1
  <2>3. QED
    BY <2>1, <2>2 DEF At, Queued
<1>2. ASSUME NEW x \in QueuedAt(k)
      PROVE  \E c \in Chan : \E i \in 1..Len(queue[c]) :
               x = <<c, i>> /\ queue[c][i] = k /\ At(k, c, 0)
  <2>1. PICK c \in Chan : \E i \in 1..Len(queue[c]) : x = <<c, i>>
    BY DEF QueuedAt
  <2>2. PICK i \in 1..Len(queue[c]) : x = <<c, i>>
    BY <2>1
  <2>3. queue[c][i] = k /\ ~ (i = 1 /\ c \in Link /\ head_off[c] = 1)
    BY <2>2 DEF QueuedAt
  <2>4. At(k, c, 0)
    BY <2>3, <1>1
  <2>5. QED
    BY <2>2, <2>3, <2>4
<1>3. (\A c \in Chan : ~ At(k, c, 0)) => QueuedAt(k) = {}
  BY <1>2
<1>4. ASSUME NEW c \in Chan, At(k, c, 0)
      PROVE  \E x : QueuedAt(k) = {x}
  <2>1. PICK s \in Seq(Msg) : s = queue[c]
    BY DEF IInv, TypeOK
  <2>2. Sorted(s)
    BY <2>1 DEF FlowInv, SortedInv
  <2>3. In(k, s) /\ ~ (c \in Link /\ head_off[c] = 1 /\ k = Head(s))
    BY <1>4, <2>1 DEF At, Queued
  <2>4. PICK i \in 1..Len(s) : s[i] = k
    BY <2>3 DEF In
  <2>5. ~ (i = 1 /\ c \in Link /\ head_off[c] = 1)
    <3>1. Head(s) = s[1]
      BY <2>4, TailFacts
    <3>2. QED
      BY <3>1, <2>3, <2>4
  <2>6. <<c, i>> \in QueuedAt(k)
    BY <2>1, <2>4, <2>5 DEF QueuedAt
  <2>7. ASSUME NEW x \in QueuedAt(k)
        PROVE  x = <<c, i>>
    <3>0. PICK d \in Chan : \E j \in 1..Len(queue[d]) :
                              x = <<d, j>> /\ queue[d][j] = k /\ At(k, d, 0)
      BY <1>2
    <3>1. PICK j \in 1..Len(queue[d]) : x = <<d, j>> /\ queue[d][j] = k /\ At(k, d, 0)
      BY <3>0
    <3>2. 0 \in 0..2
      OBVIOUS
    <3>3. d = c
      BY <3>1, <3>2, <1>4, OnePlace
    <3>4. j = i
      BY <3>1, <3>3, <2>1, <2>2, <2>4, SortedOnce
    <3>5. QED
      BY <3>1, <3>3, <3>4
  <2>8. QED
    BY <2>6, <2>7
<1>5. QED
  BY <1>3, <1>4

(***************************************************************************)
(* A chunk is on at most one wire, once.                                   *)
(***************************************************************************)
LEMMA OnWireSet ==
  ASSUME IInv, FlowInv, NEW k \in Chunk
  PROVE  /\ (\A c \in Chan : ~ At(k, c, 1)) => OnWireAt(k) = {}
         /\ (\E c \in Chan : At(k, c, 1)) => \E x : OnWireAt(k) = {x}
<1>1. ASSUME NEW x \in OnWireAt(k)
      PROVE  \E c \in Link : \E i \in 1..Len(wire[c]) :
               x = <<c, i>> /\ wire[c][i] = k /\ At(k, c, 1)
  <2>1. PICK c \in Link : \E i \in 1..Len(wire[c]) : x = <<c, i>>
    BY DEF OnWireAt
  <2>2. PICK i \in 1..Len(wire[c]) : x = <<c, i>>
    BY <2>1
  <2>3. wire[c][i] = k
    BY <2>2 DEF OnWireAt
  <2>4. At(k, c, 1)
    BY <2>3 DEF At, In
  <2>5. QED
    BY <2>2, <2>3, <2>4
<1>2. (\A c \in Chan : ~ At(k, c, 1)) => OnWireAt(k) = {}
  BY <1>1, LinkFacts
<1>3. ASSUME NEW c \in Chan, At(k, c, 1)
      PROVE  \E x : OnWireAt(k) = {x}
  <2>1. c \in Link /\ In(k, wire[c])
    BY <1>3 DEF At
  <2>2. PICK s \in Seq(Msg) : s = wire[c]
    BY <2>1 DEF IInv, TypeOK
  <2>3. Sorted(s)
    BY <2>1, <2>2 DEF FlowInv, SortedInv
  <2>4. PICK i \in 1..Len(s) : s[i] = k
    BY <2>1, <2>2 DEF In
  <2>5. <<c, i>> \in OnWireAt(k)
    BY <2>1, <2>2, <2>4 DEF OnWireAt
  <2>6. ASSUME NEW x \in OnWireAt(k)
        PROVE  x = <<c, i>>
    <3>0. PICK d \in Link : \E j \in 1..Len(wire[d]) :
                              x = <<d, j>> /\ wire[d][j] = k /\ At(k, d, 1)
      BY <1>1
    <3>1. PICK j \in 1..Len(wire[d]) : x = <<d, j>> /\ wire[d][j] = k /\ At(k, d, 1)
      BY <3>0
    <3>2. 1 \in 0..2 /\ d \in Chan
      BY LinkFacts
    <3>3. d = c
      BY <3>1, <3>2, <1>3, OnePlace
    <3>4. j = i
      BY <3>1, <3>3, <2>2, <2>3, <2>4, SortedOnce
    <3>5. QED
      BY <3>1, <3>3, <3>4
  <2>7. QED
    BY <2>5, <2>6
<1>4. QED
  BY <1>2, <1>3

(***************************************************************************)
(* A chunk is held by at most one channel.                                 *)
(***************************************************************************)
LEMMA HeldSet ==
  ASSUME IInv, FlowInv, NEW k \in Chunk
  PROVE  /\ (\A c \in Chan : ~ At(k, c, 2)) => HeldBy(k) = {}
         /\ (\E c \in Chan : At(k, c, 2)) => \E x : HeldBy(k) = {x}
<1>1. \A d \in Chan : d \in HeldBy(k) <=> At(k, Rev(d), 2)
  BY RevFacts DEF HeldBy, At, Held
<1>2. (\A c \in Chan : ~ At(k, c, 2)) => HeldBy(k) = {}
  BY <1>1, RevFacts DEF HeldBy
<1>3. ASSUME NEW c \in Chan, At(k, c, 2)
      PROVE  \E x : HeldBy(k) = {x}
  <2>1. PICK d \in Chan : d = Rev(c) /\ Rev(d) = c
    BY RevFacts
  <2>2. d \in HeldBy(k)
    BY <2>1, <1>1, <1>3
  <2>3. ASSUME NEW x \in HeldBy(k)
        PROVE  x = d
    <3>1. x \in Chan /\ At(k, Rev(x), 2)
      BY <1>1 DEF HeldBy
    <3>2. PICK f \in Chan : f = Rev(x) /\ Rev(f) = x
      BY <3>1, RevFacts
    <3>3. 2 \in 0..2
      OBVIOUS
    <3>4. f = c
      BY <3>1, <3>2, <3>3, <1>3, OnePlace
    <3>5. QED
      BY <3>2, <3>4, <2>1
  <2>4. QED
    BY <2>2, <2>3
<1>4. QED
  BY <1>2, <1>3

(***************************************************************************)
(* A chunk is delivered exactly if its number is among those received.     *)
(***************************************************************************)
LEMMA DeliveredSet ==
  ASSUME IInv, FlowInv, NEW k \in Chunk
  PROVE  /\ k.seq <= Len(recv[k.str]) => DeliveredAs(k) = {k.seq}
         /\ ~ (k.seq <= Len(recv[k.str])) => DeliveredAs(k) = {}
<1>1. k.str \in Stream /\ k.seq \in Nat \ {0}
  BY DEF Chunk
<1>2. Len(recv[k.str]) \in Nat /\ \A i \in 1..Len(recv[k.str]) : recv[k.str][i] = i
  BY <1>1 DEF FlowInv, CoverInv, IInv, TypeOK
<1>3. QED
  BY <1>1, <1>2 DEF DeliveredAs

(***************************************************************************)
(* No chunk is lost or duplicated: every chunk pushed is in exactly one    *)
(* place, or was handed to its destination once, for every topology,       *)
(* routing and load.                                                       *)
(***************************************************************************)
THEOREM NothingLostOrDuplicated == Spec => []ExactlyOnce
<1>1. IInv /\ FlowInv => ExactlyOnce
  <2>. SUFFICES ASSUME IInv, FlowInv, NEW t \in Stream, NEW i \in 1..NChunks[t],
                       NEW k, k = [str |-> t, seq |-> i]
                PROVE  Cardinality(QueuedAt(k)) + Cardinality(OnWireAt(k))
                         + Cardinality(HeldBy(k)) + Cardinality(DeliveredAs(k))
                       = IF i <= sent[t] THEN 1 ELSE 0
    BY DEF ExactlyOnce
  <2>. DEFINE q == Cardinality(QueuedAt(k))
              w == Cardinality(OnWireAt(k))
              h == Cardinality(HeldBy(k))
              d == Cardinality(DeliveredAs(k))
  <2>1. k \in Chunk /\ k.str = t /\ k.seq = i /\ i \in Nat
    BY BoundAssumption DEF Chunk
  <2>2. Len(recv[t]) \in Nat /\ sent[t] \in Nat /\ Len(recv[t]) <= sent[t]
    BY DEF FlowInv, CoverInv, IInv, TypeOK
  <2>3. Cardinality({}) = 0 /\ \A x : Cardinality({x}) = 1
    BY FS_EmptySet, FS_Singleton
  <2>4. InNetwork(k) <=> (Len(recv[t]) < i /\ i <= sent[t])
    BY <2>1 DEF FlowInv, CoverInv
  <2>5. d = IF i <= Len(recv[t]) THEN 1 ELSE 0
    BY <2>1, <2>3, DeliveredSet
  <2>6. /\ (\A c \in Chan : ~ At(k, c, 0)) => q = 0
        /\ (\E c \in Chan : At(k, c, 0)) => q = 1
    BY <2>1, <2>3, QueuedSet
  <2>7. /\ (\A c \in Chan : ~ At(k, c, 1)) => w = 0
        /\ (\E c \in Chan : At(k, c, 1)) => w = 1
    BY <2>1, <2>3, OnWireSet
  <2>8. /\ (\A c \in Chan : ~ At(k, c, 2)) => h = 0
        /\ (\E c \in Chan : At(k, c, 2)) => h = 1
    BY <2>1, <2>3, HeldSet
  <2>. HIDE DEF q, w, h, d
  <2>9. 0 \in 0..2 /\ 1 \in 0..2 /\ 2 \in 0..2
    OBVIOUS
  <2>10. CASE ~ InNetwork(k)
    <3>1. q = 0 /\ w = 0 /\ h = 0
      BY <2>6, <2>7, <2>8, <2>9, <2>10 DEF InNetwork
    <3>2. d = IF i <= sent[t] THEN 1 ELSE 0
      BY <2>1, <2>2, <2>4, <2>5, <2>10
    <3>3. q + w + h + d = IF i <= sent[t] THEN 1 ELSE 0
      BY <3>1, <3>2
    <3>4. QED
      BY <3>3 DEF q, w, h, d
  <2>11. CASE InNetwork(k)
    <3>1. PICK c \in Chan, m \in 0..2 : At(k, c, m)
      BY <2>11 DEF InNetwork
    <3>2. \A e \in Chan, n \in 0..2 : At(k, e, n) => n = m
      BY <2>1, <3>1, OnePlace
    <3>3. d = 0 /\ i <= sent[t]
      BY <2>1, <2>2, <2>4, <2>5, <2>11
    <3>4. /\ m = 0 => q = 1 /\ w = 0 /\ h = 0
          /\ m = 1 => q = 0 /\ w = 1 /\ h = 0
          /\ m = 2 => q = 0 /\ w = 0 /\ h = 1
      BY <2>6, <2>7, <2>8, <2>9, <3>1, <3>2
    <3>5. q + w + h = 1
      BY <3>4
    <3>6. q + w + h + d = 1
      BY <3>3, <3>4
    <3>7. QED
      BY <3>3, <3>6 DEF q, w, h, d
  <2>12. QED
    BY <2>10, <2>11
<1>2. QED
  BY <1>1, FlowInvariance, PTL DEF Spec
=============================================================================
