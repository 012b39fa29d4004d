------------------------ MODULE RouteExchangeProofs ------------------------
(***************************************************************************)
(* Proofs about RouteExchange, for any number of nodes, any overlay, any   *)
(* paths over it and any messages: the tables a node has are counted       *)
(* right, nobody leaves the exchange without all of them, each is passed   *)
(* on once, and no chunk meets a node that cannot route it.                *)
(***************************************************************************)
EXTENDS RouteExchange, FiniteSetTheorems, TLAPS

(***************************************************************************)
(* How far the application thread of a node is.                            *)
(***************************************************************************)
Waiting == {"check", "cond_wait"}
Exchanged == {"exchanged", "sync", "send"}
HasBroadcast == {"count"} \cup Waiting \cup Exchanged

(***************************************************************************)
(* A connector registers after its acceptor, nobody writes its connection  *)
(* info before its connectors have, and nobody computes routes before all  *)
(* have: from then on every channel is in the channel map of its node.     *)
(***************************************************************************)
ConnectedFirst ==
  /\ \A e \in Conn : e[2] \in peers[e[1]] => e[1] \in peers[e[2]]
  /\ \A e \in Conn : app[e[1]] # "connect" => e[2] \in peers[e[1]]
  /\ \A n, m \in Node : app[n] \notin {"connect", "conn_info"} => app[m] # "connect"

(***************************************************************************)
(* A node has its own table once it is stored; a table is with another     *)
(* node, in a notify pipe or on a channel only after its broadcast, and    *)
(* what a node passes on it has.                                           *)
(***************************************************************************)
TablesKnown ==
  /\ \A n \in Node : n \in rts[n] <=> app[n] \in {"bcast"} \cup HasBroadcast
  /\ \A n \in Node : \A s \in rts[n] : s # n => app[s] \in HasBroadcast
  /\ \A n \in Node : \A i \in DOMAIN pipe[n] :
       pipe[n][i] \in rts[n] /\ app[pipe[n][i]] \in HasBroadcast
  /\ \A c \in Link : \A i \in DOMAIN wire[c] : wire[c][i].kind = "RT" =>
       wire[c][i].src \in rts[c[1]] /\ app[wire[c][i].src] \in HasBroadcast

(***************************************************************************)
(* Data is sent when all have synchronised, and stays on its path.         *)
(***************************************************************************)
OnPath(x, n) == \E i \in 1 .. Len(Path[x]) : Path[x][i] = n

DataAfterTables ==
  /\ \A n, m \in Node : app[n] = "send" => app[m] \in {"sync", "send"}
  /\ \A x \in sent : app[x[1]] = "send"
  /\ \A n \in Node : \A i \in DOMAIN local[n] : local[n][i] \in sent /\ local[n][i][1] = n
  /\ \A c \in Link : \A i \in DOMAIN wire[c] : wire[c][i].kind = "DATA" =>
       wire[c][i].msg \in sent /\ OnPath(wire[c][i].msg, c[2])

IInv ==
  /\ TypeOK /\ CountMatches /\ ExchangeComplete
  /\ ConnectedFirst /\ TablesKnown /\ DataAfterTables /\ FloodOnce

-----------------------------------------------------------------------------
(***************************************************************************)
(* Queues.                                                                 *)
(***************************************************************************)
LEMMA AppendFacts ==
  ASSUME NEW S, NEW s \in Seq(S), NEW e \in S
  PROVE  /\ Append(s, e) \in Seq(S)
         /\ DOMAIN Append(s, e) = DOMAIN s \cup {Len(s) + 1}
         /\ Len(s) + 1 \notin DOMAIN s
         /\ \A i \in DOMAIN s : Append(s, e)[i] = s[i]
         /\ Append(s, e)[Len(s) + 1] = e
  OBVIOUS

LEMMA TailFacts ==
  ASSUME NEW S, NEW s \in Seq(S), s # <<>>
  PROVE  /\ Tail(s) \in Seq(S)
         /\ Head(s) \in S /\ 1 \in DOMAIN s /\ Head(s) = s[1]
         /\ \A i \in DOMAIN Tail(s) : i + 1 \in DOMAIN s /\ Tail(s)[i] = s[i + 1]
         /\ \A i, j \in DOMAIN Tail(s) : i + 1 = j + 1 => i = j
         /\ \A i \in DOMAIN Tail(s) : i + 1 # 1
  OBVIOUS

LEMMA AppendInjective ==
  ASSUME NEW S, NEW s \in Seq(S), NEW e \in S, IsInjective(s), \A i \in DOMAIN s : s[i] # e
  PROVE  IsInjective(Append(s, e))
  BY AppendFacts DEF IsInjective

LEMMA TailInjective ==
  ASSUME NEW S, NEW s \in Seq(S), s # <<>>, IsInjective(s)
  PROVE  IsInjective(Tail(s)) /\ \A i \in DOMAIN Tail(s) : Tail(s)[i] # Head(s)
  BY TailFacts DEF IsInjective

(***************************************************************************)
(* Messages.                                                               *)
(***************************************************************************)
LEMMA MsgFacts ==
  /\ \A s \in Node : Table(s) \in Msg /\ Table(s).kind = "RT" /\ Table(s).src = s
  /\ \A x \in Sends : Chunk(x) \in Msg /\ Chunk(x).kind = "DATA" /\ Chunk(x).msg = x
  /\ \A m \in Msg : m.kind = "RT" => m.src \in Node /\ m = Table(m.src)
  /\ \A m \in Msg : m.kind = "DATA" => m.msg \in Sends /\ m = Chunk(m.msg)
  /\ \A m \in Msg : m.kind \in {"RT", "DATA"}
<1>1. /\ \A s \in Node : Table(s) \in Msg /\ Table(s).kind = "RT" /\ Table(s).src = s
      /\ \A x \in Sends : Chunk(x) \in Msg /\ Chunk(x).kind = "DATA" /\ Chunk(x).msg = x
  BY DEF Msg, Table, Chunk
<1>2. \A m \in Msg : (\E s \in Node : m = Table(s)) \/ (\E x \in Sends : m = Chunk(x))
  BY DEF Msg
<1>3. "RT" # "DATA"
  OBVIOUS
<1>4. QED
  BY <1>1, <1>2, <1>3

(***************************************************************************)
(* Channels.                                                               *)
(***************************************************************************)
LEMMA LinkFacts ==
  /\ \A c \in Link : c[1] \in Node /\ c[2] \in Node /\ c = <<c[1], c[2]>>
  /\ \A e \in Conn : e \in Link /\ e[1] \in Node /\ e[2] \in Node /\ e[1] # e[2]
  /\ \A c \in Link : c \in Conn \/ \E e \in Conn : c = <<e[2], e[1]>>
  BY RouteExchangeAssumption DEF Link

(***************************************************************************)
(* Sets of tables.                                                         *)
(***************************************************************************)
LEMMA TableSets ==
  ASSUME NEW R \in SUBSET Node
  PROVE  /\ Cardinality(R) \in Nat /\ Cardinality(Node) \in Nat
         /\ Cardinality(R) <= Cardinality(Node)
         /\ Cardinality(R) = Cardinality(Node) => R = Node
         /\ \A s \in Node \ R : /\ Cardinality(R \cup {s}) = Cardinality(R) + 1
                                 /\ Cardinality(R) + 1 <= Cardinality(Node)
<1>1. IsFiniteSet(Node) /\ IsFiniteSet(R)
  BY RouteExchangeAssumption, FS_Subset
<1>2. Cardinality(R) \in Nat /\ Cardinality(Node) \in Nat
  BY <1>1, FS_CardinalityType
<1>3. Cardinality(R) <= Cardinality(Node) /\ (Cardinality(R) = Cardinality(Node) => R = Node)
  BY <1>1, FS_Subset
<1>4. ASSUME NEW s \in Node \ R
      PROVE  /\ Cardinality(R \cup {s}) = Cardinality(R) + 1
             /\ Cardinality(R) + 1 <= Cardinality(Node)
  <2>1. Cardinality(R \cup {s}) = Cardinality(R) + 1
    BY <1>1, <1>4, FS_AddElement
  <2>2. Cardinality(R \cup {s}) <= Cardinality(Node)
    BY <1>1, <1>4, FS_Subset
  <2>3. QED
    BY <2>1, <2>2
<1>5. QED
  BY <1>2, <1>3, <1>4

(***************************************************************************)
(* The source and every later node but the last have a next one, over a    *)
(* channel.                                                                *)
(***************************************************************************)
LEMMA NextHop ==
  ASSUME NEW x \in Sends, NEW n \in Node, OnPath(x, n), n = x[1] \/ n # x[2]
  PROVE  /\ <<n, comm_node_lookup_rt(n, x)>> \in Link
         /\ OnPath(x, comm_node_lookup_rt(n, x))
<1>. DEFINE p == Path[x]
            i == CHOOSE i \in 1 .. Len(p) - 1 : p[i] = n
<1>1. /\ p \in Seq(Node) /\ Len(p) \in Nat /\ Len(p) > 1 /\ p[Len(p)] = x[2]
      /\ \A k \in 1 .. Len(p) - 1 : <<p[k], p[k + 1]>> \in Link
  BY RouteExchangeAssumption
<1>2. \E k \in 1 .. Len(p) - 1 : p[k] = n
  <2>1. PICK k \in 1 .. Len(p) : p[k] = n
    BY DEF OnPath
  <2>2. n # x[2] => k # Len(p)
    BY <1>1, <2>1
  <2>3. p[1] = x[1]
    BY RouteExchangeAssumption
  <2>4. QED
    BY <1>1, <2>1, <2>2, <2>3
<1>3. i \in 1 .. Len(p) - 1 /\ p[i] = n
  BY <1>2
<1>4. comm_node_lookup_rt(n, x) = p[1 + i]
  BY DEF comm_node_lookup_rt
<1>. HIDE DEF i
<1>5. 1 + i \in 1 .. Len(p) /\ 1 + i = i + 1
  BY <1>1, <1>3
<1>6. <<n, p[1 + i]>> \in Link
  BY <1>1, <1>3, <1>5
<1>7. OnPath(x, p[1 + i])
  BY <1>1, <1>5 DEF OnPath
<1>8. QED
  BY <1>4, <1>6, <1>7

-----------------------------------------------------------------------------
(***************************************************************************)
(* The inductive invariant holds at the start.                             *)
(***************************************************************************)
LEMMA InitInv ==
  Init => IInv
<1>. SUFFICES ASSUME Init
              PROVE  IInv
  OBVIOUS
<1>. USE DEF Init
<1>1. Cardinality({}) = 0 /\ Cardinality(Node) \in Nat
  BY FS_EmptySet, TableSets
<1>2. TypeOK
  BY <1>1 DEF TypeOK
<1>3. CountMatches /\ ExchangeComplete
  BY <1>1 DEF CountMatches, ExchangeComplete
<1>4. ConnectedFirst
  BY LinkFacts DEF ConnectedFirst
<1>5. TablesKnown /\ DataAfterTables
  BY LinkFacts DEF TablesKnown, DataAfterTables, HasBroadcast, Waiting, Exchanged
<1>6. FloodOnce
  BY LinkFacts DEF FloodOnce, IsInjective
<1>7. QED
  BY <1>2, <1>3, <1>4, <1>5, <1>6 DEF IInv

-----------------------------------------------------------------------------
(***************************************************************************)
(* Types, and the count of tables.                                         *)
(***************************************************************************)
LEMMA CountStep ==
  ASSUME IInv, [Next]_vars
  PROVE  /\ rts' \in [Node -> SUBSET Node]
         /\ app' \in [Node -> {"connect", "conn_info", "compute", "bcast", "count", "check",
                               "cond_wait", "exchanged", "sync", "send"}]
         /\ num_rts' \in [Node -> 0 .. Cardinality(Node)]
         /\ CountMatches'
<1>. DEFINE Goal == /\ rts' \in [Node -> SUBSET Node]
                    /\ app' \in [Node -> {"connect", "conn_info", "compute", "bcast", "count",
                                          "check", "cond_wait", "exchanged", "sync", "send"}]
                    /\ num_rts' \in [Node -> 0 .. Cardinality(Node)]
                    /\ CountMatches'
<1>. USE DEF IInv, TypeOK, CountMatches
<1>1. ASSUME NEW n \in Node,
             WriteConnInfo(n) \/ ReadConnInfo(n) \/ CheckTables(n) \/ WriteSync(n)
               \/ ReadSync(n) \/ SpuriousWakeup(n)
      PROVE  Goal
  BY <1>1 DEF WriteConnInfo, ReadConnInfo, CheckTables, WriteSync, ReadSync, SpuriousWakeup, Move
<1>2. ASSUME NEW n \in Node, StoreOwn(n) \/ BcastOwn(n)
      PROVE  Goal
  <2>1. CASE StoreOwn(n)
    <3>1. n \notin rts[n]
      BY <2>1 DEF StoreOwn, Move, TablesKnown, HasBroadcast, Waiting, Exchanged
    <3>2. Cardinality(rts[n] \cup {n}) = Cardinality(rts[n]) + 1
      BY <3>1, TableSets
    <3>3. QED
      BY <2>1, <3>2, TableSets DEF StoreOwn, Move
  <2>2. CASE BcastOwn(n)
    BY <2>2 DEF BcastOwn, Move
  <2>3. QED
    BY <1>2, <2>1, <2>2
<1>3. ASSUME NEW n \in Node, CountOwn(n)
      PROVE  Goal
  BY <1>3, TableSets DEF CountOwn, Move
<1>4. ASSUME NEW c \in Link, RecvTable(c)
      PROVE  Goal
  <2>. DEFINE n == c[2]
              s == Head(wire[c]).src
  <2>1. n \in Node /\ s \in Node
    BY <1>4, LinkFacts, TailFacts, MsgFacts DEF RecvTable
  <2>2. CASE s \in rts[n]
    BY <1>4, <2>2 DEF RecvTable, RegisterTable
  <2>3. CASE s \notin rts[n]
    <3>1. /\ Cardinality(rts[n] \cup {s}) = Cardinality(rts[n]) + 1
          /\ Cardinality(rts[n]) + 1 <= Cardinality(Node)
          /\ Cardinality(rts[n]) \in Nat /\ Cardinality(Node) \in Nat
      BY <2>1, <2>3, TableSets
    <3>2. /\ rts' = [rts EXCEPT ![n] = @ \cup {s}]
          /\ num_rts' = [num_rts EXCEPT ![n] = @ + 1]
          /\ app' = [app EXCEPT ![n] = IF @ = "cond_wait" THEN "check" ELSE @]
      BY <1>4, <2>3 DEF RecvTable, RegisterTable, Wake
    <3>. HIDE DEF n, s
    <3>3. app'[n] \in {"bcast", "count"} <=> app[n] \in {"bcast", "count"}
      BY <2>1, <3>2
    <3>4. num_rts[n] \in Nat /\ num_rts[n] + 1 <= Cardinality(Node)
      <4>1. num_rts[n] \in 0 .. Cardinality(Node)
        BY <2>1
      <4>2. num_rts[n] + (IF app[n] \in {"bcast", "count"} THEN 1 ELSE 0) = Cardinality(rts[n])
        BY <2>1
      <4>3. QED
        BY <3>1, <4>1, <4>2
    <3>5. rts'[n] = rts[n] \cup {s} /\ num_rts'[n] = num_rts[n] + 1
      BY <2>1, <3>2
    <3>6. num_rts'[n] + (IF app'[n] \in {"bcast", "count"} THEN 1 ELSE 0) = Cardinality(rts'[n])
      BY <2>1, <3>1, <3>3, <3>4, <3>5
    <3>7. \A m \in Node : m # n => /\ app'[m] = app[m] /\ rts'[m] = rts[m]
                                   /\ num_rts'[m] = num_rts[m]
      BY <2>1, <3>2
    <3>8. CountMatches'
      BY <3>6, <3>7
    <3>9. num_rts' \in [Node -> 0 .. Cardinality(Node)]
      BY <2>1, <3>1, <3>2, <3>4, SMTT(30)
    <3>10. QED
      BY <2>1, <3>2, <3>8, <3>9
  <2>4. QED
    BY <2>2, <2>3
<1>5. ASSUME UNCHANGED <<rts, app, num_rts>>
      PROVE  Goal
  BY <1>5
<1>6. ASSUME NEW e, HandlePing0(e) \/ HandlePing1(e)
      PROVE  UNCHANGED <<rts, app, num_rts>>
  BY <1>6 DEF HandlePing0, HandlePing1
<1>7. ASSUME NEW n, HandleBcast(n) \/ ForwardLocal(n) \/ SendData(n) \/ RecvData(n)
      PROVE  UNCHANGED <<rts, app, num_rts>>
  BY <1>7 DEF HandleBcast, ForwardLocal, SendData, RecvData
<1>8. ASSUME Done \/ UNCHANGED vars
      PROVE  UNCHANGED <<rts, app, num_rts>>
  BY <1>8 DEF Done, vars
<1>9. QED
  BY <1>1, <1>2, <1>3, <1>4, <1>5, <1>6, <1>7, <1>8 DEF Next, Application

(***************************************************************************)
(* The channel maps, and how far the applications are.                     *)
(***************************************************************************)
LEMMA PeersStep ==
  ASSUME IInv, [Next]_vars
  PROVE  /\ peers' \in [Node -> SUBSET Node]
         /\ ConnectedFirst'
<1>. DEFINE Goal == peers' \in [Node -> SUBSET Node] /\ ConnectedFirst'
<1>. USE DEF IInv, TypeOK, ConnectedFirst
<1>1. ASSUME NEW e \in Conn, HandlePing0(e)
      PROVE  Goal
  <2>1. e[1] \in Node /\ e[2] \in Node
    BY LinkFacts
  <2>2. peers' = [peers EXCEPT ![e[2]] = @ \cup {e[1]}] /\ app' = app
    BY <1>1 DEF HandlePing0
  <2>3. \A n, m \in Node : m \in peers'[n] <=> m \in peers[n] \/ (n = e[2] /\ m = e[1])
    BY <2>1, <2>2
  <2>4. ASSUME NEW d \in Conn, d[2] \in peers'[d[1]]
        PROVE  d[1] \in peers'[d[2]]
    <3>1. d[1] \in Node /\ d[2] \in Node
      BY LinkFacts
    <3>2. d[1] = e[2] => d[2] # e[1]
      BY LinkFacts, RouteExchangeAssumption
    <3>3. d[2] \in peers[d[1]]
      BY <2>3, <2>4, <3>1, <3>2
    <3>4. d[1] \in peers[d[2]]
      BY <3>3
    <3>5. QED
      BY <2>3, <3>1, <3>4
  <2>5. \A d \in Conn : app'[d[1]] # "connect" => d[2] \in peers'[d[1]]
    BY <2>2, <2>3, LinkFacts
  <2>6. QED
    BY <2>1, <2>2, <2>4, <2>5, ZenonT(60)
<1>2. ASSUME NEW e \in Conn, HandlePing1(e)
      PROVE  Goal
  <2>1. e[1] \in Node /\ e[2] \in Node /\ e[1] \in peers[e[2]]
    BY <1>2, LinkFacts DEF HandlePing1
  <2>2. peers' = [peers EXCEPT ![e[1]] = @ \cup {e[2]}] /\ app' = app
    BY <1>2 DEF HandlePing1
  <2>3. \A n, m \in Node : m \in peers'[n] <=> m \in peers[n] \/ (n = e[1] /\ m = e[2])
    BY <2>1, <2>2
  <2>4. ASSUME NEW d \in Conn, d[2] \in peers'[d[1]]
        PROVE  d[1] \in peers'[d[2]]
    <3>1. d[1] \in Node /\ d[2] \in Node
      BY LinkFacts
    <3>2. d[2] \in peers[d[1]] \/ (d[1] = e[1] /\ d[2] = e[2])
      BY <2>3, <2>4, <3>1
    <3>3. d[1] \in peers[d[2]]
      BY <2>1, <3>2
    <3>4. QED
      BY <2>3, <3>1, <3>3
  <2>5. \A d \in Conn : app'[d[1]] # "connect" => d[2] \in peers'[d[1]]
    BY <2>2, <2>3, LinkFacts
  <2>6. QED
    BY <2>1, <2>2, <2>4, <2>5, ZenonT(60)
<1>3. ASSUME NEW n \in Node, WriteConnInfo(n)
      PROVE  Goal
  BY <1>3, LinkFacts DEF WriteConnInfo, Move
<1>4. ASSUME NEW n \in Node, ReadConnInfo(n)
      PROVE  Goal
  BY <1>4, LinkFacts DEF ReadConnInfo, Move
<1>5. ASSUME UNCHANGED peers,
             \A n \in Node : \/ app'[n] = app[n]
                             \/ {app[n], app'[n]} \cap {"connect", "conn_info"} = {}
      PROVE  Goal
  <2>1. \A n \in Node : /\ app'[n] = "connect" <=> app[n] = "connect"
                        /\ app'[n] \in {"connect", "conn_info"} <=> app[n] \in {"connect", "conn_info"}
    BY <1>5
  <2>2. QED
    BY <1>5, <2>1, LinkFacts
<1>6. ASSUME NEW n \in Node, StoreOwn(n) \/ BcastOwn(n) \/ CountOwn(n) \/ CheckTables(n)
               \/ WriteSync(n) \/ ReadSync(n) \/ SpuriousWakeup(n)
      PROVE  Goal
  BY <1>5, <1>6
     DEF StoreOwn, BcastOwn, CountOwn, CheckTables, WriteSync, ReadSync, SpuriousWakeup, Move
<1>7. ASSUME NEW c \in Link, RecvTable(c)
      PROVE  Goal
  BY <1>5, <1>7, LinkFacts, SMTT(30) DEF RecvTable, RegisterTable, Wake
<1>8. ASSUME NEW n, HandleBcast(n) \/ ForwardLocal(n) \/ SendData(n) \/ RecvData(n)
               \/ Done \/ UNCHANGED vars
      PROVE  Goal
  BY <1>5, <1>8 DEF HandleBcast, ForwardLocal, SendData, RecvData, Done, vars
<1>9. QED
  BY <1>1, <1>2, <1>3, <1>4, <1>6, <1>7, <1>8 DEF Next, Application

(***************************************************************************)
(* Whoever leaves the exchange has counted the tables of all nodes.        *)
(***************************************************************************)
LEMMA CompleteStep ==
  ASSUME IInv, [Next]_vars
  PROVE  ExchangeComplete'
<1>. USE DEF IInv, TypeOK, ExchangeComplete
<1>1. ASSUME NEW n \in Node, CheckTables(n)
      PROVE  ExchangeComplete'
  <2>1. CASE num_rts[n] < Cardinality(Node)
    BY <1>1, <2>1 DEF CheckTables, Move
  <2>2. CASE ~(num_rts[n] < Cardinality(Node))
    <3>1. app[n] \notin {"bcast", "count"}
      BY <1>1 DEF CheckTables, Move
    <3>2. Cardinality(rts[n]) = num_rts[n]
      BY <3>1, TableSets DEF CountMatches
    <3>3. rts[n] = Node
      BY <2>2, <3>2, TableSets
    <3>4. QED
      BY <1>1, <3>3 DEF CheckTables, Move
  <2>3. QED
    BY <2>1, <2>2
<1>2. ASSUME NEW n \in Node, WriteConnInfo(n) \/ ReadConnInfo(n) \/ StoreOwn(n) \/ BcastOwn(n)
               \/ CountOwn(n) \/ WriteSync(n) \/ ReadSync(n) \/ SpuriousWakeup(n)
      PROVE  ExchangeComplete'
  BY <1>2 DEF WriteConnInfo, ReadConnInfo, StoreOwn, BcastOwn, CountOwn, WriteSync, ReadSync,
              SpuriousWakeup, Move
<1>3. ASSUME NEW c \in Link, RecvTable(c)
      PROVE  ExchangeComplete'
  <2>1. c[2] \in Node /\ Head(wire[c]).src \in Node
    BY <1>3, LinkFacts, TailFacts, MsgFacts DEF RecvTable
  <2>2. QED
    BY <1>3, <2>1, ZenonT(60) DEF RecvTable, RegisterTable, Wake
<1>4. ASSUME UNCHANGED <<rts, app>>
      PROVE  ExchangeComplete'
  BY <1>4
<1>5. ASSUME NEW n, HandlePing0(n) \/ HandlePing1(n) \/ HandleBcast(n) \/ ForwardLocal(n)
               \/ SendData(n) \/ RecvData(n) \/ Done \/ UNCHANGED vars
      PROVE  UNCHANGED <<rts, app>>
  BY <1>5 DEF HandlePing0, HandlePing1, HandleBcast, ForwardLocal, SendData, RecvData, Done, vars
<1>6. QED
  BY <1>1, <1>2, <1>3, <1>4, <1>5 DEF Next, Application

-----------------------------------------------------------------------------
(***************************************************************************)
(* What is on a channel after a step was there, or waited in the notify    *)
(* pipe of its sender, or is a chunk on its way.                           *)
(***************************************************************************)
OnTheWire(w, c) ==
  \A i \in DOMAIN w :
    \/ \E j \in DOMAIN wire[c] : w[i] = wire[c][j]
    \/ \E j \in DOMAIN pipe[c[1]] : w[i] = Table(pipe[c[1]][j])
    \/ \E x \in sent : OnPath(x, c[2]) /\ w[i] = Chunk(x)

LEMMA WireTail ==
  ASSUME IInv, NEW c \in Link, wire[c] # <<>>
  PROVE  Tail(wire[c]) \in Seq(Msg) /\ OnTheWire(Tail(wire[c]), c)
<1>1. wire[c] \in Seq(Msg)
  BY DEF IInv, TypeOK
<1>2. QED
  BY <1>1, TailFacts DEF OnTheWire

LEMMA WireChunk ==
  ASSUME IInv, NEW c \in Link, NEW w \in Seq(Msg), OnTheWire(w, c), NEW x \in sent, OnPath(x, c[2])
  PROVE  Append(w, Chunk(x)) \in Seq(Msg) /\ OnTheWire(Append(w, Chunk(x)), c)
<1>1. Chunk(x) \in Msg
  BY MsgFacts DEF IInv, TypeOK
<1>2. QED
  BY <1>1, AppendFacts DEF OnTheWire

(***************************************************************************)
(* The chunk a node forwards, and where to.                                *)
(***************************************************************************)
LEMMA LocalHop ==
  ASSUME IInv, NEW n \in Node, local[n] # <<>>
  PROVE  /\ Head(local[n]) \in sent /\ Head(local[n]) \in Sends /\ Head(local[n])[1] = n
         /\ OnPath(Head(local[n]), n)
<1>1. local[n] \in Seq(Sends)
  BY DEF IInv, TypeOK
<1>2. Head(local[n]) = local[n][1] /\ 1 \in DOMAIN local[n] /\ Head(local[n]) \in Sends
  BY <1>1, TailFacts
<1>3. Head(local[n]) \in sent /\ Head(local[n])[1] = n
  BY <1>2 DEF IInv, DataAfterTables
<1>4. OnPath(Head(local[n]), n)
  BY <1>2, <1>3, RouteExchangeAssumption DEF OnPath
<1>5. QED
  BY <1>2, <1>3, <1>4

LEMMA WireHop ==
  ASSUME IInv, NEW c \in Link, wire[c] # <<>>
  PROVE  /\ Head(wire[c]) \in Msg /\ Head(wire[c]) = wire[c][1] /\ 1 \in DOMAIN wire[c]
         /\ Head(wire[c]).kind = "RT" =>
              /\ Head(wire[c]).src \in Node /\ Head(wire[c]) = Table(Head(wire[c]).src)
              /\ Head(wire[c]).src \in rts[c[1]] /\ app[Head(wire[c]).src] \in HasBroadcast
         /\ Head(wire[c]).kind = "DATA" =>
              /\ Head(wire[c]).msg \in sent /\ Head(wire[c]).msg \in Sends
              /\ OnPath(Head(wire[c]).msg, c[2])
<1>1. wire[c] \in Seq(Msg) /\ sent \subseteq Sends
  BY DEF IInv, TypeOK
<1>2. Head(wire[c]) = wire[c][1] /\ 1 \in DOMAIN wire[c] /\ Head(wire[c]) \in Msg
  BY <1>1, TailFacts
<1>3. QED
  BY <1>1, <1>2, MsgFacts DEF IInv, TablesKnown, DataAfterTables

LEMMA WireStep ==
  ASSUME IInv, [Next]_vars
  PROVE  /\ wire' \in [Link -> Seq(Msg)]
         /\ \A c \in Link : OnTheWire(wire'[c], c)
<1>. DEFINE Goal == /\ wire' \in [Link -> Seq(Msg)]
                    /\ \A c \in Link : OnTheWire(wire'[c], c)
<1>0. /\ wire \in [Link -> Seq(Msg)] /\ pipe \in [Node -> Seq(Node)]
      /\ \A c \in Link : OnTheWire(wire[c], c)
  BY DEF IInv, TypeOK, OnTheWire
<1>1. ASSUME NEW n \in Node, HandleBcast(n)
      PROVE  Goal
  <2>. DEFINE s == Head(pipe[n])
  <2>1. pipe[n] # <<>>
    BY <1>1 DEF HandleBcast
  <2>2. s = pipe[n][1] /\ 1 \in DOMAIN pipe[n] /\ s \in Node
    BY <1>0, <2>1, TailFacts
  <2>3. wire' = [c \in Link |-> IF c[1] = n /\ c[2] \in peers[n]
                                THEN Append(wire[c], Table(s)) ELSE wire[c]]
    BY <1>1 DEF HandleBcast
  <2>4. ASSUME NEW c \in Link, c[1] = n
        PROVE  Append(wire[c], Table(s)) \in Seq(Msg) /\ OnTheWire(Append(wire[c], Table(s)), c)
    <3>. DEFINE t == Table(s)
                w == Append(wire[c], t)
    <3>1. t \in Msg /\ wire[c] \in Seq(Msg)
      BY <1>0, <2>2, MsgFacts
    <3>2. \E j \in DOMAIN pipe[c[1]] : t = Table(pipe[c[1]][j])
      BY <2>2, <2>4
    <3>. HIDE DEF s, t
    <3>3. /\ w \in Seq(Msg) /\ DOMAIN w = DOMAIN wire[c] \cup {Len(wire[c]) + 1}
          /\ \A i \in DOMAIN wire[c] : w[i] = wire[c][i]
          /\ w[Len(wire[c]) + 1] = t
      BY <3>1, AppendFacts
    <3>. HIDE DEF w
    <3>4. OnTheWire(w, c)
      BY <3>2, <3>3 DEF OnTheWire
    <3>5. QED
      BY <3>3, <3>4 DEF w, t
  <2>. HIDE DEF s
  <2>5. QED
    BY <1>0, <2>3, <2>4
<1>2. ASSUME NEW n \in Node, ForwardLocal(n)
      PROVE  Goal
  <2>. DEFINE x == Head(local[n])
              d == <<n, comm_node_lookup_rt(n, x)>>
  <2>1. local[n] # <<>> /\ CanRoute(n, x) /\ wire' = [wire EXCEPT ![d] = Append(@, Chunk(x))]
    BY <1>2 DEF ForwardLocal
  <2>2. x \in sent /\ x \in Sends /\ OnPath(x, n) /\ x[1] = n
    BY <2>1, LocalHop
  <2>. HIDE DEF x
  <2>3. d \in Link /\ OnPath(x, d[2])
    BY <2>2, NextHop
  <2>. HIDE DEF d
  <2>4. Append(wire[d], Chunk(x)) \in Seq(Msg) /\ OnTheWire(Append(wire[d], Chunk(x)), d)
    BY <1>0, <2>2, <2>3, WireChunk
  <2>5. QED
    BY <1>0, <2>1, <2>3, <2>4
<1>3. ASSUME NEW c \in Link, RecvTable(c)
      PROVE  Goal
  BY <1>0, <1>3, WireTail DEF RecvTable
<1>4. ASSUME NEW c \in Link, RecvData(c)
      PROVE  Goal
  <2>. DEFINE x == Head(wire[c]).msg
              n == c[2]
              d == <<n, comm_node_lookup_rt(n, x)>>
              w == [wire EXCEPT ![c] = Tail(@)]
  <2>1. wire[c] # <<>> /\ Head(wire[c]).kind = "DATA"
    BY <1>4 DEF RecvData
  <2>2. x \in sent /\ x \in Sends /\ OnPath(x, n)
    BY <2>1, WireHop
  <2>3. w \in [Link -> Seq(Msg)] /\ \A e \in Link : OnTheWire(w[e], e)
    BY <1>0, <2>1, WireTail
  <2>4. \/ wire' = w
        \/ wire' = [w EXCEPT ![d] = Append(@, Chunk(x))] /\ x[2] # n
    <3>1. \/ wire' = w
          \/ /\ wire' = [wire EXCEPT ![c] = Tail(@), ![d] = Append(@, Chunk(x))]
             /\ x[2] # n
      BY <1>4 DEF RecvData
    <3>2. d # c
      BY LinkFacts, RouteExchangeAssumption DEF Link
    <3>. HIDE DEF x, d
    <3>3. [wire EXCEPT ![c] = Tail(@), ![d] = Append(@, Chunk(x))]
            = [w EXCEPT ![d] = Append(@, Chunk(x))]
      BY <1>0, <3>2
    <3>4. QED
      BY <3>1, <3>3, Zenon
  <2>5. CASE wire' = w
    BY <2>3, <2>5
  <2>6. CASE wire' = [w EXCEPT ![d] = Append(@, Chunk(x))] /\ x[2] # n
    <3>1. d \in Link /\ OnPath(x, d[2])
      BY <2>2, <2>6, NextHop, LinkFacts
    <3>. HIDE DEF d, w, x
    <3>2. Append(w[d], Chunk(x)) \in Seq(Msg) /\ OnTheWire(Append(w[d], Chunk(x)), d)
      BY <2>2, <2>3, <3>1, WireChunk
    <3>3. QED
      BY <2>3, <2>6, <3>1, <3>2
  <2>7. QED
    BY <2>4, <2>5, <2>6
<1>5. ASSUME UNCHANGED wire
      PROVE  Goal
  BY <1>0, <1>5
<1>6. ASSUME NEW n, HandlePing0(n) \/ HandlePing1(n) \/ Application(n) \/ SpuriousWakeup(n)
               \/ SendData(n) \/ Done \/ UNCHANGED vars
      PROVE  UNCHANGED wire
  BY <1>6 DEF HandlePing0, HandlePing1, Application, SpuriousWakeup, SendData, Done, vars,
     WriteConnInfo, ReadConnInfo, StoreOwn, BcastOwn, CountOwn, CheckTables, WriteSync, ReadSync
<1>7. QED
  BY <1>1, <1>2, <1>3, <1>4, <1>5, <1>6 DEF Next

(***************************************************************************)
(* What is in a notify pipe after a step was there, is the own table that  *)
(* is broadcast now, or a new table that was just received.                *)
(***************************************************************************)
LEMMA PipeStep ==
  ASSUME IInv, [Next]_vars
  PROVE  /\ pipe' \in [Node -> Seq(Node)]
         /\ \A n \in Node : \A i \in DOMAIN pipe'[n] :
              \/ \E j \in DOMAIN pipe[n] : pipe'[n][i] = pipe[n][j]
              \/ pipe'[n][i] = n /\ n \in rts[n] /\ app'[n] = "count"
              \/ /\ pipe'[n][i] \in rts'[n]
                 /\ \E c \in Link : wire[c] # <<>> /\ Head(wire[c]).kind = "RT"
                                    /\ Head(wire[c]).src = pipe'[n][i]
<1>. DEFINE Origin(n, i) ==
              \/ \E j \in DOMAIN pipe[n] : pipe'[n][i] = pipe[n][j]
              \/ pipe'[n][i] = n /\ n \in rts[n] /\ app'[n] = "count"
              \/ /\ pipe'[n][i] \in rts'[n]
                 /\ \E c \in Link : wire[c] # <<>> /\ Head(wire[c]).kind = "RT"
                                    /\ Head(wire[c]).src = pipe'[n][i]
            Goal == /\ pipe' \in [Node -> Seq(Node)]
                    /\ \A n \in Node : \A i \in DOMAIN pipe'[n] : Origin(n, i)
<1>0. /\ pipe \in [Node -> Seq(Node)] /\ rts \in [Node -> SUBSET Node]
      /\ app \in [Node -> {"connect", "conn_info", "compute", "bcast", "count", "check",
                            "cond_wait", "exchanged", "sync", "send"}]
  BY DEF IInv, TypeOK
<1>1. ASSUME NEW n \in Node, BcastOwn(n)
      PROVE  Goal
  <2>1. pipe' = [pipe EXCEPT ![n] = Append(@, n)] /\ app'[n] = "count" /\ app[n] = "bcast"
    BY <1>0, <1>1 DEF BcastOwn, Move
  <2>2. n \in rts[n]
    BY <2>1 DEF IInv, TablesKnown
  <2>3. pipe'[n] = Append(pipe[n], n) /\ \A m \in Node : m # n => pipe'[m] = pipe[m]
    BY <1>0, <2>1
  <2>4. ASSUME NEW i \in DOMAIN pipe'[n]
        PROVE  Origin(n, i)
    BY <1>0, <2>1, <2>2, <2>3, <2>4, AppendFacts
  <2>5. pipe' \in [Node -> Seq(Node)]
    BY <1>0, <2>1, AppendFacts
  <2>6. QED
    BY <2>3, <2>4, <2>5, ZenonT(60)
<1>2. ASSUME NEW n \in Node, HandleBcast(n)
      PROVE  Goal
  <2>1. pipe' = [pipe EXCEPT ![n] = Tail(@)] /\ pipe[n] # <<>>
    BY <1>2 DEF HandleBcast
  <2>2. pipe'[n] = Tail(pipe[n]) /\ \A m \in Node : m # n => pipe'[m] = pipe[m]
    BY <1>0, <2>1
  <2>3. ASSUME NEW i \in DOMAIN pipe'[n]
        PROVE  Origin(n, i)
    <3>1. i + 1 \in DOMAIN pipe[n] /\ pipe'[n][i] = pipe[n][i + 1]
      BY <1>0, <2>1, <2>2, <2>3, TailFacts
    <3>2. QED
      BY <3>1
  <2>4. pipe' \in [Node -> Seq(Node)]
    BY <1>0, <2>1, TailFacts
  <2>5. QED
    BY <2>2, <2>3, <2>4
<1>3. ASSUME NEW c \in Link, RecvTable(c)
      PROVE  Goal
  <2>. DEFINE n == c[2]
              s == Head(wire[c]).src
  <2>1. wire[c] # <<>> /\ Head(wire[c]).kind = "RT"
    BY <1>3 DEF RecvTable
  <2>2. s \in Node /\ n \in Node
    BY <2>1, WireHop, LinkFacts
  <2>3. CASE s \in rts[n]
    BY <1>0, <1>3, <2>3 DEF RecvTable, RegisterTable
  <2>4. CASE s \notin rts[n]
    <3>1. pipe' = [pipe EXCEPT ![n] = Append(@, s)] /\ rts' = [rts EXCEPT ![n] = @ \cup {s}]
      BY <1>3, <2>4 DEF RecvTable, RegisterTable
    <3>2. s \in rts'[n]
      BY <1>0, <2>2, <3>1
    <3>3. pipe'[n] = Append(pipe[n], s) /\ \A m \in Node : m # n => pipe'[m] = pipe[m]
      BY <1>0, <2>2, <3>1
    <3>. HIDE DEF n
    <3>4. ASSUME NEW i \in DOMAIN pipe'[n]
          PROVE  Origin(n, i)
      <4>1. CASE i \in DOMAIN pipe[n]
        BY <1>0, <2>2, <3>3, <4>1, AppendFacts
      <4>2. CASE i \notin DOMAIN pipe[n]
        <5>1. pipe'[n][i] = s
          BY <1>0, <2>2, <3>3, <3>4, <4>2, AppendFacts
        <5>2. QED
          BY <2>1, <3>2, <5>1
      <4>3. QED
        BY <4>1, <4>2
    <3>5. pipe' \in [Node -> Seq(Node)]
      BY <1>0, <2>2, <3>1, AppendFacts
    <3>6. QED
      BY <3>3, <3>4, <3>5, ZenonT(60)
  <2>5. QED
    BY <2>3, <2>4
<1>4. ASSUME UNCHANGED pipe
      PROVE  Goal
  BY <1>0, <1>4
<1>5. ASSUME NEW n, HandlePing0(n) \/ HandlePing1(n) \/ SpuriousWakeup(n) \/ ForwardLocal(n)
               \/ RecvData(n) \/ SendData(n) \/ Done \/ UNCHANGED vars
      PROVE  UNCHANGED pipe
  BY <1>5 DEF HandlePing0, HandlePing1, SpuriousWakeup, ForwardLocal, RecvData, SendData, Done, vars
<1>6. ASSUME NEW n, Application(n), ~BcastOwn(n)
      PROVE  UNCHANGED pipe
  BY <1>6 DEF Application, WriteConnInfo, ReadConnInfo, StoreOwn, CountOwn, CheckTables,
              WriteSync, ReadSync
<1>7. QED
  BY <1>1, <1>2, <1>3, <1>4, <1>5, <1>6 DEF Next

(***************************************************************************)
(* Tables stay, and a node that has broadcast its own has.                 *)
(***************************************************************************)
LEMMA TablesStay ==
  ASSUME IInv, [Next]_vars, NEW n \in Node
  PROVE  /\ rts[n] \subseteq rts'[n]
         /\ app[n] \in HasBroadcast => app'[n] \in HasBroadcast
         /\ app[n] \in {"bcast"} \cup HasBroadcast => app'[n] \in {"bcast"} \cup HasBroadcast
         /\ n \in rts'[n] => n \in rts[n] \/ app'[n] \in {"bcast"} \cup HasBroadcast
         /\ app'[n] \in {"bcast"} \cup HasBroadcast =>
           app[n] \in {"bcast"} \cup HasBroadcast \/ n \in rts'[n]
         /\ \A t \in rts'[n] : t \in rts[n] \/ t = n \/ app[t] \in HasBroadcast
<1>. DEFINE Goal ==
         /\ rts[n] \subseteq rts'[n]
         /\ app[n] \in HasBroadcast => app'[n] \in HasBroadcast
         /\ app[n] \in {"bcast"} \cup HasBroadcast => app'[n] \in {"bcast"} \cup HasBroadcast
         /\ n \in rts'[n] => n \in rts[n] \/ app'[n] \in {"bcast"} \cup HasBroadcast
         /\ app'[n] \in {"bcast"} \cup HasBroadcast =>
           app[n] \in {"bcast"} \cup HasBroadcast \/ n \in rts'[n]
         /\ \A t \in rts'[n] : t \in rts[n] \/ t = n \/ app[t] \in HasBroadcast
<1>. USE DEF HasBroadcast, Waiting, Exchanged
<1>0. /\ rts \in [Node -> SUBSET Node]
      /\ app \in [Node -> {"connect", "conn_info", "compute", "bcast", "count", "check",
                            "cond_wait", "exchanged", "sync", "send"}]
  BY DEF IInv, TypeOK
<1>1. ASSUME NEW m \in Node, Application(m) \/ SpuriousWakeup(m)
      PROVE  Goal
  <2>1. CASE StoreOwn(m)
    BY <1>0, <2>1 DEF StoreOwn, Move
  <2>2. CASE ~StoreOwn(m)
    BY <1>0, <1>1, <2>2 DEF Application, WriteConnInfo, ReadConnInfo, BcastOwn, CountOwn, CheckTables,
              WriteSync, ReadSync, SpuriousWakeup, Move
  <2>3. QED
    BY <2>1, <2>2
<1>2. ASSUME NEW c \in Link, RecvTable(c)
      PROVE  Goal
  <2>. DEFINE s == Head(wire[c]).src
  <2>1. wire[c] # <<>> /\ Head(wire[c]).kind = "RT"
    BY <1>2 DEF RecvTable
  <2>2. s \in Node /\ c[2] \in Node /\ app[s] \in HasBroadcast /\ s \in rts[c[1]]
    BY <2>1, WireHop, LinkFacts
  <2>. HIDE DEF s
  <2>3. n = s => n \in rts[n]
    BY <1>0, <2>2 DEF IInv, TablesKnown
  <2>4. CASE s \in rts[c[2]]
    BY <1>0, <1>2, <2>4 DEF RecvTable, RegisterTable, s
  <2>5. CASE s \notin rts[c[2]]
    <3>1. rts' = [rts EXCEPT ![c[2]] = @ \cup {s}]
      BY <1>2, <2>5 DEF RecvTable, RegisterTable, s
    <3>2. app' = [app EXCEPT ![c[2]] = IF @ = "cond_wait" THEN "check" ELSE @]
      BY <1>2, <2>5 DEF RecvTable, RegisterTable, Wake, s
    <3>3. app[n] \in {"bcast"} \cup HasBroadcast <=> app'[n] \in {"bcast"} \cup HasBroadcast
      BY <1>0, <2>2, <3>2
    <3>4. app[n] \in HasBroadcast <=> app'[n] \in HasBroadcast
      BY <1>0, <2>2, <3>2
    <3>5. \A t \in rts'[n] : t \in rts[n] \/ t = s
      BY <1>0, <2>2, <3>1
    <3>6. rts[n] \subseteq rts'[n]
      BY <1>0, <2>2, <3>1
    <3>7. \A t \in rts'[n] : t \in rts[n] \/ t = n \/ app[t] \in HasBroadcast
      BY <2>2, <3>5
    <3>8. n \in rts'[n] => n \in rts[n]
      BY <2>3, <3>5
    <3>. HIDE DEF HasBroadcast
    <3>9. QED
      BY <3>3, <3>4, <3>6, <3>7, <3>8
  <2>6. QED
    BY <2>4, <2>5
<1>3. ASSUME UNCHANGED <<rts, app>>
      PROVE  Goal
  BY <1>0, <1>3 DEF IInv, TablesKnown
<1>4. ASSUME NEW m, HandlePing0(m) \/ HandlePing1(m) \/ HandleBcast(m) \/ ForwardLocal(m)
               \/ SendData(m) \/ RecvData(m) \/ Done \/ UNCHANGED vars
      PROVE  UNCHANGED <<rts, app>>
  BY <1>4 DEF HandlePing0, HandlePing1, HandleBcast, ForwardLocal, SendData, RecvData, Done, vars
<1>. HIDE DEF Goal
<1>5. Goal
  BY <1>1, <1>2, <1>3, <1>4 DEF Next
<1>6. QED
  BY <1>5 DEF Goal

LEMMA TablesKnownStep ==
  ASSUME IInv, [Next]_vars
  PROVE  TablesKnown'
<1>. USE TablesStay
<1>1. /\ rts \in [Node -> SUBSET Node] /\ rts' \in [Node -> SUBSET Node]
      /\ pipe \in [Node -> Seq(Node)] /\ TablesKnown
  BY CountStep DEF IInv, TypeOK
<1>2. ASSUME NEW n \in Node
      PROVE  n \in rts'[n] <=> app'[n] \in {"bcast"} \cup HasBroadcast
  <2>1. n \in rts[n] <=> app[n] \in {"bcast"} \cup HasBroadcast
    BY <1>1 DEF TablesKnown
  <2>2. QED
    BY <2>1
<1>3. ASSUME NEW n \in Node, NEW s \in rts'[n], s # n
      PROVE  app'[s] \in HasBroadcast
  <2>1. s \in Node
    BY <1>1
  <2>2. app[s] \in HasBroadcast
    BY <1>1, <1>3 DEF TablesKnown
  <2>3. QED
    BY <2>1, <2>2
<1>4. ASSUME NEW n \in Node, NEW i \in DOMAIN pipe'[n]
      PROVE  pipe'[n][i] \in rts'[n] /\ app'[pipe'[n][i]] \in HasBroadcast
  <2>1. CASE \E j \in DOMAIN pipe[n] : pipe'[n][i] = pipe[n][j]
    <3>1. PICK j \in DOMAIN pipe[n] : pipe'[n][i] = pipe[n][j]
      BY <2>1
    <3>2. pipe[n][j] \in rts[n] /\ app[pipe[n][j]] \in HasBroadcast
      BY <1>1 DEF TablesKnown
    <3>3. pipe[n][j] \in Node
      BY <1>1, <3>2
    <3>4. QED
      BY <3>1, <3>2, <3>3
  <2>2. CASE pipe'[n][i] = n /\ n \in rts[n] /\ app'[n] = "count"
    BY <2>2 DEF HasBroadcast
  <2>3. CASE /\ pipe'[n][i] \in rts'[n]
             /\ \E c \in Link : wire[c] # <<>> /\ Head(wire[c]).kind = "RT"
                                /\ Head(wire[c]).src = pipe'[n][i]
    <3>1. app[pipe'[n][i]] \in HasBroadcast /\ pipe'[n][i] \in Node
      BY <2>3, WireHop
    <3>2. QED
      BY <2>3, <3>1
  <2>4. QED
    BY <2>1, <2>2, <2>3, PipeStep
<1>5. ASSUME NEW c \in Link, NEW i \in DOMAIN wire'[c], wire'[c][i].kind = "RT"
      PROVE  wire'[c][i].src \in rts'[c[1]] /\ app'[wire'[c][i].src] \in HasBroadcast
  <2>1. c[1] \in Node
    BY LinkFacts
  <2>2. SUFFICES ASSUME NEW s, s \in rts[c[1]], app[s] \in HasBroadcast, wire'[c][i].src = s
                 PROVE  s \in rts'[c[1]] /\ app'[s] \in HasBroadcast
    <3>1. CASE \E j \in DOMAIN wire[c] : wire'[c][i] = wire[c][j]
      BY <1>1, <1>5, <3>1 DEF TablesKnown
    <3>2. CASE \E j \in DOMAIN pipe[c[1]] : wire'[c][i] = Table(pipe[c[1]][j])
      <4>1. PICK j \in DOMAIN pipe[c[1]] : wire'[c][i] = Table(pipe[c[1]][j])
        BY <3>2
      <4>2. pipe[c[1]][j] \in rts[c[1]] /\ app[pipe[c[1]][j]] \in HasBroadcast
        BY <1>1, <2>1 DEF TablesKnown
      <4>3. pipe[c[1]][j] \in Node
        BY <1>1, <2>1, <4>2
      <4>4. QED
        BY <4>1, <4>2, <4>3, MsgFacts
    <3>3. CASE \E x \in sent : OnPath(x, c[2]) /\ wire'[c][i] = Chunk(x)
      BY <1>5, <3>3 DEF Chunk
    <3>4. QED
      BY <3>1, <3>2, <3>3, WireStep DEF OnTheWire
  <2>3. s \in Node
    BY <1>1, <2>1, <2>2
  <2>4. QED
    BY <2>1, <2>2, <2>3
<1>6. QED
  BY <1>2, <1>3, <1>4, <1>5 DEF TablesKnown

-----------------------------------------------------------------------------
(***************************************************************************)
(* Data.                                                                   *)
(***************************************************************************)
LEMMA SentStep ==
  ASSUME IInv, [Next]_vars
  PROVE  /\ local' \in [Node -> Seq(Sends)] /\ sent' \subseteq Sends /\ got' \subseteq sent'
         /\ sent \subseteq sent'
         /\ \A n, m \in Node : app'[n] = "send" => app'[m] \in {"sync", "send"}
         /\ \A x \in sent' : app'[x[1]] = "send"
         /\ \A n \in Node : \A i \in DOMAIN local'[n] :
              local'[n][i] \in sent' /\ local'[n][i][1] = n
<1>. DEFINE Goal ==
         /\ local' \in [Node -> Seq(Sends)] /\ sent' \subseteq Sends /\ got' \subseteq sent'
         /\ sent \subseteq sent'
         /\ \A n, m \in Node : app'[n] = "send" => app'[m] \in {"sync", "send"}
         /\ \A x \in sent' : app'[x[1]] = "send"
         /\ \A n \in Node : \A i \in DOMAIN local'[n] :
              local'[n][i] \in sent' /\ local'[n][i][1] = n
<1>0. /\ local \in [Node -> Seq(Sends)] /\ sent \subseteq Sends /\ got \subseteq sent
      /\ app \in [Node -> {"connect", "conn_info", "compute", "bcast", "count", "check",
                            "cond_wait", "exchanged", "sync", "send"}]
      /\ \A x \in Sends : x[1] \in Node
      /\ DataAfterTables
  BY RouteExchangeAssumption DEF IInv, TypeOK
<1>. USE DEF DataAfterTables
<1>1. ASSUME UNCHANGED <<local, sent, got>>,
             \A n \in Node : app[n] \in {"sync", "send"} => app'[n] \in {"sync", "send"},
             \A n \in Node : app[n] = "send" => app'[n] = "send",
             \A n \in Node : app'[n] = "send" =>
               app[n] = "send" \/ \A m \in Node : app[m] \in {"sync", "send"}
      PROVE  Goal
  BY <1>0, <1>1
<1>2. ASSUME NEW n \in Node, Application(n) \/ SpuriousWakeup(n)
      PROVE  Goal
  <2>1. CASE ReadSync(n)
    BY <1>0, <1>1, <2>1 DEF ReadSync, Move
  <2>2. CASE ~ReadSync(n)
    BY <1>0, <1>1, <1>2, <2>2
       DEF Application, WriteConnInfo, ReadConnInfo, StoreOwn, BcastOwn, CountOwn, CheckTables,
           WriteSync, SpuriousWakeup, Move
  <2>3. QED
    BY <2>1, <2>2
<1>3. ASSUME NEW c \in Link, RecvTable(c)
      PROVE  Goal
  BY <1>0, <1>1, <1>3, LinkFacts DEF RecvTable, RegisterTable, Wake
<1>4. ASSUME NEW x \in Sends, SendData(x)
      PROVE  Goal
  <2>. DEFINE n == x[1]
  <2>1. /\ sent' = sent \cup {x} /\ local' = [local EXCEPT ![n] = Append(@, x)]
        /\ app[n] = "send" /\ app' = app /\ got' = got /\ n \in Node
    BY <1>0, <1>4 DEF SendData
  <2>2. local'[n] = Append(local[n], x) /\ \A m \in Node : m # n => local'[m] = local[m]
    BY <1>0, <2>1
  <2>3. \A i \in DOMAIN local'[n] : local'[n][i] \in sent' /\ local'[n][i][1] = n
    BY <1>0, <2>1, <2>2, AppendFacts
  <2>4. local' \in [Node -> Seq(Sends)]
    BY <1>0, <2>1, AppendFacts
  <2>. HIDE DEF n
  <2>5. \A m \in Node : \A i \in DOMAIN local'[m] : local'[m][i] \in sent' /\ local'[m][i][1] = m
    BY <1>0, <2>1, <2>2, <2>3
  <2>6. QED
    BY <1>0, <2>1, <2>4, <2>5 DEF n
<1>5. ASSUME NEW n \in Node, ForwardLocal(n)
      PROVE  Goal
  <2>1. /\ local' = [local EXCEPT ![n] = Tail(@)] /\ local[n] # <<>>
        /\ UNCHANGED <<app, sent, got>>
    BY <1>5 DEF ForwardLocal
  <2>2. local' \in [Node -> Seq(Sends)]
    BY <1>0, <2>1, TailFacts
  <2>3. local'[n] = Tail(local[n]) /\ \A m \in Node : m # n => local'[m] = local[m]
    BY <1>0, <2>1
  <2>4. \A i \in DOMAIN local'[n] : local'[n][i] \in sent' /\ local'[n][i][1] = n
    BY <1>0, <2>1, <2>3, TailFacts
  <2>5. QED
    BY <1>0, <2>1, <2>2, <2>3, <2>4
<1>6. ASSUME NEW c \in Link, RecvData(c)
      PROVE  Goal
  <2>1. wire[c] # <<>> /\ Head(wire[c]).kind = "DATA" /\ UNCHANGED <<app, local, sent>>
    BY <1>6 DEF RecvData
  <2>2. Head(wire[c]).msg \in sent
    BY <2>1, WireHop
  <2>3. got' \subseteq sent
    BY <1>0, <1>6, <2>2 DEF RecvData
  <2>4. QED
    BY <1>0, <2>1, <2>3
<1>7. ASSUME NEW n, HandlePing0(n) \/ HandlePing1(n) \/ HandleBcast(n) \/ Done \/ UNCHANGED vars
      PROVE  Goal
  BY <1>0, <1>1, <1>7 DEF HandlePing0, HandlePing1, HandleBcast, Done, vars
<1>. HIDE DEF Goal
<1>8. Goal
  BY <1>2, <1>3, <1>4, <1>5, <1>6, <1>7 DEF Next
<1>9. QED
  BY <1>8 DEF Goal

LEMMA DataStep ==
  ASSUME IInv, [Next]_vars
  PROVE  DataAfterTables'
<1>1. DataAfterTables /\ pipe \in [Node -> Seq(Node)]
  BY DEF IInv, TypeOK
<1>2. ASSUME NEW c \in Link, NEW i \in DOMAIN wire'[c], wire'[c][i].kind = "DATA"
      PROVE  wire'[c][i].msg \in sent' /\ OnPath(wire'[c][i].msg, c[2])
  <2>1. CASE \E j \in DOMAIN wire[c] : wire'[c][i] = wire[c][j]
    BY <1>1, <1>2, <2>1, SentStep DEF DataAfterTables
  <2>2. CASE \E j \in DOMAIN pipe[c[1]] : wire'[c][i] = Table(pipe[c[1]][j])
    BY <1>2, <2>2 DEF Table
  <2>3. CASE \E x \in sent : OnPath(x, c[2]) /\ wire'[c][i] = Chunk(x)
    BY <2>3, SentStep DEF Chunk
  <2>4. QED
    BY <2>1, <2>2, <2>3, WireStep DEF OnTheWire
<1>3. QED
  BY <1>2, SentStep DEF DataAfterTables, OnPath

-----------------------------------------------------------------------------
(***************************************************************************)
(* The flood: a notify pipe p and a channel w of the same node.            *)
(***************************************************************************)
Once(p, w) ==
  /\ IsInjective(p)
  /\ \A i, j \in DOMAIN w : w[i].kind = "RT" /\ w[i] = w[j] => i = j
  /\ \A i \in DOMAIN w, j \in DOMAIN p : w[i] # Table(p[j])

LEMMA OnceTail ==
  ASSUME NEW p, NEW w \in Seq(Msg), w # <<>>, Once(p, w)
  PROVE  Once(p, Tail(w))
<1>1. \A i \in DOMAIN Tail(w) : i + 1 \in DOMAIN w /\ Tail(w)[i] = w[i + 1]
  BY TailFacts
<1>2. ASSUME NEW i \in DOMAIN Tail(w), NEW j \in DOMAIN Tail(w), Tail(w)[i].kind = "RT",
             Tail(w)[i] = Tail(w)[j]
      PROVE  i = j
  <2>1. i + 1 = j + 1
    BY <1>1, <1>2 DEF Once
  <2>2. QED
    BY <2>1, TailFacts
<1>3. QED
  BY <1>1, <1>2 DEF Once

LEMMA OnceChunk ==
  ASSUME NEW p \in Seq(Node), NEW w \in Seq(Msg), NEW x \in Sends, Once(p, w)
  PROVE  Once(p, Append(w, Chunk(x)))
<1>. DEFINE v == Append(w, Chunk(x))
            k == Len(w) + 1
<1>1. Chunk(x) \in Msg /\ Chunk(x).kind = "DATA"
  BY MsgFacts
<1>2. /\ DOMAIN v = DOMAIN w \cup {k} /\ v[k] = Chunk(x)
      /\ \A i \in DOMAIN w : v[i] = w[i]
  BY <1>1, AppendFacts
<1>3. \A j \in DOMAIN p : Table(p[j]).kind = "RT"
  BY DEF Table
<1>. HIDE DEF v, k
<1>4. \A i \in DOMAIN v : v[i].kind = "RT" => i \in DOMAIN w
  BY <1>1, <1>2
<1>5. \A i, j \in DOMAIN v : v[i].kind = "RT" /\ v[i] = v[j] => i = j
  BY <1>2, <1>4 DEF Once
<1>6. \A i \in DOMAIN v, j \in DOMAIN p : v[i] # Table(p[j])
  BY <1>2, <1>3, <1>4 DEF Once
<1>7. Once(p, v)
  BY <1>5, <1>6 DEF Once
<1>8. QED
  BY <1>7 DEF v

LEMMA OnceNew ==
  ASSUME NEW p \in Seq(Node), NEW w \in Seq(Msg), NEW s \in Node, Once(p, w),
         \A j \in DOMAIN p : p[j] # s,
         \A i \in DOMAIN w : w[i].kind = "RT" => w[i].src # s
  PROVE  Once(Append(p, s), w)
<1>. DEFINE q == Append(p, s)
            k == Len(p) + 1
<1>1. /\ DOMAIN q = DOMAIN p \cup {k} /\ q[k] = s
      /\ \A i \in DOMAIN p : q[i] = p[i]
  BY AppendFacts
<1>2. IsInjective(q)
  BY AppendInjective DEF Once
<1>3. Table(s).kind = "RT" /\ Table(s).src = s
  BY MsgFacts
<1>. HIDE DEF q, k
<1>4. \A i \in DOMAIN w, j \in DOMAIN q : w[i] # Table(q[j])
  BY <1>1, <1>3 DEF Once
<1>5. Once(q, w)
  BY <1>2, <1>4 DEF Once
<1>6. QED
  BY <1>5 DEF q

LEMMA OnceMoved ==
  ASSUME NEW p \in Seq(Node), NEW w \in Seq(Msg), p # <<>>, Once(p, w)
  PROVE  Once(Tail(p), w) /\ Once(Tail(p), Append(w, Table(Head(p))))
<1>. DEFINE s == Head(p)
            q == Tail(p)
            v == Append(w, Table(s))
            k == Len(w) + 1
<1>1. IsInjective(q) /\ \A i \in DOMAIN q : q[i] # s
  BY TailInjective DEF Once
<1>2. /\ s \in Node /\ 1 \in DOMAIN p /\ s = p[1] /\ q \in Seq(Node)
      /\ \A i \in DOMAIN q : i + 1 \in DOMAIN p /\ q[i] = p[i + 1]
  BY TailFacts
<1>3. Once(q, w)
  BY <1>1, <1>2 DEF Once
<1>4. Table(s) \in Msg
  BY <1>2, MsgFacts
<1>5. /\ DOMAIN v = DOMAIN w \cup {k} /\ v[k] = Table(s)
      /\ \A i \in DOMAIN w : v[i] = w[i]
  BY <1>4, AppendFacts
<1>6. \A i \in DOMAIN w : w[i] # Table(s)
  BY <1>2 DEF Once
<1>7. \A j \in DOMAIN q : Table(q[j]) # Table(s)
  BY <1>1 DEF Table
<1>. HIDE DEF s, q, v, k
<1>8. \A i, j \in DOMAIN v : v[i].kind = "RT" /\ v[i] = v[j] => i = j
  BY <1>3, <1>5, <1>6 DEF Once
<1>9. \A i \in DOMAIN v, j \in DOMAIN q : v[i] # Table(q[j])
  BY <1>3, <1>5, <1>7 DEF Once
<1>10. Once(q, v)
  BY <1>1, <1>8, <1>9 DEF Once
<1>11. QED
  BY <1>3, <1>10 DEF s, q, v

LEMMA FloodStep ==
  ASSUME IInv, [Next]_vars
  PROVE  FloodOnce'
<1>0. /\ pipe \in [Node -> Seq(Node)] /\ wire \in [Link -> Seq(Msg)]
      /\ \A c \in Link : Once(pipe[c[1]], wire[c])
      /\ \A c \in Link : c[1] \in Node
  BY LinkFacts DEF IInv, TypeOK, FloodOnce, Once
<1>. SUFFICES \A c \in Link : Once(pipe'[c[1]], wire'[c])
  BY DEF FloodOnce, Once
<1>1. ASSUME NEW n \in Node, BcastOwn(n), NEW c \in Link
      PROVE  Once(pipe'[c[1]], wire'[c])
  <2>1. app[n] = "bcast" /\ pipe' = [pipe EXCEPT ![n] = Append(@, n)] /\ wire' = wire
    BY <1>1 DEF BcastOwn, Move
  <2>2. app[n] \notin HasBroadcast
    BY <2>1 DEF HasBroadcast, Waiting, Exchanged
  <2>3. CASE c[1] = n
    <3>1. \A j \in DOMAIN pipe[n] : pipe[n][j] # n
      BY <2>2 DEF IInv, TablesKnown
    <3>2. \A i \in DOMAIN wire[c] : wire[c][i].kind = "RT" => wire[c][i].src # n
      BY <2>2 DEF IInv, TablesKnown
    <3>3. Once(pipe[n], wire[c])
      BY <1>0, <2>3
    <3>4. Once(Append(pipe[n], n), wire[c])
      BY <1>0, <3>1, <3>2, <3>3, OnceNew
    <3>5. QED
      BY <1>0, <2>1, <2>3, <3>4
  <2>4. CASE c[1] # n
    BY <1>0, <2>1, <2>4
  <2>5. QED
    BY <2>3, <2>4
<1>2. ASSUME NEW n \in Node, HandleBcast(n), NEW c \in Link
      PROVE  Once(pipe'[c[1]], wire'[c])
  <2>1. /\ pipe[n] # <<>> /\ pipe' = [pipe EXCEPT ![n] = Tail(@)]
        /\ wire' = [d \in Link |-> IF d[1] = n /\ d[2] \in peers[n]
                                   THEN Append(wire[d], Table(Head(pipe[n])))
                                   ELSE wire[d]]
    BY <1>2 DEF HandleBcast
  <2>2. CASE c[1] = n
    <3>1. Once(pipe[n], wire[c])
      BY <1>0, <2>2
    <3>2. /\ Once(Tail(pipe[n]), wire[c])
          /\ Once(Tail(pipe[n]), Append(wire[c], Table(Head(pipe[n]))))
      BY <1>0, <2>1, <3>1, OnceMoved
    <3>3. pipe'[c[1]] = Tail(pipe[n])
      BY <1>0, <2>1, <2>2
    <3>4. wire'[c] \in {wire[c], Append(wire[c], Table(Head(pipe[n])))}
      BY <2>1
    <3>5. QED
      BY <3>2, <3>3, <3>4
  <2>3. CASE c[1] # n
    BY <1>0, <2>1, <2>3
  <2>4. QED
    BY <2>2, <2>3
<1>3. ASSUME NEW n \in Node, ForwardLocal(n), NEW c \in Link
      PROVE  Once(pipe'[c[1]], wire'[c])
  <2>. DEFINE x == Head(local[n])
              d == <<n, comm_node_lookup_rt(n, x)>>
  <2>1. /\ local[n] # <<>> /\ pipe' = pipe
        /\ wire' = [wire EXCEPT ![d] = Append(@, Chunk(x))]
    BY <1>3 DEF ForwardLocal
  <2>2. x \in Sends
    BY <2>1, LocalHop
  <2>. HIDE DEF x, d
  <2>3. wire'[c] \in {wire[c], Append(wire[c], Chunk(x))}
    BY <1>0, <2>1
  <2>4. QED
    BY <1>0, <2>1, <2>2, <2>3, OnceChunk
<1>4. ASSUME NEW c0 \in Link, RecvTable(c0), NEW c \in Link
      PROVE  Once(pipe'[c[1]], wire'[c])
  <2>. DEFINE n == c0[2]
              s == Head(wire[c0]).src
              w == wire'[c]
  <2>1. wire[c0] # <<>> /\ Head(wire[c0]).kind = "RT" /\ wire' = [wire EXCEPT ![c0] = Tail(@)]
    BY <1>4 DEF RecvTable
  <2>2. n \in Node /\ s \in Node
    BY <2>1, WireHop, LinkFacts
  <2>3. w \in Seq(Msg) /\ Once(pipe[c[1]], w)
    BY <1>0, <2>1, OnceTail, TailFacts
  <2>4. CASE s \in rts[n]
    BY <1>4, <2>3, <2>4 DEF RecvTable, RegisterTable
  <2>5. CASE s \notin rts[n]
    <3>1. pipe' = [pipe EXCEPT ![n] = Append(@, s)]
      BY <1>4, <2>5 DEF RecvTable, RegisterTable
    <3>2. CASE c[1] = n
      <4>1. \A j \in DOMAIN pipe[n] : pipe[n][j] # s
        BY <2>2, <2>5 DEF IInv, TablesKnown
      <4>2. \A i \in DOMAIN wire[c] : wire[c][i].kind = "RT" => wire[c][i].src # s
        BY <2>5, <3>2 DEF IInv, TablesKnown
      <4>3. \A i \in DOMAIN w : \E j \in DOMAIN wire[c] : w[i] = wire[c][j]
        BY <1>0, <2>1, TailFacts
      <4>4. \A i \in DOMAIN w : w[i].kind = "RT" => w[i].src # s
        BY <4>2, <4>3
      <4>. HIDE DEF n, s, w
      <4>5. Once(Append(pipe[n], s), w)
        BY <1>0, <2>2, <2>3, <3>2, <4>1, <4>4, OnceNew
      <4>6. pipe'[c[1]] = Append(pipe[n], s)
        BY <1>0, <2>2, <3>1, <3>2
      <4>7. QED
        BY <4>5, <4>6 DEF w
    <3>3. CASE c[1] # n
      BY <1>0, <2>3, <3>1, <3>3
    <3>4. QED
      BY <3>2, <3>3
  <2>6. QED
    BY <2>4, <2>5
<1>5. ASSUME NEW c0 \in Link, RecvData(c0), NEW c \in Link
      PROVE  Once(pipe'[c[1]], wire'[c])
  <2>. DEFINE x == Head(wire[c0]).msg
              d == <<c0[2], comm_node_lookup_rt(c0[2], x)>>
              w == [wire EXCEPT ![c0] = Tail(@)]
  <2>1. wire[c0] # <<>> /\ Head(wire[c0]).kind = "DATA" /\ pipe' = pipe
    BY <1>5 DEF RecvData
  <2>2. x \in Sends
    BY <2>1, WireHop
  <2>3. w \in [Link -> Seq(Msg)] /\ \A e \in Link : Once(pipe[e[1]], w[e])
    BY <1>0, <2>1, OnceTail, TailFacts
  <2>4. wire' \in {w, [w EXCEPT ![d] = Append(@, Chunk(x))]}
    <3>1. \/ wire' = w
          \/ wire' = [wire EXCEPT ![c0] = Tail(@), ![d] = Append(@, Chunk(x))]
      BY <1>5 DEF RecvData
    <3>2. d # c0
      BY LinkFacts, RouteExchangeAssumption DEF Link
    <3>. HIDE DEF x, d
    <3>3. [wire EXCEPT ![c0] = Tail(@), ![d] = Append(@, Chunk(x))]
            = [w EXCEPT ![d] = Append(@, Chunk(x))]
      BY <1>0, <3>2
    <3>4. QED
      BY <3>1, <3>3
  <2>. HIDE DEF x, d, w
  <2>5. wire'[c] \in {w[c], Append(w[c], Chunk(x))}
    BY <2>3, <2>4
  <2>6. QED
    BY <1>0, <2>1, <2>2, <2>3, <2>5, OnceChunk
<1>6. ASSUME UNCHANGED <<pipe, wire>>
      PROVE  \A c \in Link : Once(pipe'[c[1]], wire'[c])
  BY <1>0, <1>6
<1>7. ASSUME NEW n, HandlePing0(n) \/ HandlePing1(n) \/ SpuriousWakeup(n) \/ SendData(n) \/ Done
               \/ UNCHANGED vars
      PROVE  UNCHANGED <<pipe, wire>>
  BY <1>7 DEF HandlePing0, HandlePing1, SpuriousWakeup, SendData, Done, vars
<1>8. ASSUME NEW n, Application(n), ~BcastOwn(n)
      PROVE  UNCHANGED <<pipe, wire>>
  BY <1>8 DEF Application, WriteConnInfo, ReadConnInfo, StoreOwn, CountOwn, CheckTables,
              WriteSync, ReadSync
<1>9. QED
  BY <1>1, <1>2, <1>3, <1>4, <1>5, <1>6, <1>7, <1>8 DEF Next

-----------------------------------------------------------------------------
(***************************************************************************)
(* The invariant is inductive, and says what the run checks.               *)
(***************************************************************************)
LEMMA NextInv ==
  IInv /\ [Next]_vars => IInv'
<1>. SUFFICES ASSUME IInv, [Next]_vars
              PROVE  IInv'
  OBVIOUS
<1>1. TypeOK'
  BY CountStep, PeersStep, PipeStep, SentStep, WireStep DEF TypeOK
<1>2. QED
  BY <1>1, CountStep, CompleteStep, PeersStep, TablesKnownStep, DataStep, FloodStep DEF IInv

(***************************************************************************)
(* For every overlay and every order of steps, the inductive invariant     *)
(* holds of the connections, the exchange and the first data.              *)
(***************************************************************************)
THEOREM Invariance ==
  Spec => []IInv
BY InitInv, NextInv, PTL DEF Spec

(***************************************************************************)
(* Once a node has computed its table all its connections are registered.  *)
(***************************************************************************)
LEMMA AllConnected ==
  ASSUME IInv, NEW n \in Node, app[n] \notin {"connect", "conn_info"}, NEW c \in Link
  PROVE  c[2] \in peers[c[1]]
<1>1. \A m \in Node : app[m] # "connect"
  BY DEF IInv, ConnectedFirst
<1>2. \A e \in Conn : e[2] \in peers[e[1]] /\ e[1] \in peers[e[2]]
  BY <1>1, LinkFacts DEF IInv, ConnectedFirst
<1>3. c \in Conn \/ \E e \in Conn : c = <<e[2], e[1]>>
  BY LinkFacts
<1>4. CASE c \in Conn
  BY <1>2, <1>4
<1>5. CASE \E e \in Conn : c = <<e[2], e[1]>>
  BY <1>2, <1>5
<1>6. QED
  BY <1>3, <1>4, <1>5

(***************************************************************************)
(* comm_node_register_rt and comm_node_exchange_rt keep num_rts right      *)
(* although two threads count, nobody returns without the tables of all    *)
(* nodes, and a table is broadcast only when all neighbours are known.     *)
(***************************************************************************)
THEOREM TablesTheorem ==
  Spec => []TablesConsistent
<1>1. IInv => TablesConsistent
  <2>. SUFFICES ASSUME IInv
                PROVE  NeighboursKnown
    BY DEF IInv, TablesConsistent
  <2>1. SUFFICES ASSUME NEW n \in Node, pipe[n] # <<>>, NEW c \in Link
                 PROVE  c[2] \in peers[c[1]]
    BY DEF NeighboursKnown
  <2>2. pipe[n] \in Seq(Node)
    BY DEF IInv, TypeOK
  <2>3. pipe[n][1] \in Node /\ app[pipe[n][1]] \in HasBroadcast
    BY <2>1, <2>2, TailFacts DEF IInv, TablesKnown
  <2>4. app[pipe[n][1]] \notin {"connect", "conn_info"}
    BY <2>3 DEF HasBroadcast, Waiting, Exchanged
  <2>5. QED
    BY <2>3, <2>4, AllConnected
<1>2. QED
  BY <1>1, Invariance, PTL

(***************************************************************************)
(* Every table crosses every channel at most once in each direction, which *)
(* is what comm_node_register_rt drops second copies for.                  *)
(***************************************************************************)
THEOREM FloodTheorem ==
  Spec => []FloodOnce
<1>1. IInv => FloodOnce
  BY DEF IInv
<1>2. QED
  BY <1>1, Invariance, PTL

(***************************************************************************)
(* The assertions of ioman_get_nexthop_channel hold: wherever a chunk is   *)
(* about to be routed, the table of its source has arrived and the channel *)
(* to its next hop is registered.                                          *)
(***************************************************************************)
THEOREM RoutingTheorem ==
  Spec => []ChunksCanBeRouted
<1>1. ASSUME IInv, NEW x \in sent, NEW n \in Node, OnPath(x, n), n = x[1] \/ n # x[2]
      PROVE  CanRoute(n, x)
  <2>1. x \in Sends /\ x[1] \in Node
    BY <1>1, RouteExchangeAssumption DEF IInv, TypeOK
  <2>2. app[x[1]] = "send" /\ app[n] \in {"sync", "send"}
    BY <1>1, <2>1 DEF IInv, DataAfterTables
  <2>3. rts[n] = Node
    BY <1>1, <2>2 DEF IInv, ExchangeComplete
  <2>4. <<n, comm_node_lookup_rt(n, x)>> \in Link
    BY <1>1, <2>1, NextHop
  <2>5. app[n] \notin {"connect", "conn_info"}
    BY <2>2
  <2>6. <<n, comm_node_lookup_rt(n, x)>>[2] \in peers[<<n, comm_node_lookup_rt(n, x)>>[1]]
    BY <1>1, <2>4, <2>5, AllConnected
  <2>7. QED
    BY <2>1, <2>3, <2>6 DEF CanRoute
<1>2. IInv => ChunksCanBeRouted
  <2>. SUFFICES ASSUME IInv
                PROVE  ChunksCanBeRouted
    OBVIOUS
  <2>1. ASSUME NEW n \in Node, local[n] # <<>>
        PROVE  CanRoute(n, Head(local[n]))
    BY <1>1, <2>1, LocalHop
  <2>2. ASSUME NEW c \in Link, wire[c] # <<>>, Head(wire[c]).kind = "DATA",
               Head(wire[c]).msg[2] # c[2]
        PROVE  CanRoute(c[2], Head(wire[c]).msg)
    BY <1>1, <2>2, WireHop, LinkFacts
  <2>3. QED
    BY <2>1, <2>2 DEF ChunksCanBeRouted
<1>3. QED
  BY <1>2, Invariance, PTL
=============================================================================
