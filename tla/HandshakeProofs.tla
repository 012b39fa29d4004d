-------------------------- MODULE HandshakeProofs --------------------------
(***************************************************************************)
(* Proofs about Handshake, for any nodes and any set of connections of     *)
(* which no two are between the same nodes, whatever TCP does: both ends   *)
(* agree, no assertion fails, failures leave nothing behind, and whoever   *)
(* sleeps has something to wait for.                                       *)
(***************************************************************************)
EXTENDS Handshake, SequenceTheorems, TLAPS

-----------------------------------------------------------------------------
(***************************************************************************)
(* The plans of gxp.c open a connection from one side only (OneOpens in    *)
(* Gxp), but for the ring of two nodes, which stops on an assertion.       *)
(***************************************************************************)
OneWay == \A k \in Conn : <<k[2], k[1]>> \notin Conn

(***************************************************************************)
(* What the owner of an end keeps about the node at the other end.         *)
(***************************************************************************)
MapOf(e) == channel_map[Owner(e)][Owner(Other(e))]
RttOf(e) == rtts[Owner(e)][Owner(Other(e))]
Known(e) == peer_id[e] # UNKNOWN

(***************************************************************************)
(* channel_map has the open channels whose peer is known, and no others.   *)
(***************************************************************************)
MapInv ==
  /\ \A e \in End : MapOf(e) = IF chan[e] = "ACTIVE" /\ Known(e) THEN e ELSE NULL
  /\ \A n, m \in Node : channel_map[n][m] # NULL =>
       Owner(channel_map[n][m]) = n /\ Owner(Other(channel_map[n][m])) = m

(***************************************************************************)
(* The channels of a connection and what TCP has done with it.             *)
(***************************************************************************)
Life(k) ==
  /\ chan[Connector(k)] = "none" <=> tcp[k] = "idle"
  /\ chan[Connector(k)] = "ACTIVE" => tcp[k] \in {"open", "reset"}
  /\ chan[Connector(k)] = "deleted" => tcp[k] \in {"refused", "reset"}
  /\ chan[Acceptor(k)] \in {"none", "ACTIVE", "deleted"}
  /\ chan[Acceptor(k)] = "ACTIVE" => tcp[k] \in {"open", "reset"}
  /\ chan[Acceptor(k)] = "deleted" => tcp[k] = "reset"

(***************************************************************************)
(* The exchange before it begins and after it has ended.                   *)
(***************************************************************************)
Silent(k) == wire[Connector(k)] = <<>> /\ wire[Acceptor(k)] = <<>>

Fresh(k) == Silent(k) /\ ~Known(Connector(k)) /\ ~Known(Acceptor(k)) /\ ~established[k]

(***************************************************************************)
(* The four messages of the exchange follow each other.                    *)
(***************************************************************************)
Talk(k) ==
  LET C == Connector(k)
      A == Acceptor(k)
  IN  /\ wire[C] \in {<<>>, <<"PING0">>, <<"PONG0">>}
      /\ wire[A] \in {<<>>, <<"PING1">>, <<"PONG1">>}
      /\ wire[C] = <<>> \/ wire[A] = <<>>
      /\ wire[C] = <<"PING0">> => ~Known(C) /\ ~Known(A)
      /\ wire[A] = <<"PING1">> => ~Known(C) /\ Known(A) /\ RttOf(A) # "zero"
      /\ wire[C] = <<"PONG0">> => Known(C) /\ Known(A) /\ RttOf(C) # "zero" /\ RttOf(A) # "zero"
      /\ wire[A] = <<"PONG1">> => Known(C) /\ Known(A) /\ RttOf(C) # "zero" /\ RttOf(A) = "measured"
      /\ established[k] => /\ Silent(k) /\ Known(C) /\ Known(A)
                           /\ RttOf(C) = "measured" /\ RttOf(A) = "measured"

(***************************************************************************)
(* It goes on between channels that are open.                              *)
(***************************************************************************)
Progress(k) ==
  /\ tcp[k] \in {"idle", "connecting", "refused"} \/ chan[Connector(k)] \in {"none", "NEWCHAN", "SETUP"} =>
       Fresh(k)
  /\ Known(Connector(k)) => chan[Connector(k)] \in {"ACTIVE", "deleted"}
  /\ Known(Acceptor(k)) => chan[Acceptor(k)] \in {"ACTIVE", "deleted"}
  /\ chan[Connector(k)] = "ACTIVE" /\ tcp[k] # "reset" => established[k] \/ ~Silent(k)

(***************************************************************************)
(* The thread that wants the connection.  A reset takes all back, since    *)
(* nobody is told of it.                                                   *)
(***************************************************************************)
Coming(k) == chan[Connector(k)] \in {"NEWCHAN", "SETUP", "ACTIVE"}
Gone(k) == chan[Connector(k)] \in {"none", "deleted"}

Thread(k) ==
  /\ app[k] = "idle" => tcp[k] = "idle"
  /\ app[k] \in {"idle", "adding"} => pending[k] = "absent"
  /\ app[k] = "asleep" => pending[k] = "channel"
  /\ tcp[k] # "reset" =>
       /\ app[k] = "adding" => Coming(k) /\ ~established[k]
       /\ pending[k] = "channel" => Coming(k)
       /\ app[k] = "asleep" => ~established[k]
       /\ app[k] \in {"dispatched", "woken"} /\ pending[k] # "channel" => Gone(k)
       /\ app[k] \in {"found", "ok"} => established[k]
       /\ app[k] = "ok" => dst_id[k] = k[2]
       /\ app[k] = "failed" => Gone(k)

ConnInv(k) == Life(k) /\ Talk(k) /\ Progress(k) /\ Thread(k)

IInv == TypeOK /\ MapInv /\ \A k \in Conn : ConnInv(k)

-----------------------------------------------------------------------------
(***************************************************************************)
(* The ends of connections.                                                *)
(***************************************************************************)
LEMMA ConnFacts ==
  ASSUME NEW k \in Conn
  PROVE  /\ k[1] \in Node /\ k[2] \in Node /\ k[1] # k[2] /\ k = <<k[1], k[2]>>
         /\ Connector(k) \in End /\ Acceptor(k) \in End /\ Connector(k) # Acceptor(k)
         /\ Connector(k)[1] = k /\ Acceptor(k)[1] = k
         /\ Other(Connector(k)) = Acceptor(k) /\ Other(Acceptor(k)) = Connector(k)
         /\ Owner(Connector(k)) = k[1] /\ Owner(Acceptor(k)) = k[2]
         /\ Connector(k) # NULL /\ Acceptor(k) # NULL
<1>1. k \in Node \X Node /\ k[1] # k[2]
  BY ConnAssumption
<1>2. k[1] \in Node /\ k[2] \in Node /\ k = <<k[1], k[2]>>
  BY <1>1
<1>3. Connector(k)[1] = k /\ Acceptor(k)[1] = k /\ Connector(k) # Acceptor(k)
  BY DEF Connector, Acceptor
<1>4. Connector(k) \in End /\ Acceptor(k) \in End
  BY DEF End
<1>5. Other(Connector(k)) = Acceptor(k) /\ Other(Acceptor(k)) = Connector(k)
  BY <1>3 DEF Other
<1>6. Owner(Connector(k)) = k[1] /\ Owner(Acceptor(k)) = k[2]
  BY <1>3 DEF Owner
<1>7. QED
  BY <1>1, <1>2, <1>3, <1>4, <1>5, <1>6, NullAssumption

LEMMA TwoEnds ==
  ASSUME NEW e \in End
  PROVE  /\ \E k \in Conn : e = Connector(k) \/ e = Acceptor(k)
         /\ e[1] \in Conn /\ (e = Connector(e[1]) \/ e = Acceptor(e[1]))
         /\ Other(e) \in End /\ Other(e) # e /\ Other(e)[1] = e[1] /\ Other(Other(e)) = e
         /\ Owner(e) \in Node /\ Owner(Other(e)) \in Node /\ e # NULL
<1>1. PICK k \in Conn : e = Connector(k) \/ e = Acceptor(k)
  BY DEF End
<1>2. QED
  BY <1>1, ConnFacts

LEMMA Apart ==
  ASSUME NEW k \in Conn, NEW j \in Conn, k # j
  PROVE  /\ Connector(k) # Connector(j) /\ Connector(k) # Acceptor(j)
         /\ Acceptor(k) # Connector(j) /\ Acceptor(k) # Acceptor(j)
  BY ConnFacts

LEMMA OneKey ==
  ASSUME OneWay, NEW e \in End, NEW f \in End,
         Owner(e) = Owner(f), Owner(Other(e)) = Owner(Other(f))
  PROVE  e = f
<1>1. PICK k \in Conn : e = Connector(k) \/ e = Acceptor(k)
  BY TwoEnds
<1>2. PICK j \in Conn : f = Connector(j) \/ f = Acceptor(j)
  BY TwoEnds
<1>3. k = <<k[1], k[2]>> /\ j = <<j[1], j[2]>>
  BY ConnFacts
<1>4. \/ j[1] = k[1] /\ j[2] = k[2]
      \/ j[1] = k[2] /\ j[2] = k[1]
  BY <1>1, <1>2, ConnFacts
<1>5. CASE j[1] = k[1] /\ j[2] = k[2]
  <2>1. j = k
    BY <1>3, <1>5
  <2>2. QED
    BY <1>1, <1>2, <2>1, ConnFacts
<1>6. CASE j[1] = k[2] /\ j[2] = k[1]
  <2>1. j = <<k[2], k[1]>>
    BY <1>3, <1>6
  <2>2. QED
    BY <2>1 DEF OneWay
<1>7. QED
  BY <1>4, <1>5, <1>6

(***************************************************************************)
(* A channel carries one message of the exchange or none.                  *)
(***************************************************************************)
LEMMA OneMessage ==
  ASSUME NEW x \in Kind
  PROVE  /\ Append(<<>>, x) = <<x>> /\ Tail(<<x>>) = <<>> /\ Head(<<x>>) = x
         /\ <<x>> # <<>> /\ Len(<<x>>) = 1 /\ Len(<<>>) = 0
         /\ \A i \in 0 .. 1 : SubSeq(<<x>>, 1, i) = IF i = 0 THEN <<>> ELSE <<x>>
         /\ \A i \in 0 .. 0 : SubSeq(<<>>, 1, i) = <<>>
         /\ <<>> \in Seq(Kind) /\ <<x>> \in Seq(Kind)
         /\ \A y \in Kind : <<x>> = <<y>> => x = y
<1>1. /\ Append(<<>>, x) = <<x>> /\ Tail(<<x>>) = <<>> /\ Head(<<x>>) = x
      /\ <<x>> # <<>> /\ Len(<<x>>) = 1 /\ Len(<<>>) = 0
  OBVIOUS
<1>2. <<>> \in Seq(Kind) /\ <<x>> \in Seq(Kind)
  OBVIOUS
<1>3. \A y \in Kind : <<x>> = <<y>> => x = y
  OBVIOUS
<1>4. SubSeq(<<x>>, 1, 0) = <<>> /\ SubSeq(<<>>, 1, 0) = <<>>
  OBVIOUS
<1>5. SubSeq(<<x>>, 1, 1) = <<x>>
  BY <1>1, <1>2, SubSeqFull
<1>6. (0 .. 1) = {0, 1} /\ (0 .. 0) = {0}
  OBVIOUS
<1>7. QED
  BY <1>1, <1>2, <1>3, <1>4, <1>5, <1>6

(***************************************************************************)
(* A step of one connection leaves the others as they are, but for threads *)
(* that it wakes.                                                          *)
(***************************************************************************)
Untouched(j) ==
  /\ tcp'[j] = tcp[j] /\ established'[j] = established[j]
  /\ pending'[j] = pending[j] /\ dst_id'[j] = dst_id[j]
  /\ (app'[j] = app[j] \/ (app[j] = "asleep" /\ app'[j] = "woken"))
  /\ \A e \in {Connector(j), Acceptor(j)} :
       /\ chan'[e] = chan[e] /\ peer_id'[e] = peer_id[e] /\ wire'[e] = wire[e]
       /\ rtts'[Owner(e)][Owner(Other(e))] = rtts[Owner(e)][Owner(Other(e))]

LEMMA Kept ==
  ASSUME NEW j \in Conn, ConnInv(j), Untouched(j)
  PROVE  ConnInv(j)'
<1>. DEFINE C == Connector(j)
            A == Acceptor(j)
<1>1. /\ tcp'[j] = tcp[j] /\ established'[j] = established[j]
      /\ pending'[j] = pending[j] /\ dst_id'[j] = dst_id[j]
      /\ chan'[C] = chan[C] /\ peer_id'[C] = peer_id[C] /\ wire'[C] = wire[C] /\ RttOf(C)' = RttOf(C)
      /\ chan'[A] = chan[A] /\ peer_id'[A] = peer_id[A] /\ wire'[A] = wire[A] /\ RttOf(A)' = RttOf(A)
  BY DEF Untouched, RttOf
<1>2. Life(j)'
  BY <1>1 DEF ConnInv, Life
<1>3. Silent(j)' <=> Silent(j)
  BY <1>1 DEF Silent
<1>4. (Known(C)' <=> Known(C)) /\ (Known(A)' <=> Known(A))
  BY <1>1 DEF Known
<1>. HIDE DEF C, A
<1>5. Talk(j)'
  BY <1>1, <1>3, <1>4 DEF ConnInv, Talk, C, A
<1>6. Progress(j)'
  BY <1>1, <1>3, <1>4 DEF ConnInv, Progress, Fresh, C, A
<1>7. app'[j] = app[j] \/ (app[j] = "asleep" /\ app'[j] = "woken")
  BY DEF Untouched
<1>8. (Coming(j)' <=> Coming(j)) /\ (Gone(j)' <=> Gone(j))
  BY <1>1 DEF Coming, Gone, C
<1>9. Thread(j)'
  BY <1>1, <1>7, <1>8 DEF ConnInv, Thread
<1>10. QED
  BY <1>2, <1>5, <1>6, <1>9 DEF ConnInv

-----------------------------------------------------------------------------
(***************************************************************************)
(* Types.                                                                  *)
(***************************************************************************)
LEMMA WireTypes ==
  ASSUME TypeOK, NEW e \in End, NEW f \in End, wire[f] # <<>>, NEW x \in Kind
  PROVE  /\ [wire EXCEPT ![e] = Append(@, x)] \in [End -> Seq(Kind)]
         /\ [wire EXCEPT ![f] = Tail(@)] \in [End -> Seq(Kind)]
         /\ [wire EXCEPT ![f] = Tail(@), ![e] = Append(@, x)] \in [End -> Seq(Kind)]
         /\ \A i \in 0 .. Len(wire[e]) : [wire EXCEPT ![e] = SubSeq(@, 1, i)] \in [End -> Seq(Kind)]
<1>1. \A s \in Seq(Kind) : Append(s, x) \in Seq(Kind)
  OBVIOUS
<1>2. \A s \in Seq(Kind) : s # <<>> => Tail(s) \in Seq(Kind)
  OBVIOUS
<1>3. \A s \in Seq(Kind) : \A i \in 0 .. Len(s) : SubSeq(s, 1, i) \in Seq(Kind)
  OBVIOUS
<1>4. wire \in [End -> Seq(Kind)]
  BY DEF TypeOK
<1>5. [wire EXCEPT ![f] = Tail(@)] \in [End -> Seq(Kind)]
  BY <1>2, <1>4
<1>6. [wire EXCEPT ![e] = Append(@, x)] \in [End -> Seq(Kind)]
  BY <1>1, <1>4
<1>7. [wire EXCEPT ![f] = Tail(@), ![e] = Append(@, x)] \in [End -> Seq(Kind)]
  BY <1>1, <1>2, <1>4
<1>8. QED
  BY <1>3, <1>4, <1>5, <1>6, <1>7

LEMMA TypeStep ==
  ASSUME TypeOK, Next
  PROVE  TypeOK'
<1>. USE DEF TypeOK
<1>1. ASSUME NEW k \in Conn, comm_node_async_connect(k)
      PROVE  TypeOK'
  <2>1. tcp' \in [Conn -> {"idle", "connecting", "open", "refused", "reset"}]
    BY <1>1 DEF comm_node_async_connect
  <2>2. chan' \in [End -> {"none", "NEWCHAN", "SETUP", "ACTIVE", "deleted"}]
    BY <1>1 DEF comm_node_async_connect
  <2>3. pending' \in [Conn -> {"absent", "NULL", "channel"}]
    <3>1. pending' = pending \/ pending' = [pending EXCEPT ![k] = "NULL"]
      BY <1>1 DEF comm_node_async_connect
    <3>2. QED
      BY <3>1
  <2>4. app' \in [Conn -> {"idle", "adding", "dispatched", "asleep", "woken", "found", "ok", "failed"}]
    <3>1. app' = [app EXCEPT ![k] = "adding"] \/ app' = [app EXCEPT ![k] = "dispatched"]
      BY <1>1 DEF comm_node_async_connect
    <3>2. QED
      BY <3>1
  <2>5. QED
    BY <1>1, <2>1, <2>2, <2>3, <2>4 DEF comm_node_async_connect
<1>2. ASSUME NEW k \in Conn, channel_hash_map_add(k)
      PROVE  TypeOK'
  BY <1>2, ConnFacts DEF channel_hash_map_add
<1>3. ASSUME NEW k \in Conn, comm_node_connect_wait(k)
      PROVE  TypeOK'
  BY <1>3, ConnFacts, ZenonT(60) DEF comm_node_connect_wait
<1>4. ASSUME NEW k \in Conn, connect_wait_return(k)
      PROVE  TypeOK'
  BY <1>4, ConnFacts DEF connect_wait_return
<1>5. ASSUME NEW k \in Conn, SpuriousWakeup(k)
      PROVE  TypeOK'
  BY <1>5 DEF SpuriousWakeup
<1>6. ASSUME NEW k \in Conn, TcpConnect(k) \/ TcpReset(k)
      PROVE  TypeOK'
  BY <1>6 DEF TcpConnect, TcpReset
<1>7. ASSUME NEW k \in Conn, ioman_handle_event_newchan(k) \/ sock_accept(k)
      PROVE  TypeOK'
  <2>1. chan' \in [End -> {"none", "NEWCHAN", "SETUP", "ACTIVE", "deleted"}]
    BY <1>7 DEF ioman_handle_event_newchan, sock_accept
  <2>2. QED
    BY <1>7, <2>1 DEF ioman_handle_event_newchan, sock_accept
<1>8. ASSUME NEW k \in Conn, channel_make_active(k)
      PROVE  TypeOK'
  <2>1. chan' \in [End -> {"none", "NEWCHAN", "SETUP", "ACTIVE", "deleted"}]
    BY <1>8, ZenonT(60) DEF channel_make_active
  <2>2. wire' \in [End -> Seq(Kind)]
    <3>1. Append(wire[Connector(k)], "PING0") \in Seq(Kind)
      BY ConnFacts DEF Kind
    <3>2. QED
      BY <1>8, <3>1 DEF channel_make_active
  <2>3. pending' \in [Conn -> {"absent", "NULL", "channel"}]
    BY <1>8 DEF channel_make_active, comm_node_notify_failure
  <2>4. app' \in [Conn -> {"idle", "adding", "dispatched", "asleep", "woken", "found", "ok", "failed"}]
    BY <1>8 DEF channel_make_active, comm_node_notify_failure, Broadcast
  <2>5. QED
    BY <1>8, <2>1, <2>2, <2>3, <2>4 DEF channel_make_active
<1>9. ASSUME NEW e \in End, ioman_delete_channel(e)
      PROVE  TypeOK'
  <2>1. wire' \in [End -> Seq(Kind)]
    <3>1. PICK i \in 0 .. Len(wire[e]) : wire' = [wire EXCEPT ![e] = SubSeq(@, 1, i)]
      BY <1>9 DEF ioman_delete_channel
    <3>2. SubSeq(wire[e], 1, i) \in Seq(Kind)
      <4>1. \A s \in Seq(Kind) : \A j \in 0 .. Len(s) : SubSeq(s, 1, j) \in Seq(Kind)
        OBVIOUS
      <4>2. QED
        BY <4>1
    <3>3. QED
      BY <3>1, <3>2
  <2>2. channel_map' \in [Node -> [Node -> End \cup {NULL}]]
    BY <1>9 DEF ioman_delete_channel
  <2>3. QED
    BY <1>9, <2>1, <2>2 DEF ioman_delete_channel
<1>10. ASSUME NEW e \in End, NEW x \in Kind, NEW y \in Kind, HandlePing(e, x, y)
       PROVE  TypeOK'
  <2>1. wire' \in [End -> Seq(Kind)]
    BY <1>10, TwoEnds, WireTypes DEF HandlePing, Handles, Reply
  <2>2. channel_map' \in [Node -> [Node -> End \cup {NULL}]] /\ rtts' \in [Node -> [Node -> {"zero", "started", "measured"}]]
    BY <1>10, TwoEnds DEF HandlePing, ioman_register_channel
  <2>3. peer_id' \in [End -> Node \cup {UNKNOWN}] /\ \A f \in End : peer_id'[f] \in {UNKNOWN, Owner(Other(f))}
    BY <1>10, TwoEnds DEF HandlePing, ioman_register_channel
  <2>4. QED
    BY <1>10, <2>1, <2>2, <2>3 DEF HandlePing
<1>11. ASSUME NEW e \in End, HandlePONG0(e)
       PROVE  TypeOK'
  <2>1. channel_map[Owner(e)][Owner(Other(e))] \in End
    BY <1>11, TwoEnds DEF HandlePONG0, Answerable
  <2>2. wire' \in [End -> Seq(Kind)]
    BY <1>11, <2>1, TwoEnds, WireTypes DEF HandlePONG0, Handles, Reply, Kind
  <2>3. rtts' \in [Node -> [Node -> {"zero", "started", "measured"}]]
    BY <1>11, TwoEnds DEF HandlePONG0, MeasureEnd
  <2>4. QED
    BY <1>11, <2>2, <2>3 DEF HandlePONG0
<1>12. ASSUME NEW e \in End, HandlePONG1(e)
       PROVE  TypeOK'
  <2>1. wire' \in [End -> Seq(Kind)]
    BY <1>12, TwoEnds, WireTypes DEF HandlePONG1, Handles
  <2>2. rtts' \in [Node -> [Node -> {"zero", "started", "measured"}]]
    BY <1>12, TwoEnds DEF HandlePONG1, MeasureEnd
  <2>3. established' \in [Conn -> BOOLEAN]
    BY <1>12, TwoEnds DEF HandlePONG1
  <2>4. QED
    BY <1>12, <2>1, <2>2, <2>3 DEF HandlePONG1, Broadcast
<1>13. \A e \in End : HandlePING0(e) \/ HandlePING1(e) => TypeOK'
  BY <1>10 DEF HandlePING0, HandlePING1, Kind
<1>14. QED
  BY <1>1, <1>2, <1>3, <1>4, <1>5, <1>6, <1>7, <1>8, <1>9, <1>11, <1>12, <1>13 DEF Next, comm_node_handle_msg

-----------------------------------------------------------------------------
(***************************************************************************)
(* Steps.  Each concerns one connection.                                   *)
(***************************************************************************)
LEMMA MapSame ==
  ASSUME MapInv, channel_map' = channel_map,
         \A e \in End : chan'[e] = "ACTIVE" /\ Known(e)' <=> chan[e] = "ACTIVE" /\ Known(e)
  PROVE  MapInv'
<1>1. \A e \in End : MapOf(e)' = MapOf(e)
  BY DEF MapOf
<1>2. \A e \in End : MapOf(e)' = IF chan'[e] = "ACTIVE" /\ Known(e)' THEN e ELSE NULL
  BY <1>1 DEF MapInv
<1>3. QED
  BY <1>2 DEF MapInv

(***************************************************************************)
(* Nothing but the state of its thread and of its channels is new.         *)
(***************************************************************************)
TalkUnchanged(k) ==
  /\ established'[k] = established[k]
  /\ \A e \in {Connector(k), Acceptor(k)} :
       /\ peer_id'[e] = peer_id[e] /\ wire'[e] = wire[e]
       /\ rtts'[Owner(e)][Owner(Other(e))] = rtts[Owner(e)][Owner(Other(e))]

LEMMA TalkSame ==
  ASSUME NEW k, TalkUnchanged(k)
  PROVE  /\ Talk(k) => Talk(k)'
         /\ Silent(k)' <=> Silent(k)
         /\ Fresh(k)' <=> Fresh(k)
         /\ established'[k] = established[k]
         /\ Known(Connector(k))' <=> Known(Connector(k))
         /\ Known(Acceptor(k))' <=> Known(Acceptor(k))
<1>. DEFINE C == Connector(k)
            A == Acceptor(k)
<1>1. /\ established'[k] = established[k]
      /\ peer_id'[C] = peer_id[C] /\ wire'[C] = wire[C] /\ RttOf(C)' = RttOf(C)
      /\ peer_id'[A] = peer_id[A] /\ wire'[A] = wire[A] /\ RttOf(A)' = RttOf(A)
  BY DEF TalkUnchanged, RttOf
<1>2. Silent(k)' <=> Silent(k)
  BY <1>1 DEF Silent
<1>3. (Known(C)' <=> Known(C)) /\ (Known(A)' <=> Known(A))
  BY <1>1 DEF Known
<1>. HIDE DEF C, A
<1>4. Talk(k) => Talk(k)'
  BY <1>1, <1>2, <1>3 DEF Talk, C, A
<1>5. Fresh(k)' <=> Fresh(k)
  BY <1>1, <1>2, <1>3 DEF Fresh, C, A
<1>6. QED
  BY <1>1, <1>2, <1>3, <1>4, <1>5 DEF C, A

Others(k) == \A j \in Conn : j # k => Untouched(j)

LEMMA ConnectStep ==
  ASSUME TypeOK, MapInv, NEW k \in Conn, ConnInv(k), comm_node_async_connect(k)
  PROVE  MapInv' /\ ConnInv(k)' /\ Others(k)
<1>. DEFINE C == Connector(k)
            A == Acceptor(k)
<1>1. /\ C \in End /\ A \in End /\ C # A
      /\ tcp[k] = "idle" /\ chan[C] = "none" /\ pending[k] = "absent"
  BY ConnFacts DEF comm_node_async_connect, ConnInv, Thread, Life
<1>2. UNCHANGED <<established, peer_id, channel_map, wire, rtts, dst_id>>
  BY DEF comm_node_async_connect
<1>3. \/ /\ tcp' = [tcp EXCEPT ![k] = "connecting"] /\ chan' = [chan EXCEPT ![C] = "NEWCHAN"]
         /\ app' = [app EXCEPT ![k] = "adding"] /\ pending' = pending
      \/ /\ tcp' = tcp /\ chan' = chan
         /\ app' = [app EXCEPT ![k] = "dispatched"] /\ pending' = [pending EXCEPT ![k] = "NULL"]
  BY DEF comm_node_async_connect
<1>4. \/ /\ tcp'[k] = "connecting" /\ chan'[C] = "NEWCHAN" /\ chan'[A] = chan[A]
         /\ app'[k] = "adding" /\ pending'[k] = "absent"
      \/ /\ tcp'[k] = "idle" /\ chan'[C] = "none" /\ chan'[A] = chan[A]
         /\ app'[k] = "dispatched" /\ pending'[k] = "NULL"
  BY <1>1, <1>3 DEF TypeOK
<1>5. TalkUnchanged(k)
  BY <1>2 DEF TalkUnchanged
<1>6. Fresh(k)
  BY <1>1 DEF ConnInv, Progress
<1>7. MapInv'
  <2>1. \A e \in End : chan'[e] = "ACTIVE" <=> chan[e] = "ACTIVE"
    BY <1>1, <1>3 DEF TypeOK
  <2>2. \A e \in End : Known(e)' <=> Known(e)
    BY <1>2 DEF Known
  <2>3. QED
    BY <1>2, <2>1, <2>2, MapSame
<1>8. Others(k)
  <2>1. SUFFICES ASSUME NEW j \in Conn, j # k
                 PROVE  Untouched(j)
    BY DEF Others
  <2>2. Connector(j) # C /\ Acceptor(j) # C /\ Connector(j) \in End /\ Acceptor(j) \in End
    BY <2>1, Apart, ConnFacts
  <2>3. QED
    <3>1. /\ tcp'[j] = tcp[j] /\ pending'[j] = pending[j] /\ app'[j] = app[j]
          /\ chan'[Connector(j)] = chan[Connector(j)] /\ chan'[Acceptor(j)] = chan[Acceptor(j)]
      BY <1>3, <2>1, <2>2 DEF TypeOK
    <3>2. established' = established /\ peer_id' = peer_id /\ wire' = wire /\ rtts' = rtts /\ dst_id' = dst_id
      BY <1>2
    <3>3. QED
      BY <3>1, <3>2 DEF Untouched
<1>. HIDE DEF C, A
<1>9. Life(k)'
  BY <1>1, <1>4 DEF ConnInv, Life, C, A
<1>10. Talk(k)'
  BY <1>5, TalkSame DEF ConnInv
<1>11. Progress(k)'
  BY <1>4, <1>5, <1>6, TalkSame DEF Progress, Fresh, C, A
<1>12. Thread(k)'
  BY <1>4, <1>5, <1>6, TalkSame DEF Thread, Coming, Gone, Fresh, C, A
<1>13. QED
  BY <1>7, <1>8, <1>9, <1>10, <1>11, <1>12 DEF ConnInv

(***************************************************************************)
(* Later steps of the thread.                                              *)
(***************************************************************************)
LEMMA ThreadStep ==
  ASSUME TypeOK, MapInv, NEW k \in Conn, ConnInv(k),
         \/ channel_hash_map_add(k) \/ comm_node_connect_wait(k)
         \/ connect_wait_return(k) \/ SpuriousWakeup(k)
  PROVE  MapInv' /\ ConnInv(k)' /\ Others(k)
<1>. DEFINE C == Connector(k)
            A == Acceptor(k)
<1>1. UNCHANGED <<tcp, chan, established, peer_id, channel_map, wire, rtts>>
  BY DEF channel_hash_map_add, comm_node_connect_wait, connect_wait_return, SpuriousWakeup
<1>2. \A j \in Conn : j # k => app'[j] = app[j] /\ pending'[j] = pending[j] /\ dst_id'[j] = dst_id[j]
  BY DEF channel_hash_map_add, comm_node_connect_wait, connect_wait_return, SpuriousWakeup, TypeOK
<1>3. TalkUnchanged(k)
  BY <1>1 DEF TalkUnchanged
<1>4. MapInv'
  BY <1>1, MapSame DEF Known
<1>5. Others(k)
  <2>1. tcp' = tcp /\ chan' = chan /\ established' = established /\ peer_id' = peer_id
    BY <1>1
  <2>2. wire' = wire /\ rtts' = rtts
    BY <1>1
  <2>3. QED
    BY <1>2, <2>1, <2>2 DEF Others, Untouched
<1>6. Life(k)' /\ Talk(k)'
  BY <1>1, <1>3, TalkSame DEF ConnInv, Life
<1>7. Progress(k)'
  BY <1>1, <1>3, TalkSame DEF ConnInv, Progress
<1>8. established[k] /\ tcp[k] # "reset" => chan[C] = "ACTIVE" /\ peer_id[C] = k[2]
  <2>1. SUFFICES ASSUME established[k], tcp[k] # "reset"
                 PROVE  chan[C] = "ACTIVE" /\ peer_id[C] = k[2]
    OBVIOUS
  <2>2. Known(C)
    BY <2>1 DEF ConnInv, Talk
  <2>3. C \in End /\ peer_id[C] = k[2]
    BY <2>2, ConnFacts DEF Known, TypeOK
  <2>4. chan[C] = "deleted" => tcp[k] = "refused"
    BY <2>1 DEF ConnInv, Life
  <2>5. tcp[k] # "refused"
    BY <2>1 DEF ConnInv, Progress, Fresh
  <2>6. QED
    BY <2>2, <2>3, <2>4, <2>5 DEF ConnInv, Progress
<1>9. Thread(k)
  BY DEF ConnInv
<1>10. (Coming(k)' <=> Coming(k)) /\ (Gone(k)' <=> Gone(k))
  BY <1>1 DEF Coming, Gone
<1>11. Coming(k) => chan[C] # "deleted"
  BY DEF Coming
<1>12. Thread(k)'
  <2>1. CASE channel_hash_map_add(k)
    <3>1. app[k] = "adding" /\ app'[k] = "dispatched" /\ pending'[k] = "channel"
      BY <2>1 DEF channel_hash_map_add, TypeOK
    <3>2. QED
      BY <1>1, <1>9, <1>10, <3>1 DEF Thread
  <2>2. CASE comm_node_connect_wait(k)
    <3>1. /\ app[k] \in {"dispatched", "woken"}
          /\ \/ /\ pending[k] = "channel" /\ FALSE \in channel_is_established(k)
                /\ app'[k] = "asleep" /\ pending'[k] = "channel"
             \/ /\ pending[k] = "channel" /\ TRUE \in channel_is_established(k)
                /\ app'[k] = "found" /\ pending'[k] = "absent"
             \/ /\ pending[k] # "channel" /\ app'[k] = "failed" /\ pending'[k] = "absent"
      BY <2>2 DEF comm_node_connect_wait, TypeOK
    <3>2. established[k] \in BOOLEAN
      BY DEF TypeOK
    <3>3. chan[C] # "deleted" => channel_is_established(k) = {established[k]}
      BY DEF channel_is_established
    <3>4. pending[k] = "channel" /\ tcp[k] # "reset" => channel_is_established(k) = {established[k]}
      BY <1>9, <1>11, <3>3 DEF Thread
    <3>5. QED
      BY <1>1, <1>9, <1>10, <3>1, <3>2, <3>4 DEF Thread
  <2>3. CASE connect_wait_return(k)
    <3>1. /\ app[k] = "found" /\ app'[k] = "ok" /\ pending' = pending
          /\ dst_id'[k] = IF chan[C] = "deleted" THEN GARBAGE ELSE peer_id[C]
      BY <2>3 DEF connect_wait_return, TypeOK
    <3>2. tcp[k] # "reset" => dst_id'[k] = k[2]
      BY <1>8, <1>9, <3>1 DEF Thread
    <3>3. QED
      BY <1>1, <1>9, <1>10, <3>1, <3>2 DEF Thread
  <2>4. CASE SpuriousWakeup(k)
    <3>1. app[k] = "asleep" /\ app'[k] = "woken" /\ pending' = pending
      BY <2>4 DEF SpuriousWakeup, TypeOK
    <3>2. QED
      BY <1>1, <1>9, <1>10, <3>1 DEF Thread
  <2>5. QED
    BY <2>1, <2>2, <2>3, <2>4
<1>13. QED
  BY <1>4, <1>5, <1>6, <1>7, <1>12 DEF ConnInv

(***************************************************************************)
(* TCP decides.                                                            *)
(***************************************************************************)
LEMMA TcpStep ==
  ASSUME TypeOK, MapInv, NEW k \in Conn, ConnInv(k), TcpConnect(k) \/ TcpReset(k)
  PROVE  MapInv' /\ ConnInv(k)' /\ Others(k)
<1>. DEFINE C == Connector(k)
            A == Acceptor(k)
<1>1. UNCHANGED <<chan, established, peer_id, channel_map, wire, rtts, pending, app, dst_id>>
  BY DEF TcpConnect, TcpReset
<1>2. \A j \in Conn : j # k => tcp'[j] = tcp[j]
  BY DEF TcpConnect, TcpReset, TypeOK
<1>3. \/ tcp[k] = "connecting" /\ tcp'[k] \in {"open", "refused"}
      \/ tcp[k] = "open" /\ tcp'[k] = "reset"
  BY DEF TcpConnect, TcpReset, TypeOK
<1>4. TalkUnchanged(k)
  BY <1>1 DEF TalkUnchanged
<1>5. MapInv'
  BY <1>1, MapSame DEF Known
<1>6. Others(k)
  <2>1. chan' = chan /\ established' = established /\ peer_id' = peer_id /\ wire' = wire
    BY <1>1
  <2>2. rtts' = rtts /\ pending' = pending /\ app' = app /\ dst_id' = dst_id
    BY <1>1
  <2>3. QED
    BY <1>2, <2>1, <2>2 DEF Others, Untouched
<1>7. chan' = chan /\ pending' = pending /\ app' = app /\ dst_id' = dst_id
  BY <1>1
<1>8. Life(k)'
  BY <1>3, <1>7 DEF ConnInv, Life
<1>9. Talk(k)'
  BY <1>4, TalkSame DEF ConnInv
<1>10. Progress(k)'
  <2>1. tcp[k] = "connecting" => Fresh(k) /\ chan[C] # "ACTIVE"
    BY DEF ConnInv, Progress, Life
  <2>2. QED
    BY <1>3, <1>4, <1>7, <2>1, TalkSame DEF ConnInv, Progress
<1>11. Thread(k)'
  <2>1. (Coming(k)' <=> Coming(k)) /\ (Gone(k)' <=> Gone(k))
    BY <1>7 DEF Coming, Gone
  <2>2. QED
    BY <1>3, <1>4, <1>7, <2>1, TalkSame DEF ConnInv, Thread
<1>12. QED
  BY <1>5, <1>6, <1>8, <1>9, <1>10, <1>11 DEF ConnInv

(***************************************************************************)
(* A channel is new to the I/O thread.                                     *)
(***************************************************************************)
LEMMA NewChannelStep ==
  ASSUME TypeOK, MapInv, NEW k \in Conn, ConnInv(k), ioman_handle_event_newchan(k) \/ sock_accept(k)
  PROVE  MapInv' /\ ConnInv(k)' /\ Others(k)
<1>. DEFINE C == Connector(k)
            A == Acceptor(k)
<1>1. UNCHANGED <<tcp, established, peer_id, channel_map, wire, rtts, pending, app, dst_id>>
  BY DEF ioman_handle_event_newchan, sock_accept
<1>2. C \in End /\ A \in End /\ C # A
  BY ConnFacts
<1>3. \/ chan[C] = "NEWCHAN" /\ chan' = [chan EXCEPT ![C] = "SETUP"]
      \/ tcp[k] = "open" /\ chan[A] = "none" /\ chan' = [chan EXCEPT ![A] = "ACTIVE"]
  BY DEF ioman_handle_event_newchan, sock_accept
<1>4. \/ chan[C] = "NEWCHAN" /\ chan'[C] = "SETUP" /\ chan'[A] = chan[A]
      \/ tcp[k] = "open" /\ chan[A] = "none" /\ chan'[A] = "ACTIVE" /\ chan'[C] = chan[C]
  BY <1>2, <1>3 DEF TypeOK
<1>5. TalkUnchanged(k)
  BY <1>1 DEF TalkUnchanged
<1>6. ~Known(A) \/ chan[A] # "none"
  BY DEF ConnInv, Progress
<1>7. MapInv'
  <2>1. \A e \in End : Known(e)' <=> Known(e)
    BY <1>1 DEF Known
  <2>2. \A e \in End : chan'[e] = "ACTIVE" /\ Known(e) <=> chan[e] = "ACTIVE" /\ Known(e)
    BY <1>2, <1>3, <1>6 DEF TypeOK
  <2>3. QED
    BY <1>1, <2>1, <2>2, MapSame
<1>8. Others(k)
  <2>1. tcp' = tcp /\ established' = established /\ peer_id' = peer_id /\ wire' = wire
    BY <1>1
  <2>2. rtts' = rtts /\ pending' = pending /\ app' = app /\ dst_id' = dst_id
    BY <1>1
  <2>3. ASSUME NEW j \in Conn, j # k
        PROVE  chan'[Connector(j)] = chan[Connector(j)] /\ chan'[Acceptor(j)] = chan[Acceptor(j)]
    BY <1>3, <2>3, Apart, ConnFacts DEF TypeOK
  <2>4. QED
    BY <2>1, <2>2, <2>3 DEF Others, Untouched
<1>9. tcp' = tcp /\ pending' = pending /\ app' = app /\ dst_id' = dst_id
  BY <1>1
<1>. HIDE DEF C, A
<1>10. Life(k)'
  BY <1>4, <1>9 DEF ConnInv, Life, C, A
<1>11. Talk(k)'
  BY <1>5, TalkSame DEF ConnInv
<1>12. Progress(k)'
  BY <1>4, <1>5, <1>9, TalkSame DEF ConnInv, Progress, C, A
<1>13. Thread(k)'
  <2>1. (Coming(k)' <=> Coming(k)) /\ (Gone(k)' <=> Gone(k))
    BY <1>4 DEF Coming, Gone, C
  <2>2. QED
    BY <1>5, <1>9, <2>1, TalkSame DEF ConnInv, Thread
<1>14. QED
  BY <1>7, <1>8, <1>10, <1>11, <1>12, <1>13 DEF ConnInv

(***************************************************************************)
(* The attempt succeeds and PING0 is sent, or it fails and the thread is   *)
(* told.                                                                   *)
(***************************************************************************)
LEMMA ActiveStep ==
  ASSUME TypeOK, MapInv, NEW k \in Conn, ConnInv(k), channel_make_active(k)
  PROVE  MapInv' /\ ConnInv(k)' /\ Others(k)
<1>. DEFINE C == Connector(k)
            A == Acceptor(k)
<1>1. UNCHANGED <<tcp, established, peer_id, channel_map, rtts, dst_id>>
  BY DEF channel_make_active
<1>2. C \in End /\ A \in End /\ C # A /\ chan[C] = "SETUP"
  BY ConnFacts DEF channel_make_active
<1>3. Fresh(k)
  BY <1>2 DEF ConnInv, Progress
<1>4. /\ \A e \in End : e # C => chan'[e] = chan[e] /\ wire'[e] = wire[e]
      /\ \A j \in Conn : j # k => pending'[j] = pending[j]
      /\ \A j \in Conn : app'[j] = app[j] \/ (app[j] = "asleep" /\ app'[j] = "woken")
  BY <1>2 DEF channel_make_active, comm_node_notify_failure, Broadcast, TypeOK
<1>5. \/ /\ tcp[k] = "open" /\ chan'[C] = "ACTIVE" /\ wire'[C] = <<"PING0">>
         /\ pending' = pending /\ app' = app
      \/ /\ tcp[k] \in {"refused", "reset"} /\ chan'[C] = "deleted" /\ wire'[C] = <<>>
         /\ ~Locked(k[1]) /\ app'[k] # "asleep"
         /\ pending'[k] = IF pending[k] = "channel" THEN "absent" ELSE pending[k]
  <2>1. wire[C] = <<>>
    BY <1>3 DEF Fresh, Silent
  <2>2. Append(<<>>, "PING0") = <<"PING0">>
    BY OneMessage DEF Kind
  <2>3. CASE tcp[k] = "open"
    <3>1. /\ chan' = [chan EXCEPT ![C] = "ACTIVE"] /\ wire' = [wire EXCEPT ![C] = Append(@, "PING0")]
          /\ pending' = pending /\ app' = app
      BY <2>3 DEF channel_make_active
    <3>2. QED
      BY <1>2, <2>1, <2>2, <2>3, <3>1 DEF TypeOK
  <2>4. CASE tcp[k] # "open"
    <3>1. /\ tcp[k] \in {"refused", "reset"} /\ comm_node_notify_failure(k)
          /\ chan' = [chan EXCEPT ![C] = "deleted"] /\ wire' = wire
      BY <2>4 DEF channel_make_active
    <3>2. ~Locked(k[1]) /\ pending'[k] = IF pending[k] = "channel" THEN "absent" ELSE pending[k]
      BY <3>1 DEF comm_node_notify_failure, TypeOK
    <3>3. app'[k] # "asleep"
      BY <3>1 DEF comm_node_notify_failure, Broadcast, TypeOK
    <3>4. QED
      BY <1>2, <2>1, <3>1, <3>2, <3>3 DEF TypeOK
  <2>5. QED
    BY <2>3, <2>4
<1>6. \A e \in End : Known(e)' <=> Known(e)
  BY <1>1 DEF Known
<1>7. MapInv'
  <2>1. ~Known(C)
    BY <1>3 DEF Fresh
  <2>2. \A e \in End : chan'[e] = "ACTIVE" /\ Known(e) <=> chan[e] = "ACTIVE" /\ Known(e)
    BY <1>4, <2>1
  <2>3. QED
    BY <1>1, <1>6, <2>2, MapSame
<1>8. Others(k)
  <2>1. tcp' = tcp /\ established' = established /\ peer_id' = peer_id /\ rtts' = rtts /\ dst_id' = dst_id
    BY <1>1
  <2>2. ASSUME NEW j \in Conn, j # k
        PROVE  \A e \in {Connector(j), Acceptor(j)} : chan'[e] = chan[e] /\ wire'[e] = wire[e]
    BY <1>4, <2>2, Apart, ConnFacts
  <2>3. QED
    BY <1>4, <2>1, <2>2 DEF Others, Untouched
<1>9. /\ ~Known(C)' /\ ~Known(A)' /\ ~established'[k] /\ wire'[A] = <<>> /\ chan'[A] = chan[A]
      /\ tcp'[k] = tcp[k] /\ dst_id'[k] = dst_id[k]
  BY <1>1, <1>2, <1>3, <1>4, <1>6 DEF Fresh, Silent
<1>10. /\ <<"PING0">> # <<>> /\ <<"PING0">> # <<"PONG0">>
       /\ <<"PONG0">> # <<>> /\ <<"PING1">> # <<>> /\ <<"PONG1">> # <<>>
  BY OneMessage DEF Kind
<1>11. chan[A] \notin {"ACTIVE", "deleted"} \/ tcp[k] \in {"open", "reset"}
  BY DEF ConnInv, Life
<1>. HIDE DEF C, A
<1>12. Life(k)'
  <2>1. tcp[k] # "idle" /\ Life(k)
    BY <1>2 DEF ConnInv, Life, C
  <2>2. QED
    BY <1>5, <1>9, <2>1 DEF Life, C, A
<1>13. Talk(k)'
  BY <1>2, <1>5, <1>9, <1>10 DEF Talk, C, A
<1>14. Progress(k)'
  <2>1. (Silent(k)' <=> wire'[C] = <<>>) /\ (Fresh(k)' <=> wire'[C] = <<>>)
    BY <1>9 DEF Silent, Fresh, C, A
  <2>2. QED
    BY <1>5, <1>9, <1>10, <2>1 DEF Progress, C, A
<1>15. Thread(k)'
  <2>1. CASE tcp[k] = "open"
    <3>1. pending'[k] = pending[k] /\ app'[k] = app[k] /\ chan'[C] = "ACTIVE"
      BY <1>5, <2>1
    <3>2. Coming(k) /\ ~Gone(k) /\ Coming(k)' /\ ~Gone(k)'
      BY <1>2, <3>1 DEF Coming, Gone, C
    <3>3. ~established[k]
      BY <1>3 DEF Fresh
    <3>4. QED
      BY <1>9, <2>1, <3>1, <3>2, <3>3 DEF ConnInv, Thread
  <2>2. CASE tcp[k] # "open"
    <3>1. /\ tcp[k] \in {"refused", "reset"} /\ chan'[C] = "deleted"
          /\ ~Locked(k[1]) /\ app'[k] # "asleep"
          /\ pending'[k] = IF pending[k] = "channel" THEN "absent" ELSE pending[k]
      BY <1>5, <2>2
    <3>2. app[k] # "adding"
      BY <3>1 DEF Locked
    <3>3. Coming(k) /\ ~Gone(k) /\ ~Coming(k)' /\ Gone(k)'
      BY <1>2, <3>1 DEF Coming, Gone, C
    <3>4. app'[k] = app[k] \/ app'[k] = "woken"
      BY <1>4
    <3>5. ~established[k]
      BY <1>3 DEF Fresh
    <3>6. QED
      BY <1>9, <3>1, <3>2, <3>3, <3>4, <3>5 DEF ConnInv, Thread
  <2>3. QED
    BY <2>1, <2>2
<1>16. QED
  BY <1>7, <1>8, <1>12, <1>13, <1>14, <1>15 DEF ConnInv

(***************************************************************************)
(* A channel is deleted after a reset: nothing is promised any more.       *)
(***************************************************************************)
LEMMA DeleteStep ==
  ASSUME OneWay, TypeOK, MapInv, NEW e \in End, ConnInv(e[1]), ioman_delete_channel(e)
  PROVE  MapInv' /\ ConnInv(e[1])' /\ Others(e[1])
<1>. DEFINE k == e[1]
            C == Connector(k)
            A == Acceptor(k)
<1>1. /\ k \in Conn /\ C \in End /\ A \in End /\ C # A /\ (e = C \/ e = A)
      /\ Owner(e) \in Node /\ Owner(Other(e)) \in Node /\ e # NULL
  BY TwoEnds, ConnFacts
<1>2. UNCHANGED <<tcp, established, peer_id, rtts, pending, app, dst_id>>
  BY DEF ioman_delete_channel
<1>3. tcp[k] = "reset" /\ chan[e] = "ACTIVE" /\ chan' = [chan EXCEPT ![e] = "deleted"]
  BY DEF ioman_delete_channel
<1>4. channel_map' = [n \in Node |-> [m \in Node |->
                        IF n = Owner(e) /\ m = peer_id[e] THEN NULL ELSE channel_map[n][m]]]
  BY DEF ioman_delete_channel
<1>5. wire'[e] = wire[e] \/ wire'[e] = <<>>
  <2>1. PICK i \in 0 .. Len(wire[e]) : wire' = [wire EXCEPT ![e] = SubSeq(@, 1, i)]
    BY DEF ioman_delete_channel
  <2>2. wire'[e] = SubSeq(wire[e], 1, i)
    BY <2>1 DEF TypeOK
  <2>3. wire[e] = <<>> \/ \E x \in Kind : wire[e] = <<x>>
    BY <1>1 DEF ConnInv, Talk, Kind
  <2>4. CASE wire[e] = <<>>
    BY <2>1, <2>2, <2>4, OneMessage DEF Kind
  <2>5. CASE \E x \in Kind : wire[e] = <<x>>
    <3>1. PICK x \in Kind : wire[e] = <<x>>
      BY <2>5
    <3>2. i \in 0 .. 1
      BY <2>1, <3>1, OneMessage
    <3>3. QED
      BY <2>2, <3>1, <3>2, OneMessage
  <2>6. QED
    BY <2>3, <2>4, <2>5
<1>6. \A f \in End : f # e => chan'[f] = chan[f] /\ wire'[f] = wire[f]
  BY <1>1 DEF ioman_delete_channel, TypeOK
<1>7. chan'[e] = "deleted"
  BY <1>1, <1>3 DEF TypeOK
<1>8. Others(k)
  <2>1. /\ tcp' = tcp /\ established' = established /\ peer_id' = peer_id /\ rtts' = rtts
        /\ pending' = pending /\ app' = app /\ dst_id' = dst_id
    BY <1>2
  <2>2. ASSUME NEW j \in Conn, j # k
        PROVE  \A f \in {Connector(j), Acceptor(j)} : chan'[f] = chan[f] /\ wire'[f] = wire[f]
    BY <1>1, <1>6, <2>2, Apart, ConnFacts
  <2>3. QED
    BY <2>1, <2>2 DEF Others, Untouched
<1>9. MapInv'
  <2>1. \A f \in End : Known(f)' <=> Known(f)
    BY <1>2 DEF Known
  <2>2. \A n, m \in Node : channel_map'[n][m] =
          IF n = Owner(e) /\ m = peer_id[e] THEN NULL ELSE channel_map[n][m]
    BY <1>4
  <2>3. ASSUME NEW n \in Node, NEW m \in Node, channel_map'[n][m] # NULL
        PROVE  Owner(channel_map'[n][m]) = n /\ Owner(Other(channel_map'[n][m])) = m
    BY <2>2, <2>3 DEF MapInv
  <2>4. ASSUME NEW f \in End
        PROVE  MapOf(f)' = IF chan'[f] = "ACTIVE" /\ Known(f)' THEN f ELSE NULL
    <3>1. Owner(f) \in Node /\ Owner(Other(f)) \in Node
      BY TwoEnds
    <3>2. MapOf(f)' = IF Owner(f) = Owner(e) /\ Owner(Other(f)) = peer_id[e] THEN NULL ELSE MapOf(f)
      BY <2>2, <3>1 DEF MapOf
    <3>3. MapOf(f) = IF chan[f] = "ACTIVE" /\ Known(f) THEN f ELSE NULL
      BY DEF MapInv
    <3>4. Known(e) => peer_id[e] = Owner(Other(e))
      BY DEF Known, TypeOK
    <3>5. ~Known(e) => peer_id[e] \notin Node
      BY ConnAssumption DEF Known
    <3>6. CASE f = e
      BY <1>7, <3>1, <3>2, <3>3, <3>4, <3>5, <3>6
    <3>7. CASE f # e
      <4>1. ~(Owner(f) = Owner(e) /\ Owner(Other(f)) = peer_id[e])
        BY <3>1, <3>4, <3>5, <3>7, OneKey
      <4>2. QED
        BY <1>6, <2>1, <3>2, <3>3, <3>7, <4>1
    <3>8. QED
      BY <3>6, <3>7
  <2>5. QED
    BY <2>3, <2>4 DEF MapInv
<1>10. /\ tcp'[k] = "reset" /\ established'[k] = established[k] /\ pending'[k] = pending[k] /\ app'[k] = app[k]
       /\ (Known(C)' <=> Known(C)) /\ RttOf(C)' = RttOf(C)
       /\ (Known(A)' <=> Known(A)) /\ RttOf(A)' = RttOf(A)
       /\ (wire'[C] = wire[C] \/ wire'[C] = <<>>) /\ (wire'[A] = wire[A] \/ wire'[A] = <<>>)
  BY <1>1, <1>2, <1>3, <1>5, <1>6 DEF Known, RttOf
<1>11. /\ chan'[C] \in {chan[C], "deleted"} /\ (chan'[C] # chan[C] => chan[C] = "ACTIVE")
       /\ chan'[A] \in {chan[A], "deleted"} /\ (chan'[A] # chan[A] => chan[A] = "ACTIVE")
  BY <1>1, <1>3, <1>6, <1>7
<1>12. <<"PING0">> # <<>> /\ <<"PONG0">> # <<>> /\ <<"PING1">> # <<>> /\ <<"PONG1">> # <<>>
  BY OneMessage DEF Kind
<1>13. Life(k) /\ Talk(k) /\ Progress(k) /\ Thread(k)
  BY DEF ConnInv
<1>. HIDE DEF C, A, k
<1>14. Life(k)'
  BY <1>3, <1>10, <1>11, <1>13 DEF Life, C, A
<1>15. Talk(k)'
  BY <1>10, <1>12, <1>13 DEF Talk, Silent, C, A
<1>16. Progress(k)'
  BY <1>10, <1>11, <1>13 DEF Progress, Fresh, Silent, C, A
<1>17. Thread(k)'
  BY <1>3, <1>10, <1>13 DEF Thread
<1>18. ConnInv(k)'
  BY <1>14, <1>15, <1>16, <1>17 DEF ConnInv
<1>19. QED
  BY <1>8, <1>9, <1>18 DEF k

(***************************************************************************)
(* What a handler finds.                                                   *)
(***************************************************************************)
LEMMA HandlesFacts ==
  ASSUME NEW e \in End, ConnInv(e[1]), NEW x \in Kind, Handles(e, x)
  PROVE  /\ wire[Other(e)] = <<x>> /\ wire[e] = <<>> /\ Tail(wire[Other(e)]) = <<>>
         /\ e = IF x \in {"PING0", "PONG0"} THEN Acceptor(e[1]) ELSE Connector(e[1])
<1>. DEFINE k == e[1]
<1>1. /\ k \in Conn /\ (e = Connector(k) \/ e = Acceptor(k))
      /\ Other(Connector(k)) = Acceptor(k) /\ Other(Acceptor(k)) = Connector(k)
  BY TwoEnds, ConnFacts
<1>2. wire[Other(e)] # <<>> /\ Head(wire[Other(e)]) = x
  BY DEF Handles
<1>3. /\ wire[Connector(k)] \in {<<>>, <<"PING0">>, <<"PONG0">>}
      /\ wire[Acceptor(k)] \in {<<>>, <<"PING1">>, <<"PONG1">>}
      /\ wire[Connector(k)] = <<>> \/ wire[Acceptor(k)] = <<>>
  BY DEF ConnInv, Talk
<1>4. \A y \in Kind : Head(<<y>>) = y /\ Tail(<<y>>) = <<>>
  BY OneMessage
<1>5. CASE e = Connector(k)
  BY <1>1, <1>2, <1>3, <1>4, <1>5 DEF Kind
<1>6. CASE e = Acceptor(k)
  BY <1>1, <1>2, <1>3, <1>4, <1>6 DEF Kind
<1>7. QED
  BY <1>1, <1>5, <1>6

LEMMA RegisterMap ==
  ASSUME OneWay, TypeOK, MapInv, NEW e \in End, chan[e] = "ACTIVE", ioman_register_channel(e), chan' = chan
  PROVE  MapInv'
<1>1. Owner(e) \in Node /\ Owner(Other(e)) \in Node /\ e # NULL
  BY TwoEnds
<1>2. \A n, m \in Node : channel_map'[n][m] =
        IF n = Owner(e) /\ m = Owner(Other(e)) THEN e ELSE channel_map[n][m]
  BY <1>1 DEF ioman_register_channel, TypeOK
<1>3. /\ \A f \in End : f # e => peer_id'[f] = peer_id[f]
      /\ peer_id'[e] = Owner(Other(e))
  BY DEF ioman_register_channel, TypeOK
<1>4. Known(e)' /\ \A f \in End : f # e => (Known(f)' <=> Known(f))
  BY <1>1, <1>3, ConnAssumption DEF Known
<1>5. ASSUME NEW n \in Node, NEW m \in Node, channel_map'[n][m] # NULL
      PROVE  Owner(channel_map'[n][m]) = n /\ Owner(Other(channel_map'[n][m])) = m
  BY <1>2, <1>5 DEF MapInv
<1>6. ASSUME NEW f \in End
      PROVE  MapOf(f)' = IF chan'[f] = "ACTIVE" /\ Known(f)' THEN f ELSE NULL
  <2>1. Owner(f) \in Node /\ Owner(Other(f)) \in Node
    BY TwoEnds
  <2>2. MapOf(f)' = IF Owner(f) = Owner(e) /\ Owner(Other(f)) = Owner(Other(e)) THEN e ELSE MapOf(f)
    BY <1>2, <2>1 DEF MapOf
  <2>3. MapOf(f) = IF chan[f] = "ACTIVE" /\ Known(f) THEN f ELSE NULL
    BY DEF MapInv
  <2>4. CASE f = e
    BY <1>4, <2>2, <2>4
  <2>5. CASE f # e
    <3>1. ~(Owner(f) = Owner(e) /\ Owner(Other(f)) = Owner(Other(e)))
      BY <2>5, OneKey
    <3>2. QED
      BY <1>4, <2>2, <2>3, <2>5, <3>1
  <2>6. QED
    BY <2>4, <2>5
<1>7. QED
  BY <1>5, <1>6 DEF MapInv

LEMMA RttChange ==
  ASSUME OneWay, TypeOK, NEW e \in End, NEW v,
         rtts' = [rtts EXCEPT ![Owner(e)][Owner(Other(e))] = v]
  PROVE  RttOf(e)' = v /\ \A f \in End : f # e => RttOf(f)' = RttOf(f)
<1>1. Owner(e) \in Node /\ Owner(Other(e)) \in Node
  BY TwoEnds
<1>2. \A n, m \in Node : rtts'[n][m] = IF n = Owner(e) /\ m = Owner(Other(e)) THEN v ELSE rtts[n][m]
  BY <1>1 DEF TypeOK
<1>3. RttOf(e)' = v
  BY <1>1, <1>2 DEF RttOf
<1>4. ASSUME NEW f \in End, f # e
      PROVE  RttOf(f)' = RttOf(f)
  <2>1. Owner(f) \in Node /\ Owner(Other(f)) \in Node
    BY TwoEnds
  <2>2. ~(Owner(f) = Owner(e) /\ Owner(Other(f)) = Owner(Other(e)))
    BY <1>4, OneKey
  <2>3. QED
    BY <1>2, <2>1, <2>2 DEF RttOf
<1>5. QED
  BY <1>3, <1>4

LEMMA Replied ==
  ASSUME TypeOK, NEW e \in End, NEW y \in Kind, ConnInv(e[1]), NEW x \in Kind, Handles(e, x), Reply(e, e, y)
  PROVE  /\ wire'[Other(e)] = <<>> /\ wire'[e] = <<y>>
         /\ \A f \in End : f # e /\ f # Other(e) => wire'[f] = wire[f]
<1>1. Other(e) \in End /\ Other(e) # e
  BY TwoEnds
<1>2. wire[e] = <<>> /\ Tail(wire[Other(e)]) = <<>> /\ Append(<<>>, y) = <<y>>
  BY HandlesFacts, OneMessage
<1>3. wire' = [wire EXCEPT ![Other(e)] = Tail(@), ![e] = Append(@, y)]
  BY DEF Reply
<1>4. QED
  BY <1>1, <1>2, <1>3 DEF TypeOK

(***************************************************************************)
(* The messages of the exchange.                                           *)
(***************************************************************************)
LEMMA PingStep ==
  ASSUME OneWay, TypeOK, MapInv, NEW e \in End, ConnInv(e[1]), HandlePING0(e) \/ HandlePING1(e)
  PROVE  MapInv' /\ ConnInv(e[1])' /\ Others(e[1])
<1>. DEFINE k == e[1]
            C == Connector(k)
            A == Acceptor(k)
<1>1. /\ k \in Conn /\ C \in End /\ A \in End /\ C # A /\ (e = C \/ e = A)
      /\ Other(C) = A /\ Other(A) = C /\ Owner(Other(e)) \in Node
  BY TwoEnds, ConnFacts
<1>2. PICK x \in Kind, y \in Kind : /\ \/ x = "PING0" /\ y = "PING1"
                                       \/ x = "PING1" /\ y = "PONG0"
                                    /\ HandlePing(e, x, y)
  BY DEF HandlePING0, HandlePING1, Kind
<1>3. /\ Handles(e, x) /\ ioman_register_channel(e) /\ Reply(e, e, y) /\ chan[e] = "ACTIVE"
      /\ rtts' = [rtts EXCEPT ![Owner(e)][Owner(Other(e))] = "started"]
      /\ tcp' = tcp /\ chan' = chan /\ established' = established
      /\ pending' = pending /\ app' = app /\ dst_id' = dst_id
  BY <1>2 DEF HandlePing, Handles
<1>4. MapInv'
  BY <1>3, RegisterMap
<1>5. /\ wire[Other(e)] = <<x>> /\ wire[e] = <<>>
      /\ e = IF x \in {"PING0", "PONG0"} THEN A ELSE C
  BY <1>3, HandlesFacts
<1>6. /\ wire'[Other(e)] = <<>> /\ wire'[e] = <<y>>
      /\ \A f \in End : f # e /\ f # Other(e) => wire'[f] = wire[f]
  BY <1>3, Replied
<1>7. RttOf(e)' = "started" /\ \A f \in End : f # e => RttOf(f)' = RttOf(f)
  BY <1>3, RttChange
<1>8. /\ peer_id'[e] = Owner(Other(e))
      /\ \A f \in End : f # e => peer_id'[f] = peer_id[f]
  BY <1>3 DEF ioman_register_channel, TypeOK
<1>9. Others(k)
  <2>1. ASSUME NEW j \in Conn, j # k
        PROVE  \A f \in {Connector(j), Acceptor(j)} :
                 /\ peer_id'[f] = peer_id[f] /\ wire'[f] = wire[f]
                 /\ rtts'[Owner(f)][Owner(Other(f))] = rtts[Owner(f)][Owner(Other(f))]
    <3>1. SUFFICES ASSUME NEW f \in {Connector(j), Acceptor(j)}
                   PROVE  /\ peer_id'[f] = peer_id[f] /\ wire'[f] = wire[f]
                          /\ rtts'[Owner(f)][Owner(Other(f))] = rtts[Owner(f)][Owner(Other(f))]
      OBVIOUS
    <3>2. f \in End /\ f # C /\ f # A
      BY <1>1, <2>1, Apart, ConnFacts
    <3>3. QED
      BY <1>1, <1>6, <1>7, <1>8, <3>2 DEF RttOf
  <2>2. QED
    BY <1>3, <2>1 DEF Others, Untouched
<1>10. Known(e)' /\ \A f \in End : f # e => (Known(f)' <=> Known(f))
  BY <1>1, <1>8, ConnAssumption DEF Known
<1>11. /\ <<"PING0">> # <<>> /\ <<"PONG0">> # <<>> /\ <<"PING1">> # <<>> /\ <<"PONG1">> # <<>>
       /\ <<"PING0">> # <<"PONG0">> /\ <<"PING1">> # <<"PONG1">>
  BY OneMessage DEF Kind
<1>12. Life(k) /\ Talk(k) /\ Progress(k) /\ Thread(k)
  BY DEF ConnInv
<1>. HIDE DEF C, A, k
<1>13. \/ /\ e = A /\ wire[C] = <<"PING0">> /\ wire[A] = <<>>
          /\ wire'[C] = <<>> /\ wire'[A] = <<"PING1">>
       \/ /\ e = C /\ wire[A] = <<"PING1">> /\ wire[C] = <<>>
          /\ wire'[A] = <<>> /\ wire'[C] = <<"PONG0">>
  BY <1>1, <1>2, <1>5, <1>6
<1>14. ~established[k] /\ ~established'[k] /\ ~Silent(k) /\ ~Silent(k)'
  BY <1>3, <1>11, <1>12, <1>13 DEF Talk, Silent, C, A
<1>15. Life(k)'
  BY <1>3, <1>12 DEF Life
<1>16. Talk(k)'
  <2>1. CASE e = A
    BY <1>1, <1>7, <1>10, <1>11, <1>12, <1>13, <1>14, <2>1 DEF Talk, C, A
  <2>2. CASE e = C
    BY <1>1, <1>7, <1>10, <1>11, <1>12, <1>13, <1>14, <2>2 DEF Talk, C, A
  <2>3. QED
    BY <1>1, <2>1, <2>2
<1>17. Progress(k)'
  <2>1. ~Fresh(k)
    BY <1>14 DEF Fresh
  <2>2. QED
    BY <1>1, <1>3, <1>10, <1>12, <1>14, <2>1 DEF Progress, C, A
<1>18. Thread(k)'
  BY <1>3, <1>12 DEF Thread, Coming, Gone
<1>19. ConnInv(k)'
  BY <1>15, <1>16, <1>17, <1>18 DEF ConnInv
<1>20. QED
  BY <1>4, <1>9, <1>19 DEF k

LEMMA PongStep ==
  ASSUME OneWay, TypeOK, MapInv, NEW e \in End, ConnInv(e[1]), HandlePONG0(e) \/ HandlePONG1(e)
  PROVE  MapInv' /\ ConnInv(e[1])' /\ Others(e[1])
<1>. DEFINE k == e[1]
            C == Connector(k)
            A == Acceptor(k)
<1>1. /\ k \in Conn /\ C \in End /\ A \in End /\ C # A /\ (e = C \/ e = A)
      /\ Other(C) = A /\ Other(A) = C /\ Other(e) \in End /\ Other(e) # e
      /\ Owner(e) = IF e = C THEN k[1] ELSE k[2]
  BY TwoEnds, ConnFacts
<1>2. PICK x \in {"PONG0", "PONG1"} : Handles(e, x) /\ (x = "PONG0" => HandlePONG0(e)) /\ (x = "PONG1" => HandlePONG1(e))
  BY DEF HandlePONG0, HandlePONG1
<1>3. /\ chan[e] = "ACTIVE" /\ tcp' = tcp /\ chan' = chan /\ peer_id' = peer_id /\ pending' = pending
      /\ channel_map' = channel_map /\ dst_id' = dst_id
      /\ rtts' = [rtts EXCEPT ![Owner(e)][Owner(Other(e))] = "measured"]
  BY <1>2 DEF HandlePONG0, HandlePONG1, MeasureEnd, Handles
<1>4. \A f \in End : Known(f)' <=> Known(f)
  BY <1>3 DEF Known
<1>5. MapInv'
  BY <1>3, <1>4, MapSame
<1>6. x \in Kind
  BY <1>2 DEF Kind
<1>7. /\ wire[Other(e)] = <<x>> /\ wire[e] = <<>> /\ Tail(wire[Other(e)]) = <<>>
      /\ e = IF x = "PONG0" THEN A ELSE C
  BY <1>2, <1>6, HandlesFacts
<1>8. RttOf(e)' = "measured" /\ \A f \in End : f # e => RttOf(f)' = RttOf(f)
  BY <1>3, RttChange
<1>9. Life(k) /\ Talk(k) /\ Progress(k) /\ Thread(k)
  BY DEF ConnInv
<1>10. /\ <<"PING0">> # <<>> /\ <<"PONG0">> # <<>> /\ <<"PING1">> # <<>> /\ <<"PONG1">> # <<>>
       /\ <<"PING0">> # <<"PONG0">> /\ <<"PING1">> # <<"PONG1">>
  BY OneMessage DEF Kind
<1>11. /\ wire'[Other(e)] = <<>> /\ wire'[e] = (IF x = "PONG0" THEN <<"PONG1">> ELSE <<>>)
       /\ \A f \in End : f # e /\ f # Other(e) => wire'[f] = wire[f]
  <2>1. CASE x = "PONG0"
    <3>1. MapOf(e) = e
      <4>1. Answerable(e)
        BY <1>2, <2>1 DEF HandlePONG0
      <4>2. MapOf(e) # NULL
        BY <4>1 DEF Answerable, MapOf
      <4>3. QED
        BY <4>2 DEF MapInv
    <3>2. Reply(e, e, "PONG1")
      BY <1>2, <2>1, <3>1 DEF HandlePONG0, MapOf
    <3>3. "PONG1" \in Kind
      BY DEF Kind
    <3>4. QED
      BY <1>2, <1>6, <2>1, <3>2, <3>3, Replied
  <2>2. CASE x = "PONG1"
    <3>1. wire' = [wire EXCEPT ![Other(e)] = Tail(@)]
      BY <1>2, <2>2 DEF HandlePONG1
    <3>2. QED
      BY <1>1, <1>7, <2>2, <3>1 DEF TypeOK
  <2>3. QED
    BY <1>2, <2>1, <2>2
<1>12. /\ \A j \in Conn : j # k => established'[j] = established[j]
       /\ \A j \in Conn : app'[j] = app[j] \/ (app[j] = "asleep" /\ app'[j] = "woken")
       /\ x = "PONG0" => app' = app /\ established' = established
       /\ x = "PONG1" => established'[k] /\ ~Locked(k[1]) /\ app'[k] # "asleep"
  <2>1. CASE x = "PONG0"
    BY <1>2, <2>1 DEF HandlePONG0
  <2>2. CASE x = "PONG1"
    <3>1. /\ established' = [established EXCEPT ![k] = TRUE]
          /\ ~Locked(k[1]) /\ Broadcast(k[1])
      BY <1>1, <1>2, <1>7, <2>2 DEF HandlePONG1
    <3>2. /\ \A j \in Conn : app'[j] = app[j] \/ (app[j] = "asleep" /\ app'[j] = "woken")
          /\ app'[k] # "asleep"
      BY <1>1, <3>1 DEF Broadcast, TypeOK
    <3>3. established'[k] /\ \A j \in Conn : j # k => established'[j] = established[j]
      BY <1>1, <3>1 DEF TypeOK
    <3>4. QED
      BY <2>2, <3>1, <3>2, <3>3
  <2>3. QED
    BY <1>2, <2>1, <2>2
<1>13. Others(k)
  <2>1. ASSUME NEW j \in Conn, j # k
        PROVE  \A f \in {Connector(j), Acceptor(j)} :
                 /\ wire'[f] = wire[f]
                 /\ rtts'[Owner(f)][Owner(Other(f))] = rtts[Owner(f)][Owner(Other(f))]
    <3>1. SUFFICES ASSUME NEW f \in {Connector(j), Acceptor(j)}
                   PROVE  /\ wire'[f] = wire[f]
                          /\ rtts'[Owner(f)][Owner(Other(f))] = rtts[Owner(f)][Owner(Other(f))]
      OBVIOUS
    <3>2. f \in End /\ f # C /\ f # A
      BY <1>1, <2>1, Apart, ConnFacts
    <3>3. QED
      BY <1>1, <1>8, <1>11, <3>2 DEF RttOf
  <2>2. QED
    BY <1>3, <1>12, <2>1 DEF Others, Untouched
<1>. HIDE DEF C, A, k
<1>14. \/ /\ e = A /\ x = "PONG0" /\ wire[C] = <<"PONG0">> /\ wire[A] = <<>>
          /\ wire'[C] = <<>> /\ wire'[A] = <<"PONG1">> /\ established'[k] = established[k]
       \/ /\ e = C /\ x = "PONG1" /\ wire[A] = <<"PONG1">> /\ wire[C] = <<>>
          /\ wire'[A] = <<>> /\ wire'[C] = <<>> /\ established'[k]
  BY <1>1, <1>2, <1>7, <1>11, <1>12
<1>15. ~established[k] /\ ~Silent(k)
  BY <1>9, <1>10, <1>14 DEF Talk, Silent, C, A
<1>16. Life(k)'
  BY <1>3, <1>9 DEF Life
<1>17. Talk(k)'
  <2>1. CASE e = A
    BY <1>1, <1>4, <1>8, <1>9, <1>10, <1>14, <1>15, <2>1 DEF Talk, C, A
  <2>2. CASE e = C
    BY <1>1, <1>4, <1>8, <1>9, <1>10, <1>14, <1>15, <2>2 DEF Talk, Silent, C, A
  <2>3. QED
    BY <1>1, <2>1, <2>2
<1>18. Progress(k)'
  <2>1. ~Fresh(k)
    BY <1>15 DEF Fresh
  <2>2. ~Silent(k)' \/ established'[k]
    BY <1>10, <1>14 DEF Silent, C, A
  <2>3. QED
    BY <1>1, <1>3, <1>4, <1>9, <2>1, <2>2 DEF Progress, C, A
<1>19. Thread(k)'
  <2>1. (Coming(k)' <=> Coming(k)) /\ (Gone(k)' <=> Gone(k))
    BY <1>3 DEF Coming, Gone
  <2>2. CASE x = "PONG0"
    BY <1>3, <1>9, <1>12, <2>1, <2>2 DEF Thread
  <2>3. CASE x = "PONG1"
    <3>1. app[k] # "adding" /\ established'[k] /\ app'[k] # "asleep"
      BY <1>1, <1>12, <2>3 DEF Locked, k
    <3>2. app'[k] = app[k] \/ (app[k] = "asleep" /\ app'[k] = "woken")
      BY <1>1, <1>12
    <3>3. QED
      BY <1>3, <1>9, <2>1, <3>1, <3>2 DEF Thread
  <2>4. QED
    BY <1>2, <2>2, <2>3
<1>20. ConnInv(k)'
  BY <1>16, <1>17, <1>18, <1>19 DEF ConnInv
<1>21. QED
  BY <1>5, <1>13, <1>20 DEF k

-----------------------------------------------------------------------------
LEMMA InitInv ==
  ASSUME Init
  PROVE  IInv
<1>1. TypeOK
  <2>1. <<>> \in Seq(Kind)
    OBVIOUS
  <2>2. wire \in [End -> Seq(Kind)]
    BY <2>1 DEF Init
  <2>3. channel_map \in [Node -> [Node -> End \cup {NULL}]] /\ rtts \in [Node -> [Node -> {"zero", "started", "measured"}]]
    BY DEF Init
  <2>4. /\ tcp \in [Conn -> {"idle", "connecting", "open", "refused", "reset"}]
        /\ chan \in [End -> {"none", "NEWCHAN", "SETUP", "ACTIVE", "deleted"}]
        /\ established \in [Conn -> BOOLEAN]
    BY DEF Init
  <2>5. peer_id \in [End -> Node \cup {UNKNOWN}] /\ \A e \in End : peer_id[e] = UNKNOWN
    BY DEF Init
  <2>6. /\ pending \in [Conn -> {"absent", "NULL", "channel"}]
        /\ app \in [Conn -> {"idle", "adding", "dispatched", "asleep", "woken", "found", "ok", "failed"}]
        /\ dst_id \in [Conn -> Node \cup {UNKNOWN, GARBAGE}]
    BY DEF Init
  <2>7. QED
    BY <2>2, <2>3, <2>4, <2>5, <2>6 DEF TypeOK
<1>2. MapInv
  <2>1. \A n, m \in Node : channel_map[n][m] = NULL
    BY DEF Init
  <2>2. \A e \in End : Owner(e) \in Node /\ Owner(Other(e)) \in Node /\ chan[e] = "none"
    BY TwoEnds DEF Init
  <2>3. QED
    BY <2>1, <2>2 DEF MapInv, MapOf
<1>3. ASSUME NEW k \in Conn
      PROVE  ConnInv(k)
  <2>1. /\ tcp[k] = "idle" /\ app[k] = "idle" /\ pending[k] = "absent" /\ established[k] = FALSE
        /\ \A e \in End : chan[e] = "none" /\ wire[e] = <<>> /\ ~Known(e)
    BY DEF Init, Known
  <2>2. Connector(k) \in End /\ Acceptor(k) \in End
    BY ConnFacts
  <2>3. <<"PING0">> # <<>> /\ <<"PONG0">> # <<>> /\ <<"PING1">> # <<>> /\ <<"PONG1">> # <<>>
    BY OneMessage DEF Kind
  <2>4. Talk(k)
    BY <2>1, <2>2, <2>3 DEF Talk
  <2>5. QED
    BY <2>1, <2>2, <2>4 DEF ConnInv, Life, Progress, Fresh, Silent, Thread
<1>4. QED
  BY <1>1, <1>2, <1>3 DEF IInv

LEMMA NextInv ==
  ASSUME OneWay, IInv, Next
  PROVE  IInv'
<1>1. TypeOK /\ TypeOK' /\ MapInv /\ \A k \in Conn : ConnInv(k)
  BY TypeStep DEF IInv
<1>2. \E k \in Conn : MapInv' /\ ConnInv(k)' /\ Others(k)
  <2>1. ASSUME NEW k \in Conn,
               \/ comm_node_async_connect(k) \/ channel_hash_map_add(k)
               \/ comm_node_connect_wait(k) \/ connect_wait_return(k) \/ SpuriousWakeup(k)
               \/ TcpConnect(k) \/ TcpReset(k)
               \/ ioman_handle_event_newchan(k) \/ channel_make_active(k) \/ sock_accept(k)
        PROVE  MapInv' /\ ConnInv(k)' /\ Others(k)
    BY <1>1, <2>1, ConnectStep, ThreadStep, TcpStep, NewChannelStep, ActiveStep
  <2>2. ASSUME NEW e \in End, comm_node_handle_msg(e) \/ ioman_delete_channel(e)
        PROVE  e[1] \in Conn /\ MapInv' /\ ConnInv(e[1])' /\ Others(e[1])
    BY <1>1, <2>2, TwoEnds, PingStep, PongStep, DeleteStep DEF comm_node_handle_msg
  <2>3. QED
    BY <2>1, <2>2 DEF Next
<1>3. \A j \in Conn : Untouched(j) => ConnInv(j)'
  BY <1>1, Kept
<1>4. \A j \in Conn : ConnInv(j)'
  BY <1>2, <1>3 DEF Others
<1>5. QED
  BY <1>1, <1>2, <1>4 DEF IInv

LEMMA StutterInv ==
  ASSUME IInv, UNCHANGED vars
  PROVE  IInv'
<1>1. /\ tcp' = tcp /\ chan' = chan /\ established' = established /\ peer_id' = peer_id
      /\ channel_map' = channel_map /\ wire' = wire /\ rtts' = rtts /\ pending' = pending
      /\ app' = app /\ dst_id' = dst_id
  BY DEF vars
<1>2. TypeOK'
  BY <1>1 DEF IInv, TypeOK
<1>3. MapInv'
  BY <1>1, MapSame DEF IInv, Known
<1>4. \A j \in Conn : ConnInv(j)'
  BY <1>1, Kept DEF IInv, Untouched
<1>5. QED
  BY <1>2, <1>3, <1>4 DEF IInv

(***************************************************************************)
(* What holds of every connection at every moment.                         *)
(***************************************************************************)
THEOREM Invariance ==
  ASSUME OneWay
  PROVE  SafeSpec => []IInv
<1>1. Init => IInv
  BY InitInv
<1>2. IInv /\ [Next]_vars => IInv'
  BY NextInv, StutterInv
<1>3. QED
  BY <1>1, <1>2, PTL DEF SafeSpec

(***************************************************************************)
(* The messages under way are handled by an end that is ready for them.    *)
(***************************************************************************)
LEMMA InvAsserts ==
  ASSUME IInv
  PROVE  AssertsHold
<1>1. SUFFICES ASSUME NEW e \in End
               PROVE  /\ Handles(e, "PING0") \/ Handles(e, "PING1") => Registrable(e)
                      /\ Handles(e, "PONG0") => Answerable(e)
                      /\ Handles(e, "PONG1") => Announceable(e)
                      /\ chan[e] = "ACTIVE" => Deletable(e)
  BY DEF AssertsHold
<1>. DEFINE k == e[1]
            C == Connector(k)
            A == Acceptor(k)
<1>2. /\ k \in Conn /\ ConnInv(k) /\ Talk(k) /\ (e = C \/ e = A)
      /\ Other(C) = A /\ Other(A) = C /\ Owner(e) \in Node /\ Owner(Other(e)) \in Node /\ e # NULL
  BY TwoEnds, ConnFacts DEF IInv, ConnInv
<1>3. MapOf(e) = IF chan[e] = "ACTIVE" /\ Known(e) THEN e ELSE NULL
  BY DEF IInv, MapInv
<1>4. \A x \in Kind : Handles(e, x) =>
        /\ chan[e] = "ACTIVE" /\ wire[Other(e)] = <<x>>
        /\ e = IF x \in {"PING0", "PONG0"} THEN A ELSE C
  BY <1>2, HandlesFacts DEF Handles
<1>5. Handles(e, "PING0") \/ Handles(e, "PING1") => Registrable(e)
  <2>1. SUFFICES ASSUME Handles(e, "PING0") \/ Handles(e, "PING1")
                 PROVE  Registrable(e)
    OBVIOUS
  <2>2. \/ wire[C] = <<"PING0">> /\ e = A
        \/ wire[A] = <<"PING1">> /\ e = C
    BY <1>2, <1>4, <2>1 DEF Kind
  <2>3. ~Known(e)
    BY <1>2, <2>2 DEF Talk
  <2>4. QED
    BY <1>3, <2>3 DEF Registrable, Known, MapOf
<1>6. Handles(e, "PONG0") => Answerable(e)
  <2>1. SUFFICES ASSUME Handles(e, "PONG0")
                 PROVE  Answerable(e)
    OBVIOUS
  <2>2. chan[e] = "ACTIVE" /\ wire[C] = <<"PONG0">> /\ e = A
    BY <1>2, <1>4, <2>1 DEF Kind
  <2>3. Known(e) /\ RttOf(e) # "zero"
    BY <1>2, <2>2 DEF Talk
  <2>4. QED
    BY <1>2, <1>3, <2>2, <2>3 DEF Answerable, MapOf, RttOf
<1>7. Handles(e, "PONG1") => Announceable(e)
  <2>1. SUFFICES ASSUME Handles(e, "PONG1")
                 PROVE  Announceable(e)
    OBVIOUS
  <2>2. wire[A] = <<"PONG1">> /\ e = C
    BY <1>2, <1>4, <2>1 DEF Kind
  <2>3. RttOf(e) # "zero" /\ ~established[k]
    <3>1. <<"PONG1">> # <<>>
      BY OneMessage DEF Kind
    <3>2. QED
      BY <1>2, <2>2, <3>1 DEF Talk, Silent
  <2>4. QED
    BY <2>3 DEF Announceable, RttOf
<1>8. chan[e] = "ACTIVE" => Deletable(e)
  <2>1. Known(e) => peer_id[e] = Owner(Other(e))
    BY DEF IInv, TypeOK, Known
  <2>2. QED
    BY <1>3, <2>1 DEF Deletable, Known, MapOf
<1>9. QED
  BY <1>5, <1>6, <1>7, <1>8

LEMMA InvPending ==
  ASSUME IInv
  PROVE  OneStepPending
<1>1. SUFFICES ASSUME NEW k \in Conn, app[k] = "asleep", tcp[k] # "reset"
               PROVE  (IF chan[Connector(k)] \in {"NEWCHAN", "SETUP"} THEN 1 ELSE 0)
                        + Len(wire[Connector(k)]) + Len(wire[Acceptor(k)]) = 1
  BY DEF OneStepPending
<1>2. Talk(k) /\ Progress(k) /\ Thread(k)
  BY DEF IInv, ConnInv
<1>3. Coming(k) /\ ~established[k]
  BY <1>1, <1>2 DEF Thread
<1>4. Len(<<>>) = 0 /\ \A x \in Kind : Len(<<x>>) = 1
  BY OneMessage DEF Kind
<1>5. CASE chan[Connector(k)] \in {"NEWCHAN", "SETUP"}
  <2>1. Len(wire[Connector(k)]) = 0 /\ Len(wire[Acceptor(k)]) = 0
    BY <1>2, <1>4, <1>5 DEF Progress, Fresh, Silent
  <2>2. (IF chan[Connector(k)] \in {"NEWCHAN", "SETUP"} THEN 1 ELSE 0) = 1
    BY <1>5
  <2>3. QED
    BY <2>1, <2>2
<1>6. CASE chan[Connector(k)] = "ACTIVE"
  <2>1. ~Silent(k)
    BY <1>1, <1>2, <1>3, <1>6 DEF Progress
  <2>2. \/ Len(wire[Connector(k)]) = 1 /\ Len(wire[Acceptor(k)]) = 0
        \/ Len(wire[Connector(k)]) = 0 /\ Len(wire[Acceptor(k)]) = 1
    BY <1>2, <1>4, <2>1 DEF Talk, Silent, Kind
  <2>3. (IF chan[Connector(k)] \in {"NEWCHAN", "SETUP"} THEN 1 ELSE 0) = 0
    BY <1>6
  <2>4. CASE Len(wire[Connector(k)]) = 1 /\ Len(wire[Acceptor(k)]) = 0
    BY <2>3, <2>4
  <2>5. CASE Len(wire[Connector(k)]) = 0 /\ Len(wire[Acceptor(k)]) = 1
    BY <2>3, <2>5
  <2>6. QED
    BY <2>2, <2>4, <2>5
<1>7. QED
  BY <1>3, <1>5, <1>6 DEF Coming

LEMMA InvMap ==
  ASSUME IInv
  PROVE  NoDanglingMap
<1>1. SUFFICES ASSUME NEW n \in Node, NEW m \in Node, channel_map[n][m] # NULL
               PROVE  LET e == channel_map[n][m]
                      IN  chan[e] = "ACTIVE" /\ Owner(e) = n /\ Owner(Other(e)) = m
  BY DEF NoDanglingMap
<1>. DEFINE e == channel_map[n][m]
<1>2. e \in End
  BY <1>1 DEF IInv, TypeOK
<1>3. Owner(e) = n /\ Owner(Other(e)) = m
  BY <1>1 DEF IInv, MapInv
<1>4. MapOf(e) = e
  BY <1>3 DEF MapOf
<1>5. e # NULL /\ MapOf(e) = IF chan[e] = "ACTIVE" /\ Known(e) THEN e ELSE NULL
  BY <1>1, <1>2 DEF IInv, MapInv
<1>6. QED
  BY <1>3, <1>4, <1>5

(***************************************************************************)
(* No assertion of the handlers fails, channel_map leads to open channels  *)
(* only, and whoever sleeps in connect_wait has exactly one step of its    *)
(* connection to wait for, whatever TCP does to this one or the others.    *)
(***************************************************************************)
THEOREM ConnectionsTheorem ==
  ASSUME OneWay
  PROVE  Spec => []ConnectionsConsistent
<1>1. IInv => ConnectionsConsistent
  BY InvAsserts, InvPending, InvMap DEF ConnectionsConsistent, IInv
<1>2. QED
  BY <1>1, Invariance, PTL DEF Spec

(***************************************************************************)
(* When connect_wait reports success, both ends have the connection in     *)
(* their channel_map and have measured it, unless it was reset.            *)
(***************************************************************************)
THEOREM AgreementTheorem ==
  ASSUME OneWay
  PROVE  Spec => []Agreement
<1>1. IInv => Agreement
  <2>1. SUFFICES ASSUME IInv, NEW k \in Conn, app[k] = "ok", tcp[k] # "reset"
                 PROVE  /\ dst_id[k] = k[2]
                        /\ channel_map[k[1]][k[2]] = Connector(k)
                        /\ channel_map[k[2]][k[1]] = Acceptor(k)
                        /\ rtts[k[1]][k[2]] = "measured" /\ rtts[k[2]][k[1]] = "measured"
    BY DEF Agreement
  <2>. DEFINE C == Connector(k)
              A == Acceptor(k)
  <2>2. /\ C \in End /\ A \in End /\ Other(C) = A /\ Other(A) = C
        /\ Owner(C) = k[1] /\ Owner(A) = k[2] /\ C # NULL /\ A # NULL
    BY ConnFacts
  <2>3. Life(k) /\ Talk(k) /\ Progress(k) /\ Thread(k)
    BY <2>1 DEF IInv, ConnInv
  <2>4. established[k] /\ dst_id[k] = k[2]
    BY <2>1, <2>3 DEF Thread
  <2>5. Known(C) /\ Known(A) /\ RttOf(C) = "measured" /\ RttOf(A) = "measured"
    BY <2>3, <2>4 DEF Talk
  <2>6. tcp[k] \notin {"idle", "connecting", "refused"}
    BY <2>3, <2>4 DEF Progress, Fresh
  <2>7. chan[C] = "ACTIVE" /\ chan[A] = "ACTIVE"
    BY <2>1, <2>3, <2>5, <2>6 DEF Progress, Life
  <2>8. MapOf(C) = C /\ MapOf(A) = A
    BY <2>1, <2>2, <2>5, <2>7 DEF IInv, MapInv
  <2>9. QED
    BY <2>2, <2>4, <2>5, <2>8 DEF MapOf, RttOf
<1>2. QED
  BY <1>1, Invariance, PTL DEF Spec

(***************************************************************************)
(* A connection that connect_wait reports as failed leaves nothing behind  *)
(* and cannot succeed later, unless it was reset.                          *)
(***************************************************************************)
THEOREM FailureTheorem ==
  ASSUME OneWay
  PROVE  Spec => []CleanFailure
<1>1. IInv => CleanFailure
  <2>1. SUFFICES ASSUME IInv, NEW k \in Conn, app[k] = "failed", tcp[k] # "reset"
                 PROVE  /\ chan[Connector(k)] \in {"none", "deleted"} /\ chan[Acceptor(k)] = "none"
                        /\ channel_map[k[1]][k[2]] # Connector(k) /\ ~ established[k]
    BY DEF CleanFailure
  <2>2. Life(k) /\ Progress(k) /\ Thread(k)
    BY <2>1 DEF IInv, ConnInv
  <2>3. chan[Connector(k)] \in {"none", "deleted"}
    BY <2>1, <2>2 DEF Thread, Gone
  <2>4. tcp[k] \in {"idle", "refused"}
    BY <2>1, <2>2, <2>3 DEF Life
  <2>5. chan[Acceptor(k)] = "none" /\ ~established[k]
    BY <2>2, <2>4 DEF Life, Progress, Fresh
  <2>6. MapOf(Connector(k)) = NULL
    BY <2>1, <2>3, ConnFacts DEF IInv, MapInv
  <2>7. QED
    BY <2>3, <2>5, <2>6, ConnFacts DEF MapOf
<1>2. QED
  BY <1>1, Invariance, PTL DEF Spec
=============================================================================
