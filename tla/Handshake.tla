----------------------------- MODULE Handshake -----------------------------
(***************************************************************************)
(* Connection establishment: comm_node_async_connect and                   *)
(* comm_node_connect_wait (src/src/comm/comm.c), the NEWCHAN event, the    *)
(* SETUP state and the accept of src/src/comm/ioman.c, and the exchange    *)
(* PING0, PING1, PONG0, PONG1 by which both ends of a new TCP connection   *)
(* learn who the other is and measure the round trip.                      *)
(*                                                                         *)
(* Three parties meet in it: the application threads, which share the      *)
(* table of pending connections with the I/O thread under the node's       *)
(* mutex and sleep on its condition variable; the two I/O threads; and     *)
(* TCP, which may open a connection, refuse it or reset it.                *)
(*                                                                         *)
(* Granularity.  One action per handler of the I/O thread.  The mutex of   *)
(* a node is held across two actions only by comm_node_async_connect.      *)
(* wire[e] is the send queue of e's channel followed by what the kernel    *)
(* carries of it; Pipeline models how one becomes the other.               *)
(***************************************************************************)
EXTENDS Naturals, Sequences, FiniteSets

CONSTANTS
  Node,      \* the nodes
  Conn,      \* connections attempted: <<n, m>> is n connecting to m
  Faults,    \* what TCP may do besides opening a connection: "refuse", "reset"
  NULL,      \* no channel
  UNKNOWN,   \* CHANNEL_PEER_UNKNOWN
  GARBAGE    \* what a read of freed memory returns

ASSUME ConnAssumption ==
  /\ Conn \subseteq Node \X Node
  /\ \A k \in Conn : k[1] # k[2]
  /\ Faults \subseteq {"refuse", "reset"}
  /\ UNKNOWN \notin Node /\ GARBAGE \notin Node

Connector(k) == <<k, "connector">>
Acceptor(k) == <<k, "acceptor">>
End == {Connector(k) : k \in Conn} \cup {Acceptor(k) : k \in Conn}
Other(e) == IF e = Connector(e[1]) THEN Acceptor(e[1]) ELSE Connector(e[1])
Owner(e) == IF e = Connector(e[1]) THEN e[1][1] ELSE e[1][2]
Kind == {"PING0", "PING1", "PONG0", "PONG1"}

ASSUME NullAssumption == NULL \notin End

VARIABLES
  tcp,          \* tcp[k]: the TCP connection of k
  chan,         \* chan[e]: state of the channel_t at end e
  established,  \* established[k]: connect_state of the connector's channel
  peer_id,      \* peer_id[e]: who e believes is at the other end
  channel_map,  \* channel_map[n][m]: the channel n uses towards m
  wire,         \* wire[e]: messages sent by e that its peer has not handled
  rtts,         \* rtts[n][m]: 0, a start time or a round trip time
  pending,      \* pending[k]: entry of k's handle in pending_conns
  app,          \* app[k]: progress of the application thread that wants k
  dst_id        \* dst_id[k]: what connect_wait returned

vars == <<tcp, chan, established, peer_id, channel_map, wire, rtts, pending, app,
          dst_id>>

TypeOK ==
  /\ tcp \in [Conn -> {"idle", "connecting", "open", "refused", "reset"}]
  /\ chan \in [End -> {"none", "NEWCHAN", "SETUP", "ACTIVE", "deleted"}]
  /\ established \in [Conn -> BOOLEAN]
  /\ peer_id \in [End -> Node \cup {UNKNOWN}]
  /\ \A e \in End : peer_id[e] \in {UNKNOWN, Owner(Other(e))}
  /\ channel_map \in [Node -> [Node -> End \cup {NULL}]]
  /\ wire \in [End -> Seq(Kind)]
  /\ rtts \in [Node -> [Node -> {"zero", "started", "measured"}]]
  /\ pending \in [Conn -> {"absent", "NULL", "channel"}]
  /\ app \in [Conn -> {"idle", "adding", "dispatched", "asleep", "woken", "found",
                       "ok", "failed"}]
  /\ dst_id \in [Conn -> Node \cup {UNKNOWN, GARBAGE}]

Init ==
  /\ tcp = [k \in Conn |-> "idle"]
  /\ chan = [e \in End |-> "none"]
  /\ established = [k \in Conn |-> FALSE]
  /\ peer_id = [e \in End |-> UNKNOWN]
  /\ channel_map = [n \in Node |-> [m \in Node |-> NULL]]
  /\ wire = [e \in End |-> <<>>]
  /\ rtts = [n \in Node |-> [m \in Node |-> "zero"]]
  /\ pending = [k \in Conn |-> "absent"]
  /\ app = [k \in Conn |-> "idle"]
  /\ dst_id = [k \in Conn |-> UNKNOWN]

-----------------------------------------------------------------------------
(***************************************************************************)
(* The application.                                                        *)
(***************************************************************************)

(***************************************************************************)
(* Whether a thread is inside comm_node_async_connect on node n, between   *)
(* announcing the channel to the I/O thread and registering its handle.    *)
(***************************************************************************)
Locked(n) == \E k \in Conn : k[1] = n /\ app[k] = "adding"

comm_node_async_connect(k) ==
  /\ app[k] = "idle"
  /\ ~ Locked(k[1])
  /\ \/ /\ tcp' = [tcp EXCEPT ![k] = "connecting"]
        /\ chan' = [chan EXCEPT ![Connector(k)] = "NEWCHAN"]
        /\ app' = [app EXCEPT ![k] = "adding"]
        /\ UNCHANGED pending
     \/ /\ "refuse" \in Faults
        /\ pending' = [pending EXCEPT ![k] = "NULL"]
        /\ app' = [app EXCEPT ![k] = "dispatched"]
        /\ UNCHANGED <<tcp, chan>>
  /\ UNCHANGED <<established, peer_id, channel_map, wire, rtts, dst_id>>

channel_hash_map_add(k) ==
  /\ app[k] = "adding"
  /\ pending' = [pending EXCEPT ![k] = "channel"]
  /\ app' = [app EXCEPT ![k] = "dispatched"]
  /\ UNCHANGED <<tcp, chan, established, peer_id, channel_map, wire, rtts, dst_id>>

(***************************************************************************)
(* What channel_is_established may return: the entry of a deleted channel  *)
(* is not removed from pending_conns, so the channel may be freed memory.  *)
(***************************************************************************)
channel_is_established(k) ==
  IF chan[Connector(k)] = "deleted" THEN {TRUE, FALSE} ELSE {established[k]}

(***************************************************************************)
(* Mutant: the loop is an if, a thread that wakes up takes what it finds.  *)
(***************************************************************************)
comm_node_connect_wait_if(k) ==
  /\ app[k] \in {"dispatched", "woken"}
  /\ ~ Locked(k[1])
  /\ app' = [app EXCEPT ![k] = CASE established[k] -> "found"
                                 [] pending[k] # "channel" \/ app[k] = "woken" -> "failed"
                                 [] OTHER -> "asleep"]
  /\ pending' = [pending EXCEPT ![k] = IF app'[k] = "asleep" THEN @ ELSE "absent"]
  /\ UNCHANGED <<tcp, chan, established, peer_id, channel_map, wire, rtts, dst_id>>

(***************************************************************************)
(* One round of the waiting loop, under the mutex.                         *)
(***************************************************************************)
comm_node_connect_wait(k) ==
  /\ app[k] \in {"dispatched", "woken"}
  /\ ~ Locked(k[1])
  /\ \/ /\ pending[k] = "channel"
        /\ FALSE \in channel_is_established(k)
        /\ app' = [app EXCEPT ![k] = "asleep"]
        /\ UNCHANGED pending
     \/ /\ pending[k] = "channel"
        /\ TRUE \in channel_is_established(k)
        /\ app' = [app EXCEPT ![k] = "found"]
        /\ pending' = [pending EXCEPT ![k] = "absent"]
     \/ /\ pending[k] # "channel"
        /\ app' = [app EXCEPT ![k] = "failed"]
        /\ pending' = [pending EXCEPT ![k] = "absent"]
  /\ UNCHANGED <<tcp, chan, established, peer_id, channel_map, wire, rtts, dst_id>>

(***************************************************************************)
(* After the loop the mutex is released and only then the peer is read.    *)
(***************************************************************************)
connect_wait_return(k) ==
  /\ app[k] = "found"
  /\ app' = [app EXCEPT ![k] = "ok"]
  /\ dst_id' = [dst_id EXCEPT ![k] = IF chan[Connector(k)] = "deleted"
                                     THEN GARBAGE ELSE peer_id[Connector(k)]]
  /\ UNCHANGED <<tcp, chan, established, peer_id, channel_map, wire, rtts, pending>>

SpuriousWakeup(k) ==
  /\ app[k] = "asleep"
  /\ app' = [app EXCEPT ![k] = "woken"]
  /\ UNCHANGED <<tcp, chan, established, peer_id, channel_map, wire, rtts, pending,
                 dst_id>>

(***************************************************************************)
(* pthread_cond_broadcast on the condition variable of node n.             *)
(***************************************************************************)
Broadcast(n) ==
  app' = [k \in Conn |-> IF k[1] = n /\ app[k] = "asleep" THEN "woken" ELSE app[k]]

-----------------------------------------------------------------------------
(***************************************************************************)
(* TCP.                                                                    *)
(***************************************************************************)
TcpConnect(k) ==
  /\ tcp[k] = "connecting"
  /\ \/ tcp' = [tcp EXCEPT ![k] = "open"]
     \/ "refuse" \in Faults /\ tcp' = [tcp EXCEPT ![k] = "refused"]
  /\ UNCHANGED <<chan, established, peer_id, channel_map, wire, rtts, pending, app,
                 dst_id>>

TcpReset(k) ==
  /\ "reset" \in Faults
  /\ tcp[k] = "open"
  /\ tcp' = [tcp EXCEPT ![k] = "reset"]
  /\ UNCHANGED <<chan, established, peer_id, channel_map, wire, rtts, pending, app,
                 dst_id>>

-----------------------------------------------------------------------------
(***************************************************************************)
(* The I/O threads.                                                        *)
(***************************************************************************)
ioman_handle_event_newchan(k) ==
  /\ chan[Connector(k)] = "NEWCHAN"
  /\ chan' = [chan EXCEPT ![Connector(k)] = "SETUP"]
  /\ UNCHANGED <<tcp, established, peer_id, channel_map, wire, rtts, pending, app,
                 dst_id>>

(***************************************************************************)
(* Mutant: the failure is announced without taking the mutex of the node.  *)
(***************************************************************************)
notify_failure_unlocked(k) ==
  /\ pending' = [pending EXCEPT ![k] = IF @ = "channel" THEN "absent" ELSE @]
  /\ Broadcast(k[1])

(***************************************************************************)
(* channel_hash_map_remove removes the entry by its value: the channel.    *)
(***************************************************************************)
comm_node_notify_failure(k) ==
  /\ ~ Locked(k[1])
  /\ pending' = [pending EXCEPT ![k] = IF @ = "channel" THEN "absent" ELSE @]
  /\ Broadcast(k[1])

(***************************************************************************)
(* A channel in state SETUP turns writable: TCP has decided.               *)
(***************************************************************************)
channel_make_active(k) ==
  /\ chan[Connector(k)] = "SETUP"
  /\ \/ /\ tcp[k] = "open"
        /\ chan' = [chan EXCEPT ![Connector(k)] = "ACTIVE"]
        /\ wire' = [wire EXCEPT ![Connector(k)] = Append(@, "PING0")]
        /\ UNCHANGED <<pending, app>>
     \/ /\ tcp[k] \in {"refused", "reset"}
        /\ comm_node_notify_failure(k)
        /\ chan' = [chan EXCEPT ![Connector(k)] = "deleted"]
        /\ UNCHANGED wire
  /\ UNCHANGED <<tcp, established, peer_id, channel_map, rtts, dst_id>>

sock_accept(k) ==
  /\ tcp[k] = "open"
  /\ chan[Acceptor(k)] = "none"
  /\ chan' = [chan EXCEPT ![Acceptor(k)] = "ACTIVE"]
  /\ UNCHANGED <<tcp, established, peer_id, channel_map, wire, rtts, pending, app,
                 dst_id>>

(***************************************************************************)
(* A read fails: the peer closed or TCP reset the connection.  What e has  *)
(* sent may reach the peer up to some message.  Whoever waits for the      *)
(* connection is not told.  Mutant first: the entry of the dead channel in *)
(* channel_map is kept.                                                    *)
(***************************************************************************)
Deletable(e) == peer_id[e] # UNKNOWN => channel_map[Owner(e)][peer_id[e]] = e

ioman_delete_channel_mapped(e) ==
  /\ chan[e] = "ACTIVE"
  /\ tcp[e[1]] = "reset"
  /\ chan' = [chan EXCEPT ![e] = "deleted"]
  /\ wire' = [wire EXCEPT ![e] = <<>>]
  /\ UNCHANGED <<tcp, established, peer_id, channel_map, rtts, pending, app, dst_id>>

ioman_delete_channel(e) ==
  /\ chan[e] = "ACTIVE"
  /\ tcp[e[1]] = "reset"
  /\ Deletable(e)
  /\ chan' = [chan EXCEPT ![e] = "deleted"]
  /\ channel_map' = [n \in Node |-> [m \in Node |->
                       IF n = Owner(e) /\ m = peer_id[e] THEN NULL ELSE channel_map[n][m]]]
  /\ \E i \in 0..Len(wire[e]) : wire' = [wire EXCEPT ![e] = SubSeq(@, 1, i)]
  /\ UNCHANGED <<tcp, established, peer_id, rtts, pending, app, dst_id>>

(***************************************************************************)
(* End e handles the next message of its peer.  A reply goes out on the    *)
(* channel that channel_map has for the peer.                              *)
(***************************************************************************)
Handles(e, kind) ==
  /\ chan[e] = "ACTIVE"
  /\ wire[Other(e)] # <<>>
  /\ Head(wire[Other(e)]) = kind

Reply(e, to, kind) ==
  wire' = [wire EXCEPT ![Other(e)] = Tail(@), ![to] = Append(@, kind)]

ioman_register_channel_self(e) ==
  /\ channel_map' = [channel_map EXCEPT ![Owner(e)][Owner(e)] = e]
  /\ peer_id' = [peer_id EXCEPT ![e] = Owner(e)]

ioman_register_channel(e) ==
  /\ channel_map' = [channel_map EXCEPT ![Owner(e)][Owner(Other(e))] = e]
  /\ peer_id' = [peer_id EXCEPT ![e] = Owner(Other(e))]

Registrable(e) ==
  channel_map[Owner(e)][Owner(Other(e))] = NULL /\ peer_id[e] = UNKNOWN

(***************************************************************************)
(* PING0 at the acceptor and PING1 at the connector.                       *)
(***************************************************************************)
HandlePing(e, kind, reply) ==
  /\ Handles(e, kind)
  /\ Registrable(e)
  /\ ioman_register_channel(e)
  /\ rtts' = [rtts EXCEPT ![Owner(e)][Owner(Other(e))] = "started"]
  /\ Reply(e, e, reply)
  /\ UNCHANGED <<tcp, chan, established, pending, app, dst_id>>

HandlePING0(e) == HandlePing(e, "PING0", "PING1")

(***************************************************************************)
(* Mutant: the connection is announced as soon as the peer is known.       *)
(***************************************************************************)
HandlePING1_announced(e) ==
  /\ Handles(e, "PING1")
  /\ Registrable(e)
  /\ ~ Locked(Owner(e))
  /\ ioman_register_channel(e)
  /\ rtts' = [rtts EXCEPT ![Owner(e)][Owner(Other(e))] = "started"]
  /\ Reply(e, e, "PONG0")
  /\ established' = [established EXCEPT ![e[1]] = TRUE]
  /\ Broadcast(Owner(e))
  /\ UNCHANGED <<tcp, chan, pending, dst_id>>

HandlePING1(e) == HandlePing(e, "PING1", "PONG0")

MeasureEnd(e) == rtts' = [rtts EXCEPT ![Owner(e)][Owner(Other(e))] = "measured"]

(***************************************************************************)
(* PONG0 at the acceptor.                                                  *)
(***************************************************************************)
Answerable(e) ==
  /\ rtts[Owner(e)][Owner(Other(e))] # "zero"
  /\ channel_map[Owner(e)][Owner(Other(e))] # NULL

HandlePONG0(e) ==
  /\ Handles(e, "PONG0")
  /\ Answerable(e)
  /\ MeasureEnd(e)
  /\ Reply(e, channel_map[Owner(e)][Owner(Other(e))], "PONG1")
  /\ UNCHANGED <<tcp, chan, established, peer_id, channel_map, pending, app, dst_id>>

(***************************************************************************)
(* PONG1 at the connector: comm_node_notify_success.                       *)
(***************************************************************************)
Announceable(e) == rtts[Owner(e)][Owner(Other(e))] # "zero" /\ ~ established[e[1]]

HandlePONG1(e) ==
  /\ Handles(e, "PONG1")
  /\ Announceable(e)
  /\ ~ Locked(Owner(e))
  /\ MeasureEnd(e)
  /\ wire' = [wire EXCEPT ![Other(e)] = Tail(@)]
  /\ established' = [established EXCEPT ![e[1]] = TRUE]
  /\ Broadcast(Owner(e))
  /\ UNCHANGED <<tcp, chan, peer_id, channel_map, pending, dst_id>>

comm_node_handle_msg(e) ==
  HandlePING0(e) \/ HandlePING1(e) \/ HandlePONG0(e) \/ HandlePONG1(e)

-----------------------------------------------------------------------------
Next ==
  \/ \E k \in Conn :
       \/ comm_node_async_connect(k) \/ channel_hash_map_add(k)
       \/ comm_node_connect_wait(k) \/ connect_wait_return(k) \/ SpuriousWakeup(k)
       \/ TcpConnect(k) \/ TcpReset(k)
       \/ ioman_handle_event_newchan(k) \/ channel_make_active(k) \/ sock_accept(k)
  \/ \E e \in End : comm_node_handle_msg(e) \/ ioman_delete_channel(e)

(***************************************************************************)
(* Threads that can run do, select() reports every descriptor that stays   *)
(* ready, and TCP decides every connection attempt in the end.  Nobody has *)
(* to start a connection, reset one, or wake up without reason.            *)
(***************************************************************************)
Fairness ==
  /\ \A k \in Conn :
       /\ WF_vars(TcpConnect(k))
       /\ WF_vars(channel_hash_map_add(k))
       /\ WF_vars(comm_node_connect_wait(k))
       /\ WF_vars(connect_wait_return(k))
       /\ WF_vars(ioman_handle_event_newchan(k))
       /\ WF_vars(channel_make_active(k))
       /\ WF_vars(sock_accept(k))
  /\ \A e \in End : /\ WF_vars(comm_node_handle_msg(e))
                    /\ WF_vars(ioman_delete_channel(e))

SafeSpec == Init /\ [][Next]_vars
Spec == SafeSpec /\ Fairness

-----------------------------------------------------------------------------
(***************************************************************************)
(* The assertions of the handlers hold: a message never meets an end that  *)
(* is not ready for it.  Without this, a node aborts in                    *)
(* ioman_register_channel (ioman.c:69), ioman_delete_channel (ioman.c:83), *)
(* ioman_send_msg (ioman.c:639), comm_node_rtt_measure_end (comm.c:267) or *)
(* channel_make_established (channel.c:143).                               *)
(***************************************************************************)
AssertsHold ==
  \A e \in End :
    /\ Handles(e, "PING0") \/ Handles(e, "PING1") => Registrable(e)
    /\ Handles(e, "PONG0") => Answerable(e)
    /\ Handles(e, "PONG1") => Announceable(e)
    /\ chan[e] = "ACTIVE" => Deletable(e)

(***************************************************************************)
(* channel_map never leads to freed memory or to somebody else: the I/O    *)
(* thread dereferences its entries for every message and every next hop.   *)
(***************************************************************************)
NoDanglingMap ==
  \A n, m \in Node : channel_map[n][m] # NULL =>
    LET e == channel_map[n][m]
    IN  chan[e] = "ACTIVE" /\ Owner(e) = n /\ Owner(Other(e)) = m

(***************************************************************************)
(* When comm_node_connect_wait returns success, both ends have registered  *)
(* this connection for each other and both have measured the round trip:   *)
(* the application may compute routes over it and the peer may forward.    *)
(* Only a reset of this very connection can take it away again.            *)
(***************************************************************************)
Agreement ==
  \A k \in Conn : app[k] = "ok" /\ tcp[k] # "reset" =>
    /\ dst_id[k] = k[2]
    /\ channel_map[k[1]][k[2]] = Connector(k) /\ channel_map[k[2]][k[1]] = Acceptor(k)
    /\ rtts[k[1]][k[2]] = "measured" /\ rtts[k[2]][k[1]] = "measured"

(***************************************************************************)
(* A connection reported as failed leaves nothing behind: no channel, no   *)
(* entry in either channel_map, and no way for it to succeed later, unless *)
(* it is a reset that made it fail.                                        *)
(***************************************************************************)
CleanFailure ==
  \A k \in Conn : app[k] = "failed" /\ tcp[k] # "reset" =>
    /\ chan[Connector(k)] \in {"none", "deleted"} /\ chan[Acceptor(k)] = "none"
    /\ channel_map[k[1]][k[2]] # Connector(k) /\ ~ established[k]

(***************************************************************************)
(* As long as a thread sleeps in comm_node_connect_wait, the handshake of  *)
(* its connection has exactly one step to go next: the channel is on its   *)
(* way to ACTIVE, or one message of the exchange is under way.  A reset of *)
(* the connection leaves it none; other connections' resets do not matter. *)
(***************************************************************************)
OneStepPending ==
  \A k \in Conn : app[k] = "asleep" /\ tcp[k] # "reset" =>
    (IF chan[Connector(k)] \in {"NEWCHAN", "SETUP"} THEN 1 ELSE 0)
      + Len(wire[Connector(k)]) + Len(wire[Acceptor(k)]) = 1

(***************************************************************************)
(* comm_node_connect_wait returns for every connection that was started    *)
(* (dlfree.c:46-51: success, or non-zero on failure).                      *)
(***************************************************************************)
ConnectReturns ==
  \A k \in Conn : app[k] # "idle" ~> app[k] \in {"ok", "failed"}

(***************************************************************************)
(* It does unless that connection was reset, whatever happens to others.   *)
(***************************************************************************)
ConnectReturnsUnlessReset ==
  \A k \in Conn : app[k] # "idle" ~> app[k] \in {"ok", "failed"} \/ tcp[k] = "reset"

(***************************************************************************)
(* What the node keeps about its connections never contradicts itself: no  *)
(* assertion fails, a thread that waits has exactly one thing to wait for, *)
(* and nothing points to a channel that is gone.                           *)
(***************************************************************************)
ConnectionsConsistent == TypeOK /\ AssertsHold /\ OneStepPending /\ NoDanglingMap
=============================================================================
