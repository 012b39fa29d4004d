--------------------------- MODULE RouteExchange ---------------------------
(***************************************************************************)
(* From connected channels to usable routes (gxp_man_connect and           *)
(* gxp_man_compute_rt, with comm_node_exchange_rt between them).           *)
(*                                                                         *)
(* Every node finishes the connections it opened, takes part in the        *)
(* exchange of connection information, computes its routing table, floods  *)
(* it over the overlay, waits until it has the tables of all nodes, and    *)
(* synchronises.  Only then do applications send data, and only then may   *)
(* a chunk meet a node: comm_node_lookup_rt asserts that the table of the  *)
(* chunk's source is there.  The two collective exchanges are what orders  *)
(* flooding after the last registration and data after the last table.     *)
(*                                                                         *)
(* GXP's group channel delivers all lines to all nodes: reading N lines is *)
(* waiting until every node has written its own.                           *)
(***************************************************************************)
EXTENDS Naturals, Sequences, FiniteSets, Functions

CONSTANTS
  Node,    \* the nodes, GXP indices
  Conn,    \* connections: <<a, b>> is opened by a
  Path,    \* Path[s, d]: the path of d's entry in the table of s
  Sends    \* the messages sent after the exchange, pairs <<s, d>>

Link == Conn \cup {<<e[2], e[1]>> : e \in Conn}

ASSUME RouteExchangeAssumption ==
  /\ IsFiniteSet(Node)
  /\ Conn \subseteq Node \X Node
  /\ \A e \in Conn : e[1] # e[2] /\ <<e[2], e[1]>> \notin Conn
  /\ Sends \subseteq Node \X Node
  /\ \A x \in Sends :
       /\ Path[x] \in Seq(Node) /\ Len(Path[x]) > 1
       /\ Path[x][1] = x[1] /\ Path[x][Len(Path[x])] = x[2]
       /\ \A i \in 1 .. Len(Path[x]) - 1 : <<Path[x][i], Path[x][i + 1]>> \in Link

VARIABLES
  peers,    \* peers[n]: the nodes in channel_map of n
  app,      \* where the application thread of n is
  rts,      \* rts[n]: sources whose table n has
  num_rts,  \* num_rts[n]
  pipe,     \* pipe[n]: BCASTMSG events in the notify pipe, by source of the table
  local,    \* local[n]: chunks in the local channel, pairs <<source, destination>>
  wire,     \* wire[<<n, m>>]: messages on their way from n to m
  sent,     \* messages handed to dlfree_comm_node_send_data
  got       \* messages delivered to their destination

vars == <<peers, app, rts, num_rts, pipe, local, wire, sent, got>>

Table(s) == [kind |-> "RT", src |-> s]
Chunk(x) == [kind |-> "DATA", msg |-> x]
Msg == {Table(s) : s \in Node} \cup {Chunk(x) : x \in Sends}

TypeOK ==
  /\ peers \in [Node -> SUBSET Node]
  /\ app \in [Node -> {"connect", "conn_info", "compute", "bcast", "count", "check",
                       "cond_wait", "exchanged", "sync", "send"}]
  /\ rts \in [Node -> SUBSET Node]
  /\ num_rts \in [Node -> 0 .. Cardinality(Node)]
  /\ pipe \in [Node -> Seq(Node)]
  /\ local \in [Node -> Seq(Sends)]
  /\ wire \in [Link -> Seq(Msg)]
  /\ sent \subseteq Sends
  /\ got \subseteq sent

Init ==
  /\ peers = [n \in Node |-> {}]
  /\ app = [n \in Node |-> "connect"]
  /\ rts = [n \in Node |-> {}]
  /\ num_rts = [n \in Node |-> 0]
  /\ pipe = [n \in Node |-> <<>>]
  /\ local = [n \in Node |-> <<>>]
  /\ wire = [c \in Link |-> <<>>]
  /\ sent = {}
  /\ got = {}

-----------------------------------------------------------------------------
(***************************************************************************)
(* The handshake, as far as it matters here: the acceptor registers the    *)
(* connector on PING0, the connector the acceptor on PING1.  That          *)
(* connect_wait returns no earlier is Handshake's Agreement.               *)
(***************************************************************************)
HandlePing0(e) ==
  /\ e[1] \notin peers[e[2]]
  /\ peers' = [peers EXCEPT ![e[2]] = @ \cup {e[1]}]
  /\ UNCHANGED <<app, rts, num_rts, pipe, local, wire, sent, got>>

HandlePing1(e) ==
  /\ e[1] \in peers[e[2]] /\ e[2] \notin peers[e[1]]
  /\ peers' = [peers EXCEPT ![e[1]] = @ \cup {e[2]}]
  /\ UNCHANGED <<app, rts, num_rts, pipe, local, wire, sent, got>>

-----------------------------------------------------------------------------
(***************************************************************************)
(* Application threads.                                                    *)
(***************************************************************************)
Move(n, from, to) == app[n] = from /\ app' = [app EXCEPT ![n] = to]

(***************************************************************************)
(* All of n's connect_waits have returned; n writes its connection info,   *)
(* and reads that of all others.                                           *)
(***************************************************************************)
WriteConnInfo(n) ==
  /\ Move(n, "connect", "conn_info")
  /\ \A e \in Conn : e[1] = n => e[2] \in peers[n]
  /\ UNCHANGED <<peers, rts, num_rts, pipe, local, wire, sent, got>>

ReadConnInfo(n) ==
  /\ Move(n, "conn_info", "compute")
  /\ \A m \in Node : app[m] # "connect"
  /\ UNCHANGED <<peers, rts, num_rts, pipe, local, wire, sent, got>>

(***************************************************************************)
(* comm_node_exchange_rt: the own table is stored without the mutex, then  *)
(* broadcast, and counted under the mutex in the first round of the wait.  *)
(***************************************************************************)
StoreOwn(n) ==
  /\ Move(n, "compute", "bcast")
  /\ rts' = [rts EXCEPT ![n] = @ \cup {n}]
  /\ UNCHANGED <<peers, num_rts, pipe, local, wire, sent, got>>

BcastOwn(n) ==
  /\ Move(n, "bcast", "count")
  /\ pipe' = [pipe EXCEPT ![n] = Append(@, n)]
  /\ UNCHANGED <<peers, rts, num_rts, local, wire, sent, got>>

(***************************************************************************)
(* Mutant: the own table is not counted.                                   *)
(***************************************************************************)
CountOwn_not(n) ==
  /\ Move(n, "count", "check")
  /\ UNCHANGED <<peers, rts, num_rts, pipe, local, wire, sent, got>>

CountOwn(n) ==
  /\ Move(n, "count", "check")
  /\ num_rts' = [num_rts EXCEPT ![n] = @ + 1]
  /\ UNCHANGED <<peers, rts, pipe, local, wire, sent, got>>

(***************************************************************************)
(* One round of the wait; cond_wait may return without a broadcast.        *)
(***************************************************************************)
CheckTables(n) ==
  /\ Move(n, "check", IF num_rts[n] < Cardinality(Node) THEN "cond_wait" ELSE "exchanged")
  /\ UNCHANGED <<peers, rts, num_rts, pipe, local, wire, sent, got>>

SpuriousWakeup(n) ==
  /\ Move(n, "cond_wait", "check")
  /\ UNCHANGED <<peers, rts, num_rts, pipe, local, wire, sent, got>>

(***************************************************************************)
(* gxp_man_sync at the end of gxp_man_compute_rt.                          *)
(***************************************************************************)
WriteSync(n) ==
  /\ Move(n, "exchanged", "sync")
  /\ UNCHANGED <<peers, rts, num_rts, pipe, local, wire, sent, got>>

(***************************************************************************)
(* Mutant: gxp_man_compute_rt returns without gxp_man_sync.                *)
(***************************************************************************)
ReadSync_alone(n) ==
  /\ Move(n, "sync", "send")
  /\ UNCHANGED <<peers, rts, num_rts, pipe, local, wire, sent, got>>

ReadSync(n) ==
  /\ Move(n, "sync", "send")
  /\ \A m \in Node : app[m] \in {"sync", "send"}
  /\ UNCHANGED <<peers, rts, num_rts, pipe, local, wire, sent, got>>

SendData(x) ==
  /\ app[x[1]] = "send"
  /\ x \notin sent
  /\ sent' = sent \cup {x}
  /\ local' = [local EXCEPT ![x[1]] = Append(@, x)]
  /\ UNCHANGED <<peers, app, rts, num_rts, pipe, wire, got>>

-----------------------------------------------------------------------------
(***************************************************************************)
(* I/O threads.                                                            *)
(***************************************************************************)
(***************************************************************************)
(* ioman_handle_event_bcastmsg: to every node in channel_map, the one the  *)
(* table came from included.                                               *)
(***************************************************************************)
HandleBcast(n) ==
  /\ pipe[n] # <<>>
  /\ pipe' = [pipe EXCEPT ![n] = Tail(@)]
  /\ wire' = [c \in Link |-> IF c[1] = n /\ c[2] \in peers[n]
                             THEN Append(wire[c], Table(Head(pipe[n])))
                             ELSE wire[c]]
  /\ UNCHANGED <<peers, app, rts, num_rts, local, sent, got>>

(***************************************************************************)
(* comm_node_register_rt and the bcast that follows a new table.  A        *)
(* second copy is dropped.                                                 *)
(***************************************************************************)
Wake(n) == app' = [app EXCEPT ![n] = IF @ = "cond_wait" THEN "check" ELSE @]

(***************************************************************************)
(* Mutant: every copy is counted and passed on.                            *)
(***************************************************************************)
RegisterTable_always(n, s) ==
  /\ rts' = [rts EXCEPT ![n] = @ \cup {s}]
  /\ num_rts' = [num_rts EXCEPT ![n] = @ + 1]
  /\ pipe' = [pipe EXCEPT ![n] = Append(@, s)]
  /\ Wake(n)

(***************************************************************************)
(* Mutant: the table is kept, not passed on.                               *)
(***************************************************************************)
RegisterTable_keep(n, s) ==
  /\ rts' = [rts EXCEPT ![n] = @ \cup {s}]
  /\ num_rts' = [num_rts EXCEPT ![n] = IF s \in rts[n] THEN @ ELSE @ + 1]
  /\ pipe' = pipe
  /\ Wake(n)

RegisterTable(n, s) ==
  \/ /\ s \in rts[n]
     /\ UNCHANGED <<rts, num_rts, pipe, app>>
  \/ /\ s \notin rts[n]
     /\ rts' = [rts EXCEPT ![n] = @ \cup {s}]
     /\ num_rts' = [num_rts EXCEPT ![n] = @ + 1]
     /\ pipe' = [pipe EXCEPT ![n] = Append(@, s)]
     /\ Wake(n)

RecvTable(c) ==
  /\ wire[c] # <<>> /\ Head(wire[c]).kind = "RT"
  /\ RegisterTable(c[2], Head(wire[c]).src)
  /\ wire' = [wire EXCEPT ![c] = Tail(@)]
  /\ UNCHANGED <<peers, local, sent, got>>

(***************************************************************************)
(* comm_node_lookup_rt: the node after n on the path.                      *)
(***************************************************************************)
comm_node_lookup_rt(n, x) ==
  Path[x][1 + CHOOSE i \in 1 .. Len(Path[x]) - 1 : Path[x][i] = n]

(***************************************************************************)
(* ioman_get_nexthop_channel stops on an assertion unless the table and    *)
(* the channel are there.                                                  *)
(***************************************************************************)
CanRoute(n, x) == x[1] \in rts[n] /\ comm_node_lookup_rt(n, x) \in peers[n]

ForwardLocal(n) ==
  /\ local[n] # <<>>
  /\ LET x == Head(local[n]) IN
       /\ CanRoute(n, x)
       /\ wire' = [wire EXCEPT ![<<n, comm_node_lookup_rt(n, x)>>] = Append(@, Chunk(x))]
  /\ local' = [local EXCEPT ![n] = Tail(@)]
  /\ UNCHANGED <<peers, app, rts, num_rts, pipe, sent, got>>

RecvData(c) ==
  /\ wire[c] # <<>> /\ Head(wire[c]).kind = "DATA"
  /\ LET x == Head(wire[c]).msg
         n == c[2]
     IN  \/ /\ x[2] = n
            /\ wire' = [wire EXCEPT ![c] = Tail(@)]
            /\ got' = got \cup {x}
         \/ /\ x[2] # n
            /\ CanRoute(n, x)
            /\ wire' = [wire EXCEPT ![c] = Tail(@),
                                    ![<<n, comm_node_lookup_rt(n, x)>>] = Append(@, Chunk(x))]
            /\ got' = got
  /\ UNCHANGED <<peers, app, rts, num_rts, pipe, local, sent>>

Application(n) ==
  \/ WriteConnInfo(n) \/ ReadConnInfo(n)
  \/ StoreOwn(n) \/ BcastOwn(n) \/ CountOwn(n) \/ CheckTables(n)
  \/ WriteSync(n) \/ ReadSync(n)

(***************************************************************************)
(* Everything is done: the applications would go on with other messages.   *)
(***************************************************************************)
Done ==
  /\ \A n \in Node : app[n] = "send"
  /\ got = Sends
  /\ UNCHANGED vars

Next ==
  \/ \E e \in Conn : HandlePing0(e) \/ HandlePing1(e)
  \/ \E n \in Node : Application(n) \/ SpuriousWakeup(n) \/ HandleBcast(n) \/ ForwardLocal(n)
  \/ \E c \in Link : RecvTable(c) \/ RecvData(c)
  \/ \E x \in Sends : SendData(x)
  \/ Done

(***************************************************************************)
(* Threads run, select() reports every descriptor that stays ready, TCP    *)
(* delivers, and connections are set up.                                   *)
(***************************************************************************)
Fairness ==
  /\ \A e \in Conn : WF_vars(HandlePing0(e)) /\ WF_vars(HandlePing1(e))
  /\ \A n \in Node : WF_vars(Application(n)) /\ WF_vars(HandleBcast(n))
                     /\ WF_vars(ForwardLocal(n))
  /\ \A c \in Link : WF_vars(RecvTable(c)) /\ WF_vars(RecvData(c))

Spec == Init /\ [][Next]_vars
FairSpec == Spec /\ Fairness

-----------------------------------------------------------------------------
(***************************************************************************)
(* num_rts counts the tables a node has, except that its own may be        *)
(* stored and not counted yet: a thread and the I/O thread count in        *)
(* different critical sections, and tables arrive before the node has      *)
(* computed its own.                                                       *)
(***************************************************************************)
CountMatches ==
  \A n \in Node :
    num_rts[n] + (IF app[n] \in {"bcast", "count"} THEN 1 ELSE 0) = Cardinality(rts[n])

(***************************************************************************)
(* comm_node_exchange_rt returns only when the node has all tables.        *)
(***************************************************************************)
ExchangeComplete ==
  \A n \in Node : app[n] \in {"exchanged", "sync", "send"} => rts[n] = Node

(***************************************************************************)
(* A chunk that is about to be routed at a node, from its local channel or *)
(* from a neighbour, finds the table of its source and the channel to the  *)
(* next hop: neither assertion of ioman_get_nexthop_channel fails.         *)
(***************************************************************************)
ChunksCanBeRouted ==
  /\ \A n \in Node : local[n] # <<>> => CanRoute(n, Head(local[n]))
  /\ \A c \in Link :
       wire[c] # <<>> /\ Head(wire[c]).kind = "DATA" /\ Head(wire[c]).msg[2] # c[2]
         => CanRoute(c[2], Head(wire[c]).msg)

(***************************************************************************)
(* The flood ends: a node passes each table on once, so no channel and no  *)
(* notify pipe ever holds a table twice.                                   *)
(***************************************************************************)
FloodOnce ==
  \A c \in Link :
    /\ IsInjective(pipe[c[1]])
    /\ \A i, j \in DOMAIN wire[c] :
         wire[c][i].kind = "RT" /\ wire[c][i] = wire[c][j] => i = j
    /\ \A i \in DOMAIN wire[c], j \in DOMAIN pipe[c[1]] : wire[c][i] # Table(pipe[c[1]][j])

(***************************************************************************)
(* When a node broadcasts a table, all its connections are registered: no  *)
(* neighbour is left out of the flood.                                     *)
(***************************************************************************)
NeighboursKnown ==
  \A n \in Node : pipe[n] # <<>> => \A c \in Link : c[1] = n => c[2] \in peers[n]

(***************************************************************************)
(* On a connected overlay the exchange ends at every node.  (That messages *)
(* arrive after it is the absence of deadlock: only Done repeats a state.) *)
(***************************************************************************)
ExchangeEnds == \A n \in Node : <>[](app[n] = "send")

(***************************************************************************)
(* The tables a node has, the number it keeps of them and the neighbours   *)
(* it takes them from agree, whoever registered and counted them.          *)
(***************************************************************************)
TablesConsistent == TypeOK /\ CountMatches /\ ExchangeComplete /\ NeighboursKnown
=============================================================================
