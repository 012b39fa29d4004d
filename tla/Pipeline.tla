------------------------------ MODULE Pipeline ------------------------------
(***************************************************************************)
(* Chunk forwarding in DLFree: src/src/comm/channel.c and the read and     *)
(* write handlers of src/src/comm/ioman.c, on every node of the overlay.   *)
(*                                                                         *)
(* A node has one channel per overlay neighbour and a local channel that   *)
(* its application threads push chunks into.  One I/O thread per node      *)
(* moves chunks from the channel they arrive on to the channel of the next *)
(* hop.  Send queues are bounded: when the next channel's queue is full,   *)
(* the arriving channel stops reading (CHANNEL_BLOCKING) and joins a wait  *)
(* queue, until channel_write has made room.  Back-pressure therefore      *)
(* travels hop by hop, and a cycle of full channels never drains: that is  *)
(* the deadlock DLFree's routing is there to avoid.                        *)
(*                                                                         *)
(* Granularity.  A message on the wire is a header and a body, each sent   *)
(* and received by one non-blocking call that may fail with EAGAIN between *)
(* any two of them.  A run of ioman_process_channel_read is ReadHeader,    *)
(* ReadBody or one followed by the other; a run of channel_write is any    *)
(* number of WriteHeader and WriteBody steps, ended by an empty queue or   *)
(* by EAGAIN, which the kernel may return before any byte.                 *)
(***************************************************************************)
EXTENDS Naturals, Sequences, FiniteSets

CONSTANTS
  Node,        \* the nodes of the overlay
  Link,        \* overlay edges, both directions: <<n, m>> is the channel of n to m
  Stream,      \* streams of data chunks, one per sending application thread
  Src, Dst,    \* Src[t], Dst[t]: end nodes of stream t
  NChunks,     \* NChunks[t]: number of chunks in stream t
  Route,       \* Route[<<s, d>>]: path of the routing table of s to d
  LIMIT,       \* CHANNEL_MSG_QUEUE_LIMIT
  WireCap,     \* headers and bodies the kernel buffers in one direction of a connection
  NCtrl,       \* NCtrl[n]: bound on the control messages node n sends
  Ctrl,        \* a control message (pings, routing tables)
  NULL         \* no buffer

Local(n) == <<n, n>>
Chan == Link \cup {Local(n) : n \in Node}
Rev(c) == <<c[2], c[1]>>
Chunk == [str : Stream, seq : Nat \ {0}]
Msg == Chunk \cup {Ctrl}
Path(t) == Route[<<Src[t], Dst[t]>>]

ASSUME TopologyAssumption ==
  /\ Link \subseteq Node \X Node
  /\ \A c \in Link : c[1] # c[2] /\ Rev(c) \in Link

ASSUME RouteAssumption ==
  /\ Src \in [Stream -> Node]
  /\ Dst \in [Stream -> Node]
  /\ \A t \in Stream :
       /\ Path(t) \in Seq(Node)
       /\ Len(Path(t)) >= 2
       /\ Path(t)[1] = Src[t]
       /\ Path(t)[Len(Path(t))] = Dst[t]
       /\ \A i, j \in 1..Len(Path(t)) : Path(t)[i] = Path(t)[j] => i = j
       /\ \A i \in 1..Len(Path(t)) - 1 : <<Path(t)[i], Path(t)[i + 1]>> \in Link

ASSUME BoundAssumption ==
  /\ LIMIT \in Nat \ {0}
  /\ WireCap \in Nat \ {0}
  /\ NCtrl \in [Node -> Nat]
  /\ NChunks \in [Stream -> Nat]
  /\ Ctrl \notin Chunk
  /\ NULL \notin Msg

VARIABLES
  queue,     \* queue[c]: buff_queue, messages to send on c (local: chunks of the application)
  head_off,  \* head_off[c] = 1: the header of Head(queue[c]) is sent, its body is not
  wire,      \* wire[c]: messages written on c of which the peer has not read the body
  state,     \* CHANNEL_ACTIVE or CHANNEL_BLOCKING
  curr,      \* curr[c]: curr_buff, the message being read from c or waiting to be passed on
  waitq,     \* waitq[c]: wait_queue, channels blocked until c has room
  sent,      \* sent[t]: chunks of stream t pushed so far
  recv,      \* recv[t]: chunk numbers of stream t handed to its destination, in order
  ctrl       \* ctrl[n]: control messages sent by n

vars == <<queue, head_off, wire, state, curr, waitq, sent, recv, ctrl>>

TypeOK ==
  /\ queue \in [Chan -> Seq(Msg)]
  /\ head_off \in [Link -> {0, 1}]
  /\ wire \in [Link -> Seq(Msg)]
  /\ state \in [Chan -> {"ACTIVE", "BLOCKING"}]
  /\ curr \in [Chan -> Msg \cup {NULL}]
  /\ waitq \in [Link -> Seq(Chan)]
  /\ sent \in [Stream -> Nat]
  /\ recv \in [Stream -> Seq(Nat)]
  /\ ctrl \in [Node -> Nat]

Init ==
  /\ queue = [c \in Chan |-> <<>>]
  /\ head_off = [c \in Link |-> 0]
  /\ wire = [c \in Link |-> <<>>]
  /\ state = [c \in Chan |-> "ACTIVE"]
  /\ curr = [c \in Chan |-> NULL]
  /\ waitq = [c \in Link |-> <<>>]
  /\ sent = [t \in Stream |-> 0]
  /\ recv = [t \in Stream |-> <<>>]
  /\ ctrl = [n \in Node |-> 0]

-----------------------------------------------------------------------------
(***************************************************************************)
(* Routing: the node after n on the path of the source's routing table.    *)
(***************************************************************************)
(***************************************************************************)
(* Mutant: the end of the path instead of the next node on it.             *)
(***************************************************************************)
comm_node_lookup_rt_last(n, t) == Path(t)[Len(Path(t))]

comm_node_lookup_rt(n, t) ==
  LET i == CHOOSE i \in 1..Len(Path(t)) - 1 : Path(t)[i] = n
  IN  Path(t)[i + 1]

ioman_get_nexthop_channel(n, t) == <<n, comm_node_lookup_rt(n, t)>>

channel_pipeline_chunk_not_waiting(c, k, next, q) ==
  /\ IF Len(q[next]) < LIMIT
     THEN /\ state' = [state EXCEPT ![c] = "ACTIVE"]
          /\ queue' = [q EXCEPT ![next] = Append(@, k)]
          /\ curr' = [curr EXCEPT ![c] = NULL]
     ELSE /\ state' = [state EXCEPT ![c] = "BLOCKING"]
          /\ queue' = q
          /\ curr' = [curr EXCEPT ![c] = k]
  /\ UNCHANGED waitq

channel_pipeline_chunk_dropped(c, k, next, q) ==
  /\ state' = [state EXCEPT ![c] = "ACTIVE"]
  /\ queue' = IF Len(q[next]) < LIMIT THEN [q EXCEPT ![next] = Append(@, k)] ELSE q
  /\ curr' = [curr EXCEPT ![c] = NULL]
  /\ UNCHANGED waitq

(***************************************************************************)
(* Pass chunk k, read from channel c, on to channel next; q is the queues  *)
(* as the handler has left them so far.                                    *)
(***************************************************************************)
channel_pipeline_chunk(c, k, next, q) ==
  \/ /\ Len(q[next]) < LIMIT
     /\ state' = [state EXCEPT ![c] = "ACTIVE"]
     /\ queue' = [q EXCEPT ![next] = Append(@, k)]
     /\ curr' = [curr EXCEPT ![c] = NULL]
     /\ UNCHANGED waitq
  \/ /\ Len(q[next]) >= LIMIT
     /\ state' = [state EXCEPT ![c] = "BLOCKING"]
     /\ queue' = q
     /\ curr' = [curr EXCEPT ![c] = k]
     /\ waitq' = [waitq EXCEPT ![next] = Append(@, c)]

-----------------------------------------------------------------------------
(***************************************************************************)
(* Application threads.  channel_local_push_chunk waits while the queue of *)
(* the local channel is full.                                              *)
(***************************************************************************)
comm_node_send_data(t) ==
  LET c == Local(Src[t])
  IN  /\ sent[t] < NChunks[t]
      /\ Len(queue[c]) < LIMIT
      /\ queue' = [queue EXCEPT ![c] = Append(@, [str |-> t, seq |-> sent[t] + 1])]
      /\ sent' = [sent EXCEPT ![t] = @ + 1]
      /\ UNCHANGED <<head_off, wire, state, curr, waitq, recv, ctrl>>

(***************************************************************************)
(* The I/O thread queues a control message, whatever the queue holds.      *)
(***************************************************************************)
channel_send_msg(c) ==
  /\ ctrl[c[1]] < NCtrl[c[1]]
  /\ ctrl' = [ctrl EXCEPT ![c[1]] = @ + 1]
  /\ queue' = [queue EXCEPT ![c] = Append(@, Ctrl)]
  /\ UNCHANGED <<head_off, wire, state, curr, waitq, sent, recv>>

(***************************************************************************)
(* The I/O thread takes a whole chunk from the local channel.              *)
(***************************************************************************)
CanReadLocal(n) == state[Local(n)] = "ACTIVE" /\ queue[Local(n)] # <<>>

ioman_process_local_channel_read(n) ==
  LET c == Local(n)
      k == Head(queue[c])
  IN  /\ CanReadLocal(n)
      /\ channel_pipeline_chunk(c, k, ioman_get_nexthop_channel(n, k.str),
                                [queue EXCEPT ![c] = Tail(@)])
      /\ UNCHANGED <<head_off, wire, sent, recv, ctrl>>

(***************************************************************************)
(* Reading from a neighbour.  curr[c] # NULL on an ACTIVE channel: header  *)
(* read, body not yet complete.                                            *)
(***************************************************************************)
CanReadHeader(c) ==
  /\ state[c] = "ACTIVE"
  /\ curr[c] = NULL
  /\ wire[Rev(c)] # <<>>

ReadHeader(c) ==
  /\ CanReadHeader(c)
  /\ curr' = [curr EXCEPT ![c] = Head(wire[Rev(c)])]
  /\ UNCHANGED <<queue, head_off, wire, state, waitq, sent, recv, ctrl>>

CanReadBody(c) ==
  /\ state[c] = "ACTIVE"
  /\ curr[c] # NULL
  /\ wire[Rev(c)] # <<>>
  /\ Len(wire[Rev(c)]) = 1 => head_off[Rev(c)] = 0

(***************************************************************************)
(* The body is complete: a control message is handled, a chunk for this    *)
(* node goes to comm_node_handle_chunk, any other chunk is passed on.      *)
(***************************************************************************)
ReadBody(c) ==
  LET k == curr[c]
  IN  /\ CanReadBody(c)
      /\ wire' = [wire EXCEPT ![Rev(c)] = Tail(@)]
      /\ \/ /\ k = Ctrl
            /\ curr' = [curr EXCEPT ![c] = NULL]
            /\ UNCHANGED <<queue, state, waitq, recv>>
         \/ /\ k # Ctrl
            /\ Dst[k.str] = c[1]
            /\ curr' = [curr EXCEPT ![c] = NULL]
            /\ recv' = [recv EXCEPT ![k.str] = Append(@, k.seq)]
            /\ UNCHANGED <<queue, state, waitq>>
         \/ /\ k # Ctrl
            /\ Dst[k.str] # c[1]
            /\ channel_pipeline_chunk(c, k, ioman_get_nexthop_channel(c[1], k.str), queue)
            /\ UNCHANGED recv
      /\ UNCHANGED <<head_off, sent, ctrl>>

(***************************************************************************)
(* Writing to a neighbour: sock_try_send_n takes what the kernel can       *)
(* buffer.  After the body of the head message, channel_write pops it and  *)
(* admits waiting channels while there is room.                            *)
(***************************************************************************)
BeingRead(c) == state[c] = "ACTIVE" /\ curr[c] # NULL

InFlight(c) == 2 * Len(wire[c]) - head_off[c] - (IF BeingRead(Rev(c)) THEN 1 ELSE 0)

CanWrite(c) == queue[c] # <<>> /\ InFlight(c) < WireCap

WriteHeader(c) ==
  /\ CanWrite(c)
  /\ head_off[c] = 0
  /\ head_off' = [head_off EXCEPT ![c] = 1]
  /\ wire' = [wire EXCEPT ![c] = Append(@, Head(queue[c]))]
  /\ UNCHANGED <<queue, state, curr, waitq, sent, recv, ctrl>>

Admitted(c, room) == IF Len(waitq[c]) <= room THEN Len(waitq[c]) ELSE room

(***************************************************************************)
(* Mutants: nobody is admitted; everybody is, without looking at the queue.*)
(***************************************************************************)
WriteBody_no_unblock(c) ==
  /\ CanWrite(c)
  /\ head_off[c] = 1
  /\ head_off' = [head_off EXCEPT ![c] = 0]
  /\ queue' = [queue EXCEPT ![c] = Tail(@)]
  /\ UNCHANGED <<wire, state, curr, waitq, sent, recv, ctrl>>

WriteBody_unblock_all(c) ==
  LET n == Len(waitq[c])
      unblocked == {waitq[c][i] : i \in 1..n}
  IN  /\ CanWrite(c)
      /\ head_off[c] = 1
      /\ head_off' = [head_off EXCEPT ![c] = 0]
      /\ queue' = [queue EXCEPT ![c] = Tail(@) \o [i \in 1..n |-> curr[waitq[c][i]]]]
      /\ waitq' = [waitq EXCEPT ![c] = <<>>]
      /\ state' = [d \in Chan |-> IF d \in unblocked THEN "ACTIVE" ELSE state[d]]
      /\ curr' = [d \in Chan |-> IF d \in unblocked THEN NULL ELSE curr[d]]
      /\ UNCHANGED <<wire, sent, recv, ctrl>>

WriteBody(c) ==
  LET rest == Tail(queue[c])
      n == IF Len(rest) < LIMIT THEN Admitted(c, LIMIT - Len(rest)) ELSE 0
      unblocked == {waitq[c][i] : i \in 1..n}
  IN  /\ CanWrite(c)
      /\ head_off[c] = 1
      /\ head_off' = [head_off EXCEPT ![c] = 0]
      /\ queue' = [queue EXCEPT ![c] = rest \o [i \in 1..n |-> curr[waitq[c][i]]]]
      /\ waitq' = [waitq EXCEPT ![c] = SubSeq(@, n + 1, Len(@))]
      /\ state' = [d \in Chan |-> IF d \in unblocked THEN "ACTIVE" ELSE state[d]]
      /\ curr' = [d \in Chan |-> IF d \in unblocked THEN NULL ELSE curr[d]]
      /\ UNCHANGED <<wire, sent, recv, ctrl>>

-----------------------------------------------------------------------------
Next ==
  \/ \E t \in Stream : comm_node_send_data(t)
  \/ \E n \in Node : ioman_process_local_channel_read(n)
  \/ \E c \in Link : \/ channel_send_msg(c)
                     \/ ReadHeader(c)
                     \/ ReadBody(c)
                     \/ WriteHeader(c)
                     \/ WriteBody(c)

(***************************************************************************)
(* select() is level-triggered and ioman_handler_loop serves every         *)
(* descriptor it reports, so a handler that stays possible is run.  The    *)
(* application and the sources of control messages promise nothing.        *)
(***************************************************************************)
Fairness ==
  /\ \A n \in Node : WF_vars(ioman_process_local_channel_read(n))
  /\ \A c \in Link : /\ WF_vars(ReadHeader(c))
                     /\ WF_vars(ReadBody(c))
                     /\ WF_vars(WriteHeader(c))
                     /\ WF_vars(WriteBody(c))

SafeSpec == Init /\ [][Next]_vars
Spec == SafeSpec /\ Fairness

-----------------------------------------------------------------------------
(***************************************************************************)
(* Properties.                                                             *)
(***************************************************************************)

(***************************************************************************)
(* No lost wake-up: while somebody waits for room on c, c's queue is full. *)
(* channel_write looks at the wait queue only when it pops a message, so a *)
(* waiter of a queue with room might never be looked at again.             *)
(***************************************************************************)
WaitersFull ==
  \A c \in Link : waitq[c] # <<>> => Len(queue[c]) >= LIMIT

(***************************************************************************)
(* A blocked channel holds one chunk and waits in exactly one place of one *)
(* wait queue, that of the chunk's next hop; nobody else waits anywhere.   *)
(* (A channel missing from the queues is never read again, one that is in  *)
(* them twice or after it was unblocked would be admitted with no chunk.)  *)
(***************************************************************************)
WaitsFor(d, c) ==
  /\ state[d] = "BLOCKING"
  /\ curr[d] \in Chunk
  /\ c = ioman_get_nexthop_channel(d[1], curr[d].str)

BlockedOnce ==
  /\ \A c \in Link : \A i \in 1..Len(waitq[c]) : WaitsFor(waitq[c][i], c)
  /\ \A c \in Link : \A i, j \in 1..Len(waitq[c]) : waitq[c][i] = waitq[c][j] => i = j
  /\ \A d \in Chan : state[d] = "BLOCKING" =>
       \E c \in Link : \E i \in 1..Len(waitq[c]) : waitq[c][i] = d

(***************************************************************************)
(* Back-pressure bounds the memory of a node: a channel never queues more  *)
(* than LIMIT data chunks, whatever control messages are mixed in.         *)
(***************************************************************************)
QueueBound ==
  \A c \in Chan : Cardinality({i \in 1..Len(queue[c]) : queue[c][i] # Ctrl}) <= LIMIT

(***************************************************************************)
(* No chunk is lost or duplicated inside the network: every chunk pushed   *)
(* is in exactly one place, and no other chunk is anywhere.                *)
(***************************************************************************)
QueuedAt(k) ==
  {x \in UNION {{<<c, i>> : i \in 1..Len(queue[c])} : c \in Chan} :
     /\ queue[x[1]][x[2]] = k
     /\ ~ (x[2] = 1 /\ x[1] \in Link /\ head_off[x[1]] = 1)}
OnWireAt(k) ==
  {x \in UNION {{<<c, i>> : i \in 1..Len(wire[c])} : c \in Link} : wire[x[1]][x[2]] = k}
HeldBy(k) == {c \in Chan : state[c] = "BLOCKING" /\ curr[c] = k}
DeliveredAs(k) == {i \in 1..Len(recv[k.str]) : recv[k.str][i] = k.seq}

ExactlyOnce ==
  \A t \in Stream : \A i \in 1..NChunks[t] :
    LET k == [str |-> t, seq |-> i]
    IN  Cardinality(QueuedAt(k)) + Cardinality(OnWireAt(k))
          + Cardinality(HeldBy(k)) + Cardinality(DeliveredAs(k))
        = IF i <= sent[t] THEN 1 ELSE 0

(***************************************************************************)
(* Deadlock.  The network is stuck when messages are in it and no I/O      *)
(* thread has a descriptor it could serve.  It can only get stuck on a set *)
(* of channels each of which has a full queue, a peer that is blocked, and *)
(* another channel of the set for which that peer is waiting.              *)
(***************************************************************************)
Idle ==
  /\ \A n \in Node : ~ CanReadLocal(n)
  /\ \A c \in Link : ~ CanReadHeader(c) /\ ~ CanReadBody(c) /\ ~ CanWrite(c)

Pending ==
  \/ \E c \in Chan : queue[c] # <<>> \/ curr[c] # NULL
  \/ \E c \in Link : wire[c] # <<>>

Stuck == Idle /\ Pending

HeldUpBy(c, d) ==
  /\ queue[c] # <<>>
  /\ state[Rev(c)] = "BLOCKING"
  /\ \E i \in 1..Len(waitq[d]) : waitq[d][i] = Rev(c)

StuckOnlyOnCycle ==
  Stuck => \E S \in SUBSET Link :
             /\ S # {}
             /\ \A c \in S : \E d \in S : HeldUpBy(c, d)

(***************************************************************************)
(* DLFree's promise: if no cycle of channels is such that each is followed *)
(* by the next on some route, the network never gets stuck.                *)
(***************************************************************************)
DependsOn(c, d) ==
  \E t \in Stream : \E i \in 1..Len(Path(t)) - 2 :
    /\ c = <<Path(t)[i], Path(t)[i + 1]>>
    /\ d = <<Path(t)[i + 1], Path(t)[i + 2]>>

AcyclicRoutes ==
  \A S \in SUBSET Link :
    S # {} => \E c \in S : \A d \in S : ~ DependsOn(c, d)

NoDeadlock == AcyclicRoutes => ~ Stuck

(***************************************************************************)
(* The pipeline implements reliable streams: always their safety, and with *)
(* acyclic routes also the delivery of everything that was pushed.         *)
(***************************************************************************)
Reliable == INSTANCE Streams

ImplementsStreams == Reliable!Spec
ImplementsSafeStreams == Reliable!SafeSpec

-----------------------------------------------------------------------------
(***************************************************************************)
(* The inductive invariant behind the safety properties.                   *)
(***************************************************************************)

(***************************************************************************)
(* Chunks stay on their route: a message on channel c is a control message *)
(* or a chunk one of whose hops is c; the local channel of a node only has *)
(* chunks of the node's own streams; a blocked channel holds a chunk that  *)
(* is not yet at its destination.                                          *)
(***************************************************************************)
OnLink(k, c) ==
  k \in Chunk => \E i \in 1..Len(Path(k.str)) - 1 :
                   c = <<Path(k.str)[i], Path(k.str)[i + 1]>>

AtSource(k, n) == k \in Chunk /\ Src[k.str] = n

Routed ==
  /\ \A c \in Link : /\ \A i \in 1..Len(queue[c]) : OnLink(queue[c][i], c)
                     /\ \A i \in 1..Len(wire[c]) : OnLink(wire[c][i], c)
                     /\ curr[c] # NULL => OnLink(curr[c], Rev(c))
                     /\ state[c] = "BLOCKING" => Dst[curr[c].str] # c[1]
  /\ \A n \in Node : /\ \A i \in 1..Len(queue[Local(n)]) : AtSource(queue[Local(n)][i], n)
                     /\ curr[Local(n)] # NULL => AtSource(curr[Local(n)], n)

(***************************************************************************)
(* Headers and bodies pair up: a body still to be sent is that of a queued *)
(* message, one still to be read has not left the wire.                    *)
(***************************************************************************)
Framed ==
  /\ \A c \in Link : /\ head_off[c] = 1 => queue[c] # <<>>
                     /\ BeingRead(c) => wire[Rev(c)] # <<>>
  /\ \A n \in Node : ~ BeingRead(Local(n))

IInv == TypeOK /\ WaitersFull /\ BlockedOnce /\ Routed /\ Framed
=============================================================================
