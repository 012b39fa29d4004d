# Verification of DLFree

DLFree is a message-passing library whose nodes form an overlay network: every
node has TCP connections to some of the others, messages between the rest are
forwarded hop by hop, and the routing tables are computed so that the hop by
hop flow control cannot deadlock. This directory holds TLA+ models of its parts,
the TLC configurations that check them and machine-checked (TLAPS) proofs of
the properties that should hold for every topology and every load.

Paths below are relative to the repository root; `ioman.c`, `channel.c` and
`comm.c` are the files in `src/comm/`.

## 1. The system

### Components

| Component | State | Operations | Correct means |
|---|---|---|---|
| Channel pipeline (`channel.c`, read and write handlers of `ioman.c`), on every node | per neighbour: send queue `buff_queue` (limit 100), offset in the message being sent, `state` ACTIVE/BLOCKING, `curr_buff`, `wait_queue` | read a header, read a body, pass a chunk on or join the wait queue, write, admit waiters | each chunk once and in order; no waiter forgotten; no deadlock when the routes are acyclic |
| Local channel (`channel.c:47`, `403-447`) | bounded queue, mutex, condition variable, a pipe whose tokens make it readable for `select` | push by application threads, pop by the I/O thread, pass on | tokens match chunks; no lost wake-up; bound kept |
| Connection establishment (`comm.c:175-255`, `347-390`; NEWCHAN, SETUP and accept in `ioman.c`) | `pending_conns`, channel states, `peer_id`, `channel_map`, `rtts` | `async_connect`, `connect_wait`, activation, accept, PING0/PING1/PONG0/PONG1, notification | both ends agree; failures are clean; every wait returns |
| I/O manager loop (`ioman.c`) | channel list, cached descriptor sets and their validity, notify pipe | NEWCHAN, NEWMSG, BCASTMSG, FINALIZE events; `select`; dispatch | a descriptor left out of the cached sets has an event pending |
| Node API and reassembly (`comm.c:145-173`, `412-595`, `msg.c`) | session counter, `data_msg_map`, one receive queue per source, count of undelivered messages | send, set up and handle chunks, deliver, receive from one or from any | a message is delivered once, whole, per sender in order |
| Routing-table exchange (`comm.c:272-345`, `gxp.c:712-732`) | `rts`, `num_rts` | flood, register, wait for all, look up the next hop | the exchange ends on a connected graph; no look-up before the table is there |
| Overlay graph and router (`overlay.c`, `router.c` in `src/graph`, `src/std/uset.c`) | pure computation: a level for each direction of each link | spanning trees over sorted links, up\*/down\*, breadth-first trees | routes of non-decreasing level exist between all nodes, and their channel dependencies have no cycle |
| Leveled Dijkstra, routing table (`dijkstra.c`, `src/struct/rtable.c`) | distances and predecessors of pairs of node and level | set-up, search, choice of paths; look-up of the next hop | shortest simple paths of non-decreasing level; exit when there is none |
| GXP collectives (`src/gxp`) | phase of each node; what the group channel delivered to all, in one order | exchange of names, ports, requests and connection info, barrier, connection plans, ping-pong | every node sees the same matrix; the lines of two phases are never mixed; overlays are connected |
| Programs on top (`app/collective.c`, `app/ex1.c`) | round of each node | all-to-one, one-to-all, all-to-all, exit | a message is received in the round it was sent in; nothing is under way at exit |
| Public API (`src/dlfree.c`) | none | delegates | – |
| the rest of `src/std`, `src/iface`, `src/xml`, `src/sim`, `app` | containers, parsing, offline simulation, examples | – | not modelled, see section 7 |

### Interaction

Every node has one I/O thread (`ioman_handler_loop`) and any number of
application threads. An application thread meets the I/O thread in three places:
the local channel (own mutex and condition variable), the table of pending
connections, routing tables and receive queues (the node's mutex and condition
variable), and the notify pipe (the I/O manager's mutex). Nodes meet only over
TCP: in the queues of two channels and what the kernel holds between them.
Routing tables are computed by all nodes from the same connection matrix, which
they exchange through GXP, and are then flooded over the overlay.

### What is hard

* back-pressure across nodes: a full queue stops a reader, whose peer's queue
  then fills, and so on, possibly round a cycle;
* waking the right waiters exactly when there is room, with control messages
  that ignore the limit;
* tokens in a pipe, a mutex and a condition variable that together stand for
  "the queue is not empty" and "the queue is not full";
* a connection attempt that fails before its handle is registered, while two
  threads sleep on one condition variable, or half way through the handshake;
* chunks that overtake routing tables; sessions that wrap; a cache of descriptor
  sets invalidated by hand; shutdown with queues that are not empty;
* lines of all nodes in one channel, told apart by counting only;
* tables that all nodes compute on their own and that avoid deadlock only if
  they agree.

`PROJECT.json` lists each hazard at its line, with the properties that cover it.

## 2. Modules

In the order of writing, the forwarding core first because it is what the
program is about:

1. `Streams` – abstract specification: numbered chunks of each sending thread
   reach the receiver once, in order, and (with `Spec`) eventually.
2. `Pipeline` – forwarding on the whole network; implements `Streams`.
   `MCPipeline` holds its topologies; `PipelineProofs` its theorems.
3. `LocalChannel` – the queue between application and I/O thread at the grain
   of lock and condition variable; also implements `Streams`. `MCLocalChannel`,
   `LocalChannelProofs`. Pipeline uses this component as one atomic push and one
   atomic pop; that LocalChannel implements the same `Streams` is what justifies it.
4. `Handshake` – connection establishment. `MCHandshake` holds connection plans.
5. `RouteExchange` – from connected channels to the first chunk: flooding and
   counting of routing tables between two barriers.
6. `Mailbox` – abstract specification of the receiving side; `Receiver` –
   sessions, reassembly, receive queues and receive calls; implements `Mailbox`.
7. `IoLoop` – the I/O thread of one node: cached descriptor sets, notify pipe,
   events, creation and deletion of channels, shutdown.
8. `Overlays` – graphs, reachability, turns and circles. `Levels` – what the kinds
   of router share: the graph, the levels of its links, and what levels must give.
   `SpanningTrees`, `UpDown` and `BfsTrees` – the three ways levels are assigned.
9. `Dijkstra` – the routing table of one node, from the levels.
10. `Router` – the composition of 8 and 9 with the switch of `gxp_router_run`, and
    the look-up of next hops. The parts share the variables of `Levels` (the graph,
    `lev`, `level`, `pc`) and `Router` extends them all: each of its steps is a step of
    one part that leaves the variables of the others unchanged.
11. `GxpPlans` – whom each connect operation plans to connect to. `Gxp` – the phases
    of all nodes over the group channel, from `gxp_man_init` to the barrier at the
    end of `gxp_man_compute_rt`.
12. `Collectives` – the ping-pong measurement and the collective operations of
    the applications, over what `Streams`, `Mailbox` and `Gxp` promise.

How they fit together: `Gxp` uses a connection attempt, the computation of a
table and the exchange of tables as steps, which are `Handshake`, `Router` and
`RouteExchange`; that all nodes compute from the same data (`SameTables`) is what lets
`Router` compute levels once for all. `Router` shows the hypothesis `AcyclicRoutes`
under which the theorem `DeadlockFree` of `Pipeline` holds. `Pipeline` starts from
routes as `Router` makes them, with channels as `Handshake` leaves them. `Receiver`
gets its chunks from what `Pipeline` implements (`Streams`), and `Collectives` sends
and receives over `Streams` and `Mailbox`.

The proofs are in `PipelineProofs`, `LocalChannelProofs`, `HandshakeProofs`,
`RouteExchangeProofs`, `ReceiverProofs`, `IoLoopProofs`, `RouterProofs` and `GxpProofs`,
each of which extends the module it is about; section 4 says what they show.

### Pipeline and the code

`queue[c]`, `state[c]`, `curr[c]`, `waitq[c]` are `buff_queue`, `state`,
`curr_buff`, `wait_queue` of the channel of node `c[1]` to `c[2]`; the local
channel of `n` is `<<n, n>>`. `head_off[c] = 1` says that the header of the head
message is sent and its body is not. `wire[c]` holds the messages written on `c`
of which the peer has not read the body; how much of it is in the kernel
follows from it (`InFlight`). The actions are the handlers:
`comm_node_send_data` (one chunk), `ioman_process_local_channel_read`,
`ReadHeader` and `ReadBody` (the two halves of `ioman_process_channel_read`),
`WriteHeader` and `WriteBody` (the two halves of one turn of `channel_write`),
`channel_send_msg` (a control message, at any time). `select` and the order in
which a node serves its descriptors are left open: every interleaving of
handlers, within a node and between nodes, is explored. A transfer that stops
inside a header or a body behaves like one that stops before it, since nothing
is done with the part.

### LocalChannel and the code

One action per critical section or system call: `PushAppend` or `PushWait` under
the mutex, `PushToken` after it is released; `PopToken` before the I/O thread
takes it, `PopChunk` with the broadcast when LIMIT - 1 chunks are left, and
`PassOn` to the next hop, which may block the local channel until the pipeline
admits it (`Unblock`).
Spurious wake-ups are allowed.

### Handshake and the code

`chan[e]` is the state of the `channel_t` at either end of connection `e[1]`,
`pending` the entry in `pending_conns`, `app` the application thread between
`async_connect` and the return of `connect_wait`. `async_connect` is two steps
with the node's mutex held between them, because the I/O thread can already see
the channel; `connect_wait` is one step per round of its loop, and a last one,
after the mutex is released, that reads the peer's id. TCP opens, refuses (at
once or later) or resets, as far as `Faults` allows. A read of a freed channel
returns anything (`channel_is_established`, `GARBAGE`). A failing assertion
stops the handler; `AssertsHold` says none fails.

### RouteExchange and the code

`rts`, `num_rts` and `peers` (`channel_map`) are those of the node; `app[n]` is where
the application thread is between `gxp_man_connect` and its first send. Storing
the own table, broadcasting it and counting it are three steps, as they are in
`comm_node_exchange_rt` (272-333), because the I/O thread registers other tables
in between. `HandleBcast` sends a table to all of `channel_map`;
`RegisterTable` is `comm_node_register_rt` with the broadcast of a new table.
`CanRoute` is what the assertions of `comm_node_lookup_rt` and
`ioman_get_nexthop_channel` ask for. `WriteConnInfo`/`ReadConnInfo` and
`WriteSync`/`ReadSync` are the collective operations before and after.

### Receiver, Mailbox and the code

`snd[t]` is where a thread is in `comm_node_send_data`, `net[s]` the chunks of node
`s` in the order of its local channel, which is the order they arrive in.
`data_msg_map` and `recvd_data_msg_queues` have the names of the code; the
refinement maps a queued message to the message it should be only if its parts
are the chunks of that message, in order, so that a wrong reassembly breaks
`ImplementsSafeMailbox`. A session id is the pair of sender and counter modulo `WIDTH`
(`unpack_uint64` keeps 12 bits of the counter). A receive call is one step per
round of its loop under the node's mutex. `data_msg_unacked_recvd` (`unacked`) starts
at whatever memory held (`garbage`); `empty` counts receives that return without a
message because of it. `dead` is set where the process would
stop, by an assertion or by storing through a null pointer.

### IoLoop and the code

`channels` with `state`, `queue` (its length) and `waitq` are the channel list; `fds`
the cached sets and `fdset_valid` their validity; `pipe` the notify pipe and `own`
the number of events of control traffic. One turn of the loop goes through the
control points of `ioman_handler_loop`: `ioman_set_fds`, `select`, the notify pipe
(one event), the listening socket, the local channel, the readable channels, the
writable ones. Each handler does what the code does to the sets, the queues and
the validity flag, and no more. Any call on a channel may fail as far as `Faults`
allows, which deletes the channel in the middle of the turn
(`ioman_delete_channel`). `ioman_finalize` frees the channels that are left.

### Router, its parts and the code

`conns[e]` is the length and width of a link, `lev[<<n, m>>]` and `lev[<<m, n>>]` its
`level_0` and `level_1`. `pc` is where `gxp_router_run` is; `Start` is its switch.

`SpanningTrees` goes link by link through `choose_sp_tree_links`: `pool` and
`remain` are the lists, `parent` and `height` the cells of the union-find set
(`uset.c`), whose roots are found by going up as there. The sorts of `overlay.c`
order the links by width, length or degree; links that compare equal, and all of
them for the shuffle, come in any order.

`UpDown` has both searches step by step: the queue of `updown_assign_ids` (163-181)
and, for `dfs_traverse`, the stack of calls, each of which goes on to its nearest
unvisited peer. Then each link gets its two levels.

`BfsTrees` takes one node off the queue per step of `router_graph_do_bfs_search`;
`level` is counted up after a search that labelled a link. The searches start at the
nodes with the largest sum of distances first (`router_bfs_node_sorter` sorts in
descending order): the first tree is rooted at the node farthest from the others.
The distances come from tables over links of level 0, which `ORDERED_BFS` computes
before and sends round (`ExchangeDistances`).

`Dijkstra` runs on pairs of node and level, as in `dist[u][level]`. One step per
extracted pair (`extract_min_node`: the closest, then the smaller node, then the
larger level), which relaxes all neighbours and all levels from the link's up; then
`calc_rt`, which reads the paths backwards. `setup` asserts that links are measured;
a destination out of reach exits. One node after the other computes its table.

`comm_node_lookup_rt` finds a node's next hop in the path of the chunk's source;
`Walk` asks every node on the way, as the I/O threads do, and stops at a hop
that is not there or when it has asked as often as there are nodes.

### Gxp and the code

`feed[n]` is what `n` has not read yet of the lines of all, `out[n]` what it has
written and the group channel has not yet taken. Each operation of `gxp.c` writes
its lines in one step and reads in another; the reading step counts lines as
the `fscanf` loop does and interprets what it takes as lines of its own
operation: a line of another one makes the node `"lost"`. Hence `NeverLost` is a
property of the protocol and not of the reader. A node's seed, the shuffles
and `qsort` on ties are the same on all nodes, as in the code, which seeds all
alike.

### Collectives and the code

`Script` unrolls each operation of `app/collective.c` and `gxp_man_ping_pong` into
the calls of one node: send, receive any `k` times, barrier. The state is how far
each node is, what is in the network and which barrier lines were written. `mixed`
notes that a message was received in another round than it was sent in.

## 3. Runs

| Run | Instance | Checks |
|---|---|---|
| `pipeline_ring` | ring of 3 with clockwise two-hop routes, 2 chunks each, LIMIT 1, a control message | `IInv`, the inductive invariant of the proofs: types, `WaitersFull` (whoever waits, waits for a full queue), `BlockedOnce` (a blocked channel is in exactly one place of one wait queue, that of its next hop), `Routed`, `Framed`; `QueueBound`; `ExactlyOnce`: every pushed chunk is in exactly one place; the network does get stuck here, and `StuckOnlyOnCycle` characterises how; `ImplementsSafeStreams`: even then nothing is lost or reordered |
| `pipeline_updown` | ring of 4, up\*/down\* routes | `NoDeadlock` and, with fairness, `ImplementsStreams`: all chunks arrive |
| `local_channel` | 3 threads, LIMIT 2 | `TokensMatch`, `NoLostWakeup`, `QueueBound`, `WaitersProceed` (a waiting thread gets on), `ImplementsStreams` |
| `handshake` | one node with two connects, refusals and resets at any point, fair | `ConnectionsConsistent`: types, no assertion fails (`AssertsHold`), nobody sleeps with nothing to come (`OneStepPending`), `channel_map` has no deleted channel (`NoDanglingMap`); `Agreement`; `CleanFailure`; `ConnectReturnsUnlessReset` |
| `handshake_reset` | one connection, resets | `ConnectReturns` is violated (finding) |
| `route_exchange` | line of 3, a chunk from end to end, from unconnected nodes, fair | `TablesConsistent`: types, tables counted by two threads (`CountMatches`), nobody leaves the exchange without all (`ExchangeComplete`) or enters it without its neighbours (`NeighboursKnown`); `ChunksCanBeRouted`: no chunk meets a node without its table or channel; `FloodOnce`: each table once over each direction of a connection; `ExchangeEnds` |
| `receiver` | 3 threads on 2 nodes, messages of 1 to 4 bytes in chunks of 2, a receiver of any source and one of a certain source, the count uninitialised, fair | `MailboxConsistent`: types, no assertion fails (`AssertsHold`), the count and the queues keep their difference (`UnackedMatches`), nobody sleeps through a message (`NoLostWakeup`); `ImplementsSafeMailbox`; `EveryMessageReceived` |
| `ioloop` | one opened, one accepted channel, one thread, every call on a channel may fail, fair | `CacheServes`: no sleep on stale sets without an event pending; `LoopConsistent`: types, no closed descriptor in the sets (`DescriptorsOpen`), a waiting channel is not read (`BlockedNotRead`), waiters are where their state says (`WaitersMatch`), the pipe holds few events (`NotifyBound`); `StopReturns` |
| `ioloop_delete` | the same instance | `WaitersAlive` is violated (finding) |
| `router` | 8 kinds of router, subgraphs of a ring of 5 with two chords, links, roots and searches in every order that the code leaves open | `SearchesConsistent`: types, assertions, the union-find answers right and stays shallow (`UnionSetMatches`, `UnionSetShallow`), both searches number nodes as such searches should (`DepthsShortest`, `NoCrossLinks`), distances and predecessors agree (`DistancesAddUp`); `ForestLevels`: `LevelsAreForests`, `LowerLevelsSpan`, `LevelsCounted`, and the first tree has the bottleneck paths (`WidestOrShortestFirst`); `UpDownLevels`: `UpAndDownAcyclic`, `AllRoutable`; `TreeLevels`: `LevelsAreTrees`, `LevelsComplete`, `FirstTreeShortest`; `TablesCorrect`: `ShortestRoutes` against all simple routes, `WidthOfPath`, `ExitsWhenCutOff`, `ChunksArrive`; `AcyclicRoutes`; `RouterEnds` |
| `gxp` | 3 nodes, each connect operation with a kind of router and attempts that may fail, all interleavings, fair; the plans of 5 nodes in 2 clusters | `SetupConsistent`: types, `NeverLost`, `EndpointsKnown`, `OneOpens`, `RequestsHonoured`; `TablesAgree`: `TrueMatrix`, `SameTables`; `InStep`: `BarrierHolds`, `ExitTogether`; `OverlayConnected`; `Finishes` |
| `collectives` | 4 nodes, each operation and a sequence of three, 2 rounds, fair | `RoundsConsistent`: types, `RoundsMatch`, `PingAlone`, `EmptyAtExit`; `Completes` |

Many properties are conjunctions of named parts, each with its own comment in its
module; the table names the parts. Every property of a passing run has a mutant in
its module, an operator that changes one definition as a plausible bug would, which
violates it.

### Bounds

`LIMIT` is 100 in the code and 1 or 2 in the runs: what matters is full, not full
and one below full, and that more may want to enter than there is room for; LIMIT 1
makes every queue reach all of these with few chunks. `WireCap = 1` lets the
kernel hold one header or body, so that it can stop a sender between header and
body; more capacity only delays back-pressure. `NCtrl = 1` control message per
node overfills a queue. Two chunks per stream make order observable. Three nodes
give a node that forwards; four give a ring on which up\*/down\* forbids a turn.
The proofs cover all other values.

`Handshake`: two connects of one node share a mutex, a condition variable and
`pending_conns`; a third would only wait like the second. `RouteExchange`: three nodes
in a line have one that forwards tables and chunks, and one that is ahead of both
others. `Receiver`: chunks of 2 and lengths 1 to 4 are below, at and above one chunk
and two chunks full; `WIDTH` is 8 (4096 in the code), more than the messages a node
sends, so that sessions do not wrap. `IoLoop`: `Inputs` and `Chunks` bound what arrives
and what the thread sends; one channel of each kind are enough for one to wait for
the other, and with the local channel for two to wait for one; LIMIT 1 with three
chunks is more than a queue and a blocked channel hold. `own` counts the control events in `NotifyBound`; the
pipe's capacity (4 MB) is far from it.

`Router`: five nodes, because shortest routes cannot form a circle of dependencies on
fewer (the mutant that gives all links level 0 violates `AcyclicRoutes` on the ring of
five and not on four nodes); all subgraphs of a ring with two chords (with one for the
shuffled order, whose arrangements are many) are cut-off nodes, trees, rings and
graphs of up to three levels. Lengths of three values make detours
shorter than links; `Far` and `Unmeasured` reach the largest distance and the assertion.
Two parallel links between a pair are left out: only `gxp_man_connect_ring` on two
nodes makes them, and stops on an assertion before (section 6). Lengths are natural
numbers; the floats of the code hold whole microseconds far below 2^24.

`Gxp`: three nodes for all interleavings, since lines of two phases can be mixed by
two nodes and a third sees both; five for the plans, where interleaving has no
influence on what is planned. (`OverlayConnected` is about all draws of all nodes at
once; with six nodes locality-aware overlays may come apart into two cliques.) The
group channel is external: one total order, no bound. Average distances are any
function of the matrix, the same on all nodes. `Collectives`: four nodes give ping-pong
two pairs at once were it not for the barriers, two rounds let one be ahead of
the other.

### Fairness

`Pipeline`: `select` is level-triggered and the loop serves every descriptor it
reports, so each handler that stays possible is run: weak fairness of the
handlers, none for application threads and sources of control messages.
`LocalChannel`: every thread that can run does, except that none has to push; a
thread that competes for the queue relies on its rivals having finitely much to
push. `Handshake`: weak fairness of threads and handlers; TCP decides every
attempt in the end (the kernel gives up with a timeout); nobody has to start,
reset or wake spuriously.

`RouteExchange`: handlers and application threads run, TCP sets up every connection
and delivers; nobody has to send. `Receiver`: the I/O thread and threads in a call run;
a receiver for whom there is a message is woken by a broadcast. `IoLoop`: the I/O
thread runs, and a thread that has pushed a chunk writes its event; nobody has to
stop the loop. `Gxp` and `Collectives`: each node's one thread runs, and the group
channel takes and gives lines. The router modules are sequential programs that go on.

Deadlock checking is off except in `route_exchange`, which ends in a step that
repeats: in the other models the system legitimately stops when
everything that was sent has arrived, and the states in which it stops for
another reason are what `NoDeadlock`, `WaitersProceed`,
`ConnectReturnsUnlessReset`, `EveryMessageReceived`, `StopReturns`, `RouterEnds`, `Finishes`
and `Completes` are about.

## 4. What is proved

`PipelineProofs`, from `TopologyAssumption` (links come in pairs),
`RouteAssumption` (routes are simple paths over links) and `BoundAssumption`,
for every topology, set of streams and queue limit:

* `Invariance`: `IInv` is inductive. It joins the type invariant with
  `WaitersFull`, `BlockedOnce`, `Routed` and `Framed`. The last two are there for
  induction only: `WriteBody` moves held chunks into a queue, which keeps types and
  `BlockedOnce` only if the held thing is a chunk on its route (`Routed`), and
  finding the head of the queue with `head_off = 1` needs a queue that is not
  empty (`Framed`).
* `TypeCorrect`, `NoLostWakeup`, `WaitsOnce` follow from it.
* `DeadlockNeedsCycle`: a stuck network contains a set of channels each held up by
  another of the set. Take all channels with something queued: stuck means that
  the kernel is full on each of them, the peer can read nothing, so it is blocked;
  by `BlockedOnce` it waits somewhere, and by `WaitersFull` that queue is not empty.
* `DeadlockFree`: with `AcyclicRoutes` the network is never stuck. By `Routed` the
  chunk a blocked channel holds makes its two channels consecutive on a route, so
  the set above has no member without a successor.
* `BoundedQueues` (`QueueBound`): `QueueEffect` says what one step can do to a queue;
  whatever can be appended to a queue that is full is a control message, and those
  are not counted (`DataCount`, `DataOfTail`, `DataOfAppendCtrl`).

Where chunks are needs a second invariant, `FlowInv`. A chunk is at a place: queued on a
channel of its route, on the wire of it, or held by the channel that read it from that
wire (`At`; a message whose header is sent counts as on the wire, though it is still at the
head of the queue). Along a route the places have ranks (`Rank`), and no two have the
same (`RankFacts`). `FlowInv` says:

* `SortedInv`: in a queue and on a wire the chunks of a stream have growing numbers;
* `OrderInv`: of two chunks of a stream, the one at the place of higher rank has the
  smaller number, so a chunk never overtakes another;
* `CoverInv`: in the network are exactly the chunks pushed and not yet delivered, and
  those delivered are 1, 2, 3, ...;
* `HeaderInv`: a header sent is that of the last message on the wire, a header read that of
  the first, so the body that is read belongs to it.

Every action moves at most one chunk, and to a place of higher rank with none of its stream
at the ranks between (`MovedOrder`), or moves none (`StayedOrder`): a chunk is passed on from
the front of the wire, and is appended behind those of its stream that are in the
next queue already; a waiter that is admitted was alone in the hands of its channel, since
a blocked channel reads nothing. There is one lemma per action (`SendDataFlow`, ...,
`WriteBodyFlow`).

* `SafeStreams` (`ImplementsSafeStreams`): a chunk delivered is the next of its stream, as the
  one before it would otherwise be in the network still, at a lower rank.
* `NothingLostOrDuplicated` (`ExactlyOnce`): by `CoverInv` a chunk pushed is somewhere or was
  delivered; two places of one chunk would put it before itself (`OnePlace`), and so
  would a queue or wire that holds it twice (`SortedOnce`).

`LocalChannelProofs`, for every number of threads, chunks and LIMIT:
`TokensAlwaysMatch`, `WakeupsNeverLost`, `QueueBounded`. The conjunction of the
three with the type invariant is inductive as it stands. `LocalStreams`: the chunks of
each thread are popped once each and in the order of the pushes, so the local channel
implements the safe part of `Streams`, as `Pipeline` assumes. `TokensMatch` also
shows that the `assert(chunk)` of `channel_local_pop_chunk`, which the model has
as the guard `queue # <<>>` of `PopChunk`, never fails: whoever has read a token
finds its chunk.

`HandshakeProofs`, for all nodes and every set of connections of which no two are
between the same nodes (`OneWay`; `OneOpens` of `Gxp` checks that the plans are such), and
whatever TCP refuses or resets:

* `Invariance`: `IInv` is inductive. All but `MapInv` (a node's `channel_map` holds
  exactly its open channels whose peer is known) is about one connection: `Life` (its
  channels follow what TCP did), `Talk` (at most one message of the exchange is under
  way, and which one says who knows and has measured what), `Progress` (between open
  channels the exchange goes on or has ended) and `Thread` (what the waiting thread
  may rely on). Hence a step of one connection leaves `ConnInv` of the others alone
  (`Kept`), but for threads its broadcast wakes.
* `ConnectionsTheorem`, `AgreementTheorem`, `FailureTheorem` follow. `Thread` promises nothing
  of a connection that was reset, because nobody is told: that is the finding of
  `handshake_reset`, and the theorems show that it is the only exception.

`RouteExchangeProofs`, for every number of nodes, every overlay, all paths over it and
all messages. `Invariance` adds to the checked properties what makes them inductive:
who is connected when (`ConnectedFirst`), where a table may be once its node has
broadcast it (`TablesKnown`), and that data comes after the last barrier and stays on its
path (`DataAfterTables`). From it `TablesTheorem` (`TablesConsistent`: tables that two
threads register are counted right, and nobody leaves the exchange without all),
`FloodTheorem` (`FloodOnce`) and `RoutingTheorem` (`ChunksCanBeRouted`).

`ReceiverProofs`, for all threads, chunk sizes and callers, whatever memory held in
`unacked`, under two hypotheses that the findings below make necessary: no
message is empty (`NoEmptyMessage`: it would be sent as no chunk), and no message is
begun with a session that is still in use (`SessionsFree`, a hypothesis about the run).
`SessionsSuffice` shows that the second holds when no node starts more messages in all than
a receiver can tell sessions apart (`FewMessages`, `WIDTH` is 4096), and
`FewMessagesReceived` draws the conclusion; a program that sends for longer needs that
none of its messages stays under way while 4096 others are started.

* `MessagesConsistent` (`MailboxConsistent`). Its inductive invariant speaks of a map `f` from
  messages begun to their sessions, which the state does not hold once a sender has gone
  on: an invariant with `\E f`. `SidInv`: `f` tells all messages apart that are not delivered
  (a session that is not in use is that of none of them, `FreeSession`). `ChunksInv` and what follows it:
  what is under way from a node is exactly what its threads sent and is not received,
  each thread's chunks in order, each with the session and length of its message. Each
  session's entry of `data_msg_map` is the beginning of the message its thread
  delivers next; every queue holds whole messages; the count follows the queues.
* `ReceiverImplementsMailbox` (`ImplementsSafeMailbox`): a message `<<thread, number>>` enters
  the box when its last chunk is handled and leaves it when a caller takes it; every
  other step is a stutter.

`IoLoopProofs`, for every number of channels, threads and chunks, every limit and every
choice of what may fail:

* `Invariance`: `CacheInv` (while the cache is valid it holds open descriptors and no
  blocked reader, and what it lacks has an event in the pipe), `TurnInv` (what `select`
  reported stays so until it is served), `AccountInv` (events in the pipe and owed by
  threads against chunks in the local queue), `PendingInv` (a channel that the loop
  does not know has one event), `WaitersInv` and `FaultsInv`. What several messages
  written in one turn do (`Sent`, a recursive function) is brought into closed form by
  induction over their number (`SendOneMore`, `SentIs`).
* `LoopTheorem` (`LoopConsistent`) and `CacheTheorem` (`CacheServes`).
* `OnlyWritesStrand`: unless a write fails, `WaitersAlive` holds, whatever reads and
  connects do. This sharpens finding 2: a channel that is deleted for a failed
  read or connect is never one that waits.
* `NoAbort`: when nothing fails, a local chunk always has a channel to go to.

The lemmas that `RouterProofs` begins with, for every graph. That taking away channels without successor until
none is left (`Acyclic`, a recursive function) decides whether there is a circle
(`AcyclicPairs`, `AcyclicTurns`); that `Reach` (as many rounds as there are nodes) is the
smallest set that channels do not leave (`ReachFacts`), so that reaching composes and can
be turned round (`ReachTrans`, `ReachBack`, `ReachSym`); what one more link adds
to it (`ReachJoin`), and when all links are bridges (`BridgesGrow`, `RootedBridges`); that a forest grown link by link has none, nor do links
that all lead to larger numbers (`ForestNoCircle`, `ForestGrows`, `RisingNoCircle`); and
`LevelledAcyclic`: when no level has a circle of its own, routes of non-decreasing level
have none. A circle of channels along routes cannot rise in level, so all
of it is of one level.

`RouterProofs`, for every graph, kind of router, order of links, roots and lengths:

* `Invariance`: the inductive invariant of all parts. The union-find set is a forest
  with `height` as rank, so `find` ends at a root and two roots are merged only when
  the new link closes no circle (`SpanningTrees`); up channels lead to smaller numbers,
  down channels to larger (`UpDown`); searches label links away from
  their root (`BfsTrees`); the pairs taken out by `Dijkstra` come in the order of their
  distances, and all neighbours of such a pair are relaxed.
* `RoutesCannotDeadlock` (`AcyclicRoutes`) closes the gap to `DeadlockFree` of
  `PipelineProofs`, whose hypothesis it is. `LevelsTheorem`: no level has a circle.
* `DistancesTheorem`, `ShortestTheorem`: distances add up along the tree of predecessors and
  no leveled route is shorter; a node without entry has none (a shorter route
  would have a first pair that was taken out too late).
* `SearchesTheorem` (`SearchesConsistent`): a set of the union-find forest whose root has height
  h has 2^h members at least, because merging sets of equal height adds one to it
  (`MergedShallow`; `PowerOf2` is a recursive function, because no prover interprets `2 ^ h`).
  Breadth first, the queue is kept in the order of the depths, none of them more than one
  less than another, so that in the end depths are distances from the root (`BfsGiven`).
  Depth first, `Descent`: what is numbered after a node that `dfs_traverse` is still in was
  reached from that node or a later one; a node becomes the end of a link only while all
  numbered nodes that link to it are still being traversed (`DfsGiven`). Hence between the
  ends of a link each number belongs to a node reached from a smaller one of them
  (`NoneAcross`, by the least number that would not be).
* `TablesTheorem` (`TablesCorrect`) needs `NarrowLinks`: no link is wider than
  `MAX_DIJKSTRA_WIDTH` (1e9, `src/graph/dijkstra.h:7`), from which `calc_rt` starts when it
  looks for the narrowest link of a path (`src/graph/dijkstra.c:270`).
* `UpDownTheorem` (`UpDownLevels`): in a connected graph every node can be reached from
  every other over links that go up and then links that go down, whichever root is drawn
  and in whichever order nodes are searched. While the search goes on, every
  numbered node but the root has a numbered peer above it, and the peers of a node that has
  left the queue or the stack are numbered (`Numbering`). So the search numbers all
  that is connected with the root, and the highest node that could not be reached going down
  from the root would be below one that can (`AssignCentered`).
* `ForestTheorem` (`ForestLevels`), by the invariant `Growing`: the links in the lists are
  those without level, each once and sorted; the union-find set connects what the
  tree so far connects (`SetsTheorem`, `UnionSetMatches`); no link of a level connects
  what the others of its level connect (`Bridges`, kept by `BridgesGrow` when a link
  joins two parts); every link put aside or left is connected in all lower levels; and a link
  that was put aside is connected by links of the first tree that are no worse
  (`Joins`), because it came after them in the order.
* `TreeTheorem` (`TreeLevels`): what a search takes is rooted, so none of its links connects
  what the others do (`RootedBridges`), and reaches all it has visited (`SearchedFrom`). A root's
  links are all taken by its own search at the latest, so links that are left lie between
  nodes still to be searched from, and none is left in the end. In the first
  search the visited nodes have distances that grow along the queue by at most one, and
  a node leaves the queue only when its neighbours have theirs (`BreadthFirst`); in the
  end these are the distances in the whole graph (`SpreadsByDistance`).
* `RoutesLead` (`ChunksArrive`): what nodes look up one after the other is the path of the
  chunk's source, and ends at its destination.

`GxpProofs`, for every number of nodes, every assignment of nodes to clusters and hosts to
distances, every connect operation and router that programs call, every draw and
every set of attempts that fail. Nothing in the feed marks where the lines of an
operation end, so what has to be shown is that counting is enough:

* The operations have numbers in the order in which a node comes to them (`Stage`), and
  what a node writes at a stage is known once it has come there (`Lines`, `Text`). The invariant
  gives every line of a feed a *ticket*: who wrote it, at which stage, as the how
  many-th (`Holds`). A feed holds the lines of its reader's stage and of later ones,
  each once, all that are written (`Posted`), those of earlier stages first and those of a node in
  their order (`Precedes`).
* A loop counts as many lines as `Share` of the last lines of every node (`LinesCounted`; of
  the requests only the one that ends them). Hence as long as one node has not written all its
  lines of the stage the loop cannot end (`FeedShort`), and when all have, it takes
  just those (`FeedFull`), whatever lines of later stages are mixed in: what
  follows a stage is written only by nodes that have read all of it. `Reading` says
  so of a step: `Passed`, everybody has written what somebody has gone past.
* `Plannings` and `Results` say what follows from having read the same lines:
  who is planned by whom, that the matrix is that of the connections (`Measured`) and
  the sums are those of all. `Invariance` is about all of it.
* `SetupIsConsistent` (`SetupConsistent`) needs that no ring has two nodes or one: the two
  nodes of a ring connect to each other (section 6), and the one of a ring to itself.
* `TablesDoAgree` (`TablesAgree`) and `NodesAreInStep` (`InStep`). That nobody exits while
  somebody has a table rests on the symmetry of reaching over links: if one node reaches
  all others, so does each of them (`AllCutOff`).
* `PlansConnect` (`AlwaysConnected`): what the operations all, line, ring (of more than one
  node) and gateway (dense, with gateways) plan joins all nodes. An overlay that is planned
  takes one plan of each node (`PlannedEach`); it is connected when each node but the
  first has a link to one before it (`FirstReaches`). With gateways that is the first node of
  its cluster, which is one (`ClustersGate`), or, for that one, node 0.

Induction over numbers and finite sets is done by least counterexamples: a set of
numbers that is not empty has a least member (`Least`), so that no theorem with an
operator parameter is needed. A recursive function is first shown to be the only one
that satisfies its equation (`RecursionUnique`, `Recursion`).

## 5. What is only model-checked

Liveness (`WaitersProceed`, `ConnectReturnsUnlessReset`, `ExchangeEnds`,
`EveryMessageReceived`, `StopReturns`, `RouterEnds`, `Finishes`, `Completes`, the fair part
of `ImplementsStreams`): liveness under fairness and ENABLED are outside what the
proof system supports.

Of `OverlayConnected`, the case of locality-aware overlays: whether they are connected
depends on the number of nodes and `alpha` (section 3), and TLC's instance says so of the one
it checks; the other operations are covered by `PlansConnect`. `Collectives` is about nodes
whose scripts are put together by counting over pairs of nodes and iterations; there TLC's
instances say what there is to say, and no proof was tried.

## 6. Findings

Two disagreements are shown by runs that expect a violation:

1. A connection that is reset during the handshake is deleted silently
   (`ioman.c:589`); `dlfree_comm_node_connect_wait`, documented to return non-zero
   on failure (`src/dlfree.c:46-51`), sleeps for ever (`handshake_reset`).
   `ConnectReturnsUnlessReset` shows that nothing else keeps a connect from returning.
2. A channel deleted while it waits for another stays in that wait queue
   (`ioman.c:625`); admitting it violates the assertion at `channel.c:158`, on
   freed memory (`ioloop_delete`).

Others were met while modelling. The models contain them, and their properties are
stated so that they hold in spite of them; no run is about them:

* In the situation of 1, `connect_wait` may read the freed channel (`comm.c:202`,
  `comm.c:213`) and report success with a meaningless peer.
* `gxp_man_connect_ring` on two nodes (`src/gxp/gxp.c:426-427`) makes both connect to
  each other and fails the assertion at `ioman.c:69`.
* `comm_node_recv_data` sets its parameter `buff` to 0 (`comm.c:463`) and stores the
  message through it: the process stops as soon as there is one (`dead = "segv"` in
  `EveryMessageReceived`).
* `unpack_uint64` (`src/std/bytes.c:45`) goes through an `int`, so that session ids
  4096 messages apart are equal; while both are under way their chunks are taken
  for those of one message and the assertion announced at `msg.c:188` fails (in
  `Receiver`, with a smaller `WIDTH`).
* A message of length 0 is sent as no chunk (`comm.c:579`) and never received.
* `data_msg_unacked_recvd` is not initialised by `comm_node_create`; if it starts
  positive, `comm_node_recv_any_data` (`comm.c:499`) returns without a message, against
  its comment at `comm.c:513`; if negative, messages lie there unnoticed.
* The sort by degree puts links between nodes with few connections first
  (`src/graph/overlay.c:81`); comments there and in `include/dlfree/gxp.h:16` say
  the opposite.
* The connection matrix holds round trip times and -1 (`src/gxp/gxp.c:280`), its
  comments say bits (`src/gxp/gxp.c:361`), and `gxp_man_conn_stats` reads bits.
* `gxp_man_connect_all` makes N(N-1)/2 connections, its comment says N(N-1)
  (`src/gxp/gxp.c:357`); `gxp_man_connect_with_gateway` makes up to ngates² connections
  between two clusters, its comment says ngates (`src/gxp/gxp.c:492`).

## 7. Not modelled

* The API wrappers in `src/dlfree.c` delegate. Containers and system call wrappers
  in `src/std` appear as sequences and functions, except the union-find set and the
  truncation of `unpack_uint64`. `qsort` is taken to order ties alike on all nodes,
  as it does when all run the same build.
* Interface lookup, XML parsing and the simulator are sequential input and output
  with no state that another part depends on. The planning of overlays for the
  simulator (`overlay_graph_simulate_*`) repeats the plans of `gxp.c`, which are
  modelled.
* `gxp_man_connect_lipne` is the spelling in `gxp.c:464` of what the header calls
  `gxp_man_connect_line`; the model has it under the latter name.
* Byte layout of messages and tables, statistics, logging and timing values are
  abstracted everywhere; a round trip time is only zero, started or measured, or a
  number that stands for the pair of nodes.
