---------------------------- MODULE Collectives ----------------------------
(***************************************************************************)
(* Programs on top of the overlay: gxp_man_ping_pong and the operations of *)
(* app/collective.c, each a loop of sends, receives of any message and     *)
(* barriers, and the end of app/ex1.c.                                     *)
(*                                                                         *)
(* A node's part in an operation is a sequence of calls.  Messages of one  *)
(* node to another stay in order (Streams, Mailbox); a receiver takes      *)
(* whatever message is there.                                              *)
(***************************************************************************)
EXTENDS Naturals, Sequences, SequencesExt, FiniteSets

CONSTANTS
  N,         \* gxp_num_execs
  Programs,  \* what is called: sequences of operations
  root,      \* dst_idx of send_all2one, src_idx of send_one2all
  iter

ASSUME CollectivesAssumption == N \in Nat \ {0} /\ root \in 0 .. N - 1 /\ iter \in Nat

Node == 0 .. N - 1

VARIABLES
  program,
  calls,    \* calls a node has made
  net,      \* messages sent from a node to another and not received
  synced,   \* GXP_MAN_SYNC lines written
  waiting,  \* the node has written its line for the barrier it is at
  mixed     \* somebody received a message of another round

vars == <<program, calls, net, synced, waiting, mixed>>

-----------------------------------------------------------------------------
Sync == [call |-> "sync", peer |-> 0, round |-> <<>>]
SendTo(m, round) == [call |-> "send", peer |-> m, round |-> round]
Recv(round) == [call |-> "recv", peer |-> 0, round |-> round]

(***************************************************************************)
(* Mutant: the receiver counts itself.                                     *)
(***************************************************************************)
wait_messages_more(count, round) == [i \in 1 .. count + 1 |-> Recv(round)]

wait_messages(count, round) == [i \in 1 .. count |-> Recv(round)]

(***************************************************************************)
(* Mutant: iterations follow each other without a barrier.                 *)
(***************************************************************************)
Iterations_unsynced(body) == FlattenSeq(body)

Iterations(body) == FlattenSeq([it \in 1 .. iter |-> <<Sync>> \o body[it] \o <<Sync>>])

send_all2one(n) ==
  Iterations([it \in 1 .. iter |->
    IF n # root THEN <<SendTo(root, <<it>>)>> ELSE wait_messages(N - 1, <<it>>)])

(***************************************************************************)
(* To all others, from node first on.                                      *)
(***************************************************************************)
SendToAll(n, first, it) ==
  LET ord == [i \in 1 .. N |-> (first + i - 1) % N]
      to  == SelectSeq(ord, LAMBDA m : m # n)
  IN  [i \in DOMAIN to |-> SendTo(to[i], <<it>>)]

send_one2all(n) ==
  Iterations([it \in 1 .. iter |->
    IF n = root THEN SendToAll(n, 0, it) ELSE wait_messages(1, <<it>>)])

send_all2all(n) ==
  Iterations([it \in 1 .. iter |-> SendToAll(n, n, it) \o wait_messages(N - 1, <<it>>)])

SourceEnd == <<Sync>>

(***************************************************************************)
(* The source sends and gets an answer; the destination answers.           *)
(***************************************************************************)
PingPong(n, s, d, round) ==
  CASE s = d \/ n \notin {s, d} -> <<>>
    [] s # d /\ n = s -> <<SendTo(d, round)>> \o wait_messages(1, round)
    [] s # d /\ n = d -> wait_messages(1, round) \o <<SendTo(s, round)>>

gxp_man_ping_pong(n) ==
  LET pair(s, d) == FlattenSeq([it \in 1 .. iter |-> PingPong(n, s, d, <<s, d, it>>)])
      source(s)  == FlattenSeq([d \in 1 .. N |-> pair(s, d - 1)]) \o SourceEnd
  IN  <<Sync>> \o FlattenSeq([s \in 1 .. N |-> source(s - 1)])

Calls(op, n) ==
  CASE op = "all2one"   -> send_all2one(n)
    [] op = "one2all"   -> send_one2all(n)
    [] op = "all2all"   -> send_all2all(n)
    [] op = "ping_pong" -> gxp_man_ping_pong(n)

(***************************************************************************)
(* The calls of a node in a program.                                       *)
(***************************************************************************)
Script == [p \in Programs |-> [n \in Node |-> FlattenSeq([i \in DOMAIN p |-> Calls(p[i], n)])]]

Init ==
  /\ program \in Programs
  /\ calls = [n \in Node |-> 0]
  /\ net = [c \in Node \X Node |-> <<>>]
  /\ synced = 0
  /\ waiting = [n \in Node |-> FALSE]
  /\ mixed = FALSE

Done(n) == calls[n] = Len(Script[program][n])
Call(n, c) == ~ Done(n) /\ Script[program][n][calls[n] + 1].call = c
This(n) == Script[program][n][calls[n] + 1]
Return(n) == calls' = [calls EXCEPT ![n] = @ + 1]

-----------------------------------------------------------------------------
dlfree_comm_node_send_data(n) ==
  /\ Call(n, "send")
  /\ net' = [net EXCEPT ![<<n, This(n).peer>>] = Append(@, This(n).round)]
  /\ Return(n)
  /\ UNCHANGED <<program, synced, waiting, mixed>>

dlfree_comm_node_recv_any_data(n) ==
  /\ Call(n, "recv")
  /\ \E src \in Node :
       /\ net[<<src, n>>] # <<>>
       /\ net' = [net EXCEPT ![<<src, n>>] = Tail(@)]
       /\ mixed' = (mixed \/ Head(net[<<src, n>>]) # This(n).round)
  /\ Return(n)
  /\ UNCHANGED <<program, synced, waiting>>

WriteSync(n) ==
  /\ Call(n, "sync") /\ ~ waiting[n]
  /\ waiting' = [waiting EXCEPT ![n] = TRUE]
  /\ synced' = synced + 1
  /\ UNCHANGED <<program, calls, net, mixed>>

(***************************************************************************)
(* Lines the node has read at the barriers before this one.                *)
(***************************************************************************)
LinesRead(n) ==
  N * Cardinality({i \in 1 .. calls[n] : Script[program][n][i].call = "sync"})

Gathered(n) == synced >= LinesRead(n) + N

ReadSync(n) ==
  /\ Call(n, "sync") /\ waiting[n] /\ Gathered(n)
  /\ waiting' = [waiting EXCEPT ![n] = FALSE]
  /\ Return(n)
  /\ UNCHANGED <<program, net, synced, mixed>>

Step(n) ==
  \/ dlfree_comm_node_send_data(n) \/ dlfree_comm_node_recv_any_data(n)
  \/ WriteSync(n) \/ ReadSync(n)

Next == \E n \in Node : Step(n)

Spec == Init /\ [][Next]_vars
FairSpec == Spec /\ \A n \in Node : WF_vars(Step(n))

-----------------------------------------------------------------------------
TypeOK ==
  /\ program \in Programs
  /\ \A n \in Node : calls[n] \in 0 .. Len(Script[program][n])
  /\ synced \in Nat /\ waiting \in [Node -> BOOLEAN] /\ mixed \in BOOLEAN
  /\ \A n \in Node : synced >= LinesRead(n)

(***************************************************************************)
(* Every message is received in the round it was sent in, although the     *)
(* receivers take any message: what is timed is what is meant.             *)
(***************************************************************************)
RoundsMatch == ~ mixed

(***************************************************************************)
(* In ping_pong nothing else is in the network while a message is timed.   *)
(***************************************************************************)
PingAlone ==
  program = <<"ping_pong">> =>
    \A c, d \in Node \X Node : net[c] # <<>> /\ net[d] # <<>> => c = d /\ Len(net[c]) = 1

(***************************************************************************)
(* When a node is done no message is under way: dlfree_comm_node_destroy   *)
(* drops nothing that has to pass through the node.                        *)
(***************************************************************************)
EmptyAtExit == (\E n \in Node : Done(n)) => \A c \in Node \X Node : net[c] = <<>>

(***************************************************************************)
(* Everybody gets to the end.                                              *)
(***************************************************************************)
Completes == <>(\A n \in Node : Done(n))

(***************************************************************************)
(* Rounds and pings, told apart by counting alone, never mix, and a node   *)
(* that exits leaves no message behind.                                    *)
(***************************************************************************)
RoundsConsistent == TypeOK /\ RoundsMatch /\ PingAlone /\ EmptyAtExit
=============================================================================
