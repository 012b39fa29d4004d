------------------------------ MODULE Receiver ------------------------------
(***************************************************************************)
(* Messages from dlfree_comm_node_send_data of several nodes to the        *)
(* receive calls of one: segmentation, sessions, reassembly in             *)
(* data_msg_map, one queue per source, and the count of undelivered        *)
(* messages that receivers of any source wait on.                          *)
(*                                                                         *)
(* The overlay between is the Streams of Pipeline: the chunks a node sends *)
(* to this one leave its local channel in one order and arrive in it.      *)
(*                                                                         *)
(* A session id is the sender's counter shifted by 20 bits plus its id.    *)
(* unpack_uint64 passes it through an int, so that the counter arrives     *)
(* modulo 2^12: WIDTH is 4096 in the code.                                 *)
(***************************************************************************)
EXTENDS Integers, Sequences, FiniteSets

CONSTANTS
  Source,       \* nodes that send to this one; numbers, receivers look at them in order
  Thread,       \* sending threads
  SrcOf,        \* SrcOf[t]: the node of thread t
  MsgLen,       \* MsgLen[t]: the lengths of the messages t sends, in order
  CHUNK_SZ,     \* COMM_DATA_CHUNK_SIZE
  WIDTH,        \* counters that unpack_uint64 keeps apart
  Caller,       \* threads that receive
  Want,         \* Want[r]: the source r receives from, or ANY
  ANY, NULL,
  UnackedInit   \* what data_msg_unacked_recvd may be before anything is stored in it

ASSUME ReceiverAssumption ==
  /\ Source \subseteq Nat /\ IsFiniteSet(Source)
  /\ SrcOf \in [Thread -> Source]
  /\ \A t \in Thread : MsgLen[t] \in Seq(Nat)
  /\ CHUNK_SZ \in Nat \ {0} /\ WIDTH \in Nat \ {0}
  /\ ANY \notin Source /\ Want \in [Caller -> Source \cup {ANY}]
  /\ UnackedInit \subseteq Int

(***************************************************************************)
(* data_msg: a message being reassembled or complete.  part is what a      *)
(* reader of the message would see: whose bytes they are.                  *)
(***************************************************************************)
Part == Thread \X Nat \X Nat
Data == [src_id : Source, len : Nat, recvd : Nat, seq : Int, parts : Seq(Part)]

ASSUME NullAssumption == NULL \notin Data

VARIABLES
  counter,  \* counter[s]: data_msg_sid of node s
  snd,      \* snd[t]: the message t is sending, its session and how far it is
  net,      \* net[s]: chunks on their way from s, in order
  curr,     \* curr[s]: whether the header of the chunk at the head of net[s] was read
  data_msg_map,            \* messages being reassembled, by session id
  recvd_data_msg_queues,   \* per source, messages complete and not received
  unacked,  \* data_msg_unacked_recvd
  garbage,  \* what it was when nothing had been stored in it yet (constant)
  empty,    \* history: receive calls that returned without a message
  call,     \* call[r]: r is in its receive "call" or asleep in "cond_wait"
  dead,     \* "no", or how the process stopped: "assert", "segv"
  delivered, taken         \* history, for Mailbox

sndvars == <<counter, snd>>
cntvars == <<unacked, garbage, empty>>
vars == <<counter, snd, net, curr, data_msg_map, recvd_data_msg_queues, unacked, garbage, empty,
          call, dead, delivered, taken>>

-----------------------------------------------------------------------------
(***************************************************************************)
(* Sessions and chunks.                                                    *)
(***************************************************************************)
(***************************************************************************)
(* Mutant: no node id in the session.                                      *)
(***************************************************************************)
WireSid_nonode(s, c) == <<0, c % WIDTH>>

WireSid(s, c) == <<s, c % WIDTH>>
Sid == (Source \cup {0}) \X (0 .. WIDTH - 1)

ChunkLen(t) ==
  LET remain == MsgLen[t][snd[t].msg] - snd[t].off
  IN  IF CHUNK_SZ > remain THEN remain ELSE CHUNK_SZ

Chunk(t) ==
  [src_id |-> SrcOf[t], sid |-> WireSid(SrcOf[t], snd[t].sid), tot_len |-> MsgLen[t][snd[t].msg],
   seq |-> snd[t].seq, len |-> ChunkLen(t), part |-> <<t, snd[t].msg, snd[t].seq>>]

Sending(t) == snd[t].msg > 0 /\ snd[t].off < MsgLen[t][snd[t].msg]

ChunkType == [src_id : Source, sid : Sid, tot_len : Nat, seq : Nat, len : Nat, part : Part]

TypeOK ==
  /\ counter \in [Source -> Nat]
  /\ snd \in [Thread -> [msg : Nat, sid : Nat, off : Nat, seq : Nat]]
  /\ \A t \in Thread : /\ snd[t].msg <= Len(MsgLen[t])
                       /\ snd[t].msg > 0 => snd[t].off <= MsgLen[t][snd[t].msg]
  /\ net \in [Source -> Seq(ChunkType)]
  /\ curr \in [Source -> BOOLEAN]
  /\ data_msg_map \in [Sid -> Data \cup {NULL}]
  /\ recvd_data_msg_queues \in [Source -> Seq(Data)]
  /\ unacked \in Int /\ garbage \in UnackedInit /\ empty \in Nat
  /\ call \in [Caller -> {"call", "cond_wait"}]
  /\ dead \in {"no", "assert", "segv"}
  /\ delivered \in [Thread -> Nat] /\ taken \subseteq Part

Init ==
  /\ counter = [s \in Source |-> 0]
  /\ snd = [t \in Thread |-> [msg |-> 0, sid |-> 0, off |-> 0, seq |-> 0]]
  /\ net = [s \in Source |-> <<>>]
  /\ curr = [s \in Source |-> FALSE]
  /\ data_msg_map = [i \in Sid |-> NULL]
  /\ recvd_data_msg_queues = [s \in Source |-> <<>>]
  /\ garbage \in UnackedInit
  /\ unacked = garbage
  /\ empty = 0
  /\ call = [r \in Caller |-> "call"]
  /\ dead = "no"
  /\ delivered = [t \in Thread |-> 0]
  /\ taken = {}

-----------------------------------------------------------------------------
comm_node_get_new_sid(t) ==
  /\ ~Sending(t) /\ snd[t].msg < Len(MsgLen[t])
  /\ snd' = [snd EXCEPT ![t] = [msg |-> @.msg + 1, sid |-> counter[SrcOf[t]], off |-> 0, seq |-> 0]]
  /\ counter' = [counter EXCEPT ![SrcOf[t]] = @ + 1]
  /\ UNCHANGED <<net, curr, data_msg_map, recvd_data_msg_queues, cntvars, call, dead,
                 delivered, taken>>

ioman_send_chunk(t) ==
  /\ Sending(t)
  /\ net' = [net EXCEPT ![SrcOf[t]] = Append(@, Chunk(t))]
  /\ snd' = [snd EXCEPT ![t].off = @ + ChunkLen(t), ![t].seq = @ + 1]
  /\ UNCHANGED <<counter, curr, data_msg_map, recvd_data_msg_queues, cntvars, call, dead,
                 delivered, taken>>

-----------------------------------------------------------------------------
(***************************************************************************)
(* The I/O thread of the receiving node: comm_node_setup_chunk when the    *)
(* header is read, comm_node_handle_chunk when the body is.                *)
(***************************************************************************)
data_msg_create(c) ==
  [src_id |-> c.src_id, len |-> c.tot_len, recvd |-> 0, seq |-> -1, parts |-> <<>>]

comm_node_setup_chunk(s) ==
  /\ net[s] # <<>> /\ ~curr[s]
  /\ LET c == Head(net[s]) IN
       data_msg_map' = [data_msg_map EXCEPT ![c.sid] = IF @ = NULL THEN data_msg_create(c) ELSE @]
  /\ curr' = [curr EXCEPT ![s] = TRUE]
  /\ UNCHANGED <<sndvars, net, recvd_data_msg_queues, cntvars, call, dead, delivered, taken>>

(***************************************************************************)
(* data_msg_push_chunk: its assertions, and the message after it.          *)
(***************************************************************************)
CanPush(data, c) ==
  /\ data # NULL
  /\ c.src_id = data.src_id
  /\ c.seq - data.seq \in {0, 1}
  /\ data.recvd + c.len <= data.len

Pushed(data, c) ==
  [data EXCEPT !.seq = c.seq, !.recvd = @ + c.len, !.parts = Append(@, c.part)]

(***************************************************************************)
(* Mutant: complete one byte early.                                        *)
(***************************************************************************)
Full_early(data) == data.recvd >= data.len - 1

Full(data) == data.recvd = data.len

Broadcast == [r \in Caller |-> "call"]

(***************************************************************************)
(* Mutant: only one of the waiting threads is woken.                       *)
(***************************************************************************)
WakeUp_signal ==
  IF \E r \in Caller : call[r] = "cond_wait"
  THEN [call EXCEPT ![CHOOSE r \in Caller : call[r] = "cond_wait"] = "call"]
  ELSE call

WakeUp == Broadcast

comm_node_deliver_chunk(data) ==
  /\ recvd_data_msg_queues' = [recvd_data_msg_queues EXCEPT ![data.src_id] = Append(@, data)]
  /\ unacked' = unacked + 1
  /\ call' = WakeUp
  /\ delivered' = [delivered EXCEPT ![data.parts[1][1]] = @ + 1]

comm_node_handle_chunk(s) ==
  /\ curr[s]
  /\ LET c == Head(net[s])
         old == data_msg_map[c.sid]
         data == Pushed(old, c)
     IN  \/ /\ ~CanPush(old, c)
            /\ dead' = "assert"
            /\ UNCHANGED <<data_msg_map, recvd_data_msg_queues, cntvars, call, delivered>>
         \/ /\ CanPush(old, c) /\ ~Full(data)
            /\ data_msg_map' = [data_msg_map EXCEPT ![c.sid] = data]
            /\ UNCHANGED <<recvd_data_msg_queues, cntvars, call, dead, delivered>>
         \/ /\ CanPush(old, c) /\ Full(data)
            /\ data_msg_map' = [data_msg_map EXCEPT ![c.sid] = NULL]
            /\ comm_node_deliver_chunk(data)
            /\ dead' = dead
  /\ net' = [net EXCEPT ![s] = Tail(@)]
  /\ curr' = [curr EXCEPT ![s] = FALSE]
  /\ UNCHANGED <<sndvars, garbage, empty, taken>>

-----------------------------------------------------------------------------
(***************************************************************************)
(* Receive calls.  A call holds the node's mutex but while it waits.       *)
(***************************************************************************)
(***************************************************************************)
(* comm_node_recv_data clears its parameter buff, and stores the message   *)
(* through it when it has one.                                             *)
(***************************************************************************)
comm_node_recv_data(r) ==
  /\ call[r] = "call" /\ Want[r] # ANY
  /\ \/ /\ recvd_data_msg_queues[Want[r]] # <<>>
        /\ dead' = "segv"
        /\ call' = call
     \/ /\ recvd_data_msg_queues[Want[r]] = <<>>
        /\ call' = [call EXCEPT ![r] = "cond_wait"]
        /\ dead' = dead
  /\ UNCHANGED <<sndvars, net, curr, data_msg_map, recvd_data_msg_queues, cntvars,
                 delivered, taken>>

NonEmpty == {s \in Source : recvd_data_msg_queues[s] # <<>>}
First == CHOOSE s \in NonEmpty : \A z \in NonEmpty : s <= z

Take(s) ==
  /\ recvd_data_msg_queues' = [recvd_data_msg_queues EXCEPT ![s] = Tail(@)]
  /\ taken' = taken \cup {Head(recvd_data_msg_queues[s]).parts[1]}

(***************************************************************************)
(* comm_node_recv_any_data: with a positive count but no message it        *)
(* returns what the caller's variables held before.                        *)
(***************************************************************************)
comm_node_recv_any_data(r) ==
  /\ call[r] = "call" /\ Want[r] = ANY
  /\ \/ /\ unacked > 0
        /\ unacked' = unacked - 1
        /\ \/ NonEmpty # {} /\ Take(First) /\ empty' = empty
           \/ /\ NonEmpty = {}
              /\ empty' = empty + 1
              /\ UNCHANGED <<recvd_data_msg_queues, taken>>
        /\ call' = call
     \/ /\ unacked <= 0
        /\ call' = [call EXCEPT ![r] = "cond_wait"]
        /\ UNCHANGED <<recvd_data_msg_queues, unacked, empty, taken>>
  /\ UNCHANGED <<sndvars, net, curr, data_msg_map, garbage, dead, delivered>>

SpuriousWakeup(r) ==
  /\ call[r] = "cond_wait"
  /\ call' = [call EXCEPT ![r] = "call"]
  /\ UNCHANGED <<sndvars, net, curr, data_msg_map, recvd_data_msg_queues, cntvars, dead,
                 delivered, taken>>

Receive(r) == dead = "no" /\ (comm_node_recv_data(r) \/ comm_node_recv_any_data(r))
IoThread(s) == dead = "no" /\ (comm_node_setup_chunk(s) \/ comm_node_handle_chunk(s))

Next ==
  \/ \E t \in Thread : comm_node_get_new_sid(t) \/ ioman_send_chunk(t)
  \/ \E s \in Source : IoThread(s)
  \/ \E r \in Caller : Receive(r) \/ (dead = "no" /\ SpuriousWakeup(r))

(***************************************************************************)
(* The I/O thread serves every connection; a thread that has begun to send *)
(* goes on; receive calls run when they can.                               *)
(***************************************************************************)
Fairness ==
  /\ \A t \in Thread : WF_vars(ioman_send_chunk(t))
  /\ \A s \in Source : WF_vars(IoThread(s))
  /\ \A r \in Caller : WF_vars(Receive(r))

Spec == Init /\ [][Next]_vars
FairSpec == Spec /\ Fairness

-----------------------------------------------------------------------------
(***************************************************************************)
(* No assertion of comm_node_setup_chunk, comm_node_handle_chunk or        *)
(* data_msg_push_chunk fails: sessions that are being reassembled at the   *)
(* same time are told apart, and their chunks come one after the other.    *)
(***************************************************************************)
AssertsHold == dead # "assert"

(***************************************************************************)
(* The count receivers of any source wait on follows the messages in the   *)
(* queues of all sources: it is wrong only by what the node's memory held  *)
(* before, less one for each call that found a count and no message.       *)
(***************************************************************************)
QueuedMessages == Cardinality(UNION {{s} \X DOMAIN recvd_data_msg_queues[s] : s \in Source})

UnackedMatches == unacked + empty = garbage + QueuedMessages

(***************************************************************************)
(* Nobody sleeps while there is a message for it: deliveries wake all who  *)
(* wait, because the one message that arrives may be for any of them.      *)
(* (A receiver of any source may, if the count began below zero.)          *)
(***************************************************************************)
NoLostWakeup ==
  \A r \in Caller : call[r] = "cond_wait" =>
    IF Want[r] = ANY THEN NonEmpty = {} \/ garbage < 0 ELSE recvd_data_msg_queues[Want[r]] = <<>>

(***************************************************************************)
(* Mailbox, as seen here.  A queued message stands for message k of thread *)
(* t only if it consists of all chunks of that message in order.           *)
(***************************************************************************)
NumChunks(t, k) == (MsgLen[t][k] + CHUNK_SZ - 1) \div CHUNK_SZ

Whole(data) ==
  LET t == data.parts[1][1]
      k == data.parts[1][2]
  IN  data.parts = [i \in 1 .. NumChunks(t, k) |-> <<t, k, i - 1>>]

AsMessage(data) ==
  IF Whole(data) THEN <<data.parts[1][1], data.parts[1][2]>> ELSE NULL

Box == INSTANCE Mailbox WITH
  NMsgs <- [t \in Thread |-> Len(MsgLen[t])],
  sent <- [t \in Thread |-> snd[t].msg],
  box <- [s \in Source |-> [i \in DOMAIN recvd_data_msg_queues[s] |->
                             AsMessage(recvd_data_msg_queues[s][i])]],
  taken <- {<<x[1], x[2]>> : x \in taken}

(***************************************************************************)
(* Messages reach the receiver whole, once, in the order of their thread.  *)
(***************************************************************************)
ImplementsSafeMailbox == Box!SafeSpec

(***************************************************************************)
(* Every message that was sent with dlfree_comm_node_send_data is received *)
(* while somebody calls dlfree_comm_node_recv_any_data again and again,    *)
(* unless dlfree_comm_node_recv_data has stopped the process.              *)
(***************************************************************************)
EveryMessageReceived ==
  \A t \in Thread : snd[t].msg = Len(MsgLen[t]) ~>
    \/ dead = "segv" \/ garbage < 0
    \/ \A k \in DOMAIN MsgLen[t] : <<t, k, 0>> \in taken

(***************************************************************************)
(* The messages a node has, the number it keeps of them and the threads    *)
(* that sleep until there are some agree, and no assertion fails.          *)
(***************************************************************************)
MailboxConsistent == TypeOK /\ AssertsHold /\ UnackedMatches /\ NoLostWakeup
=============================================================================
