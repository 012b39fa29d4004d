------------------------------- MODULE IoLoop -------------------------------
(***************************************************************************)
(* The I/O thread of one node: ioman_handler_loop with its cached          *)
(* descriptor sets, the notify pipe through which other threads and the    *)
(* I/O thread itself wake it, and the creation and deletion of channels.   *)
(*                                                                         *)
(* select() is given sets computed at some earlier time (ioman_set_fds);   *)
(* every handler that changes what should be in them is to invalidate the  *)
(* cache itself or leave an event in the pipe.  Each turn serves one       *)
(* event, one new connection, one local chunk and every ready channel.     *)
(* Channels are served in any order, where the code goes by its list.      *)
(*                                                                         *)
(* Contents of messages are left out: a queue is its length, and what is   *)
(* read from a channel is one of the kinds of message there are.           *)
(***************************************************************************)
EXTENDS Naturals, Sequences, FiniteSets

CONSTANTS
  Opened,     \* channels that application threads open
  Accepted,   \* channels that other nodes open
  Thread,     \* application threads that send chunks
  LIMIT,      \* CHANNEL_MSG_QUEUE_LIMIT
  Inputs,     \* bound: messages (or ends of file) read from channels
  Chunks,     \* bound: chunks each application thread sends
  Faults,     \* which calls on a channel may fail: of "read", "write", "connect"
  PIPE, LSOCK, LCHAN    \* the other descriptors of the I/O thread

Chan == Opened \cup Accepted
Queue == Chan \cup {LCHAN}

ASSUME IoLoopAssumption ==
  /\ IsFiniteSet(Chan) /\ Opened \cap Accepted = {}
  /\ IsFiniteSet(Thread)
  /\ LIMIT \in Nat \ {0} /\ Inputs \in Nat /\ Chunks \in Nat
  /\ Faults \subseteq {"read", "write", "connect"}
  /\ Chan \cap {PIPE, LSOCK, LCHAN} = {} /\ Cardinality({PIPE, LSOCK, LCHAN}) = 3

VARIABLES
  pc,        \* the part of the turn the I/O thread is in
  todo,      \* channels it has still to look at in this part
  valid,     \* fdset_valid
  cache,     \* man->R_fds and man->W_fds
  fds,       \* R_fds and W_fds of the loop: before select() the sets asked for, then the ready ones
  pipe,      \* events in the notify pipe
  channels,  \* man->channels
  state,     \* state of each channel and of the local one
  queue,     \* lengths of the buff_queues
  waitq,     \* waitq[c]: wait_queue of c
  opening,   \* channels that are not open yet
  app,       \* app[t]: "send", or "notify" between the push and the event
  pushed,    \* pushed[t]: chunks t has sent
  inputs,    \* messages that may still be read
  own,       \* events written by others than senders of chunks, to state NotifyBound
  stop       \* ioman_stop was called

vars == <<pc, todo, valid, cache, fds, pipe, channels, state, queue, waitq, opening, app, pushed,
          inputs, own, stop>>

Event == [kind : {"NEWMSG", "BCASTMSG", "FINALIZE"}] \cup [kind : {"NEWCHAN"}, chan : Opened]
NewMsg == [kind |-> "NEWMSG"]
FdSets == [R : SUBSET (Chan \cup {PIPE, LSOCK, LCHAN}), W : SUBSET Chan]

TypeOK ==
  /\ pc \in {"set_fds", "select", "event", "accept", "local", "read", "write",
             "exit", "abort", "assert"}
  /\ todo \subseteq Chan
  /\ valid \in BOOLEAN /\ cache \in FdSets /\ fds \in FdSets
  /\ pipe \in Seq(Event)
  /\ channels \subseteq {c \in Chan : state[c] \in {"SETUP", "ACTIVE", "BLOCKING"}}
  /\ state \in [Queue -> {"none", "SETUP", "ACTIVE", "BLOCKING", "destroyed"}]
  /\ queue \in [Queue -> Nat]
  /\ waitq \in [Chan -> Seq(Queue)]
  /\ opening \subseteq Chan
  /\ app \in [Thread -> {"send", "notify"}] /\ pushed \in [Thread -> 0 .. Chunks]
  /\ inputs \in 0 .. Inputs /\ own \in Nat /\ stop \in BOOLEAN

Init ==
  /\ pc = "set_fds" /\ todo = {}
  /\ valid = FALSE
  /\ cache = [R |-> {}, W |-> {}] /\ fds = [R |-> {}, W |-> {}]
  /\ pipe = <<>>
  /\ channels = {}
  /\ state = [c \in Queue |-> IF c = LCHAN THEN "ACTIVE" ELSE "none"]
  /\ queue = [c \in Queue |-> 0]
  /\ waitq = [c \in Chan |-> <<>>]
  /\ opening = Chan
  /\ app = [t \in Thread |-> "send"] /\ pushed = [t \in Thread |-> 0]
  /\ inputs = Inputs /\ own = 0 /\ stop = FALSE

netvars == <<channels, state, queue, waitq>>
appvars == <<app, pushed, stop>>

-----------------------------------------------------------------------------
(***************************************************************************)
(* Application threads.  A thread pushes to the local channel (one step    *)
(* here, see LocalChannel) and then writes an event.  It sends only when   *)
(* the tables have come (see RouteExchange), hence over a channel there is.*)
(***************************************************************************)
NextHops(c) == {d \in channels \ {c} : state[d] # "SETUP"}

PushLocal(t) ==
  /\ app[t] = "send" /\ pushed[t] < Chunks /\ ~stop
  /\ queue[LCHAN] < LIMIT /\ NextHops(LCHAN) # {}
  /\ queue' = [queue EXCEPT ![LCHAN] = @ + 1]
  /\ app' = [app EXCEPT ![t] = "notify"]
  /\ pushed' = [pushed EXCEPT ![t] = @ + 1]
  /\ UNCHANGED <<pc, todo, valid, cache, fds, pipe, channels, state, waitq, opening, inputs, own,
                 stop>>

ioman_notify_newmsg(t) ==
  /\ app[t] = "notify"
  /\ pipe' = Append(pipe, NewMsg)
  /\ app' = [app EXCEPT ![t] = "send"]
  /\ UNCHANGED <<pc, todo, valid, cache, fds, netvars, opening, pushed, inputs, own, stop>>

(***************************************************************************)
(* ioman_new_connection: the channel exists before the I/O thread knows.   *)
(***************************************************************************)
ioman_new_connection(c) ==
  /\ c \in opening \cap Opened /\ ~stop
  /\ opening' = opening \ {c}
  /\ state' = [state EXCEPT ![c] = "SETUP"]
  /\ pipe' = Append(pipe, [kind |-> "NEWCHAN", chan |-> c])
  /\ own' = own + 1
  /\ UNCHANGED <<pc, todo, valid, cache, fds, channels, queue, waitq, appvars, inputs>>

(***************************************************************************)
(* ioman_stop, called by comm_node_destroy when no thread uses the node.   *)
(***************************************************************************)
ioman_stop ==
  /\ ~stop /\ \A t \in Thread : app[t] = "send"
  /\ stop' = TRUE
  /\ pipe' = Append(pipe, [kind |-> "FINALIZE"])
  /\ own' = own + 1
  /\ UNCHANGED <<pc, todo, valid, cache, fds, netvars, opening, app, pushed, inputs>>

-----------------------------------------------------------------------------
channel_is_readable(c) == state[c] = "ACTIVE"
channel_is_writable(c) == queue[c] > 0 \/ state[c] = "SETUP"

(***************************************************************************)
(* Mutant: the notify pipe is watched only while no channel is open.       *)
(***************************************************************************)
NeedR_idle ==
  (IF \E c \in channels : state[c] = "ACTIVE" THEN {LSOCK} ELSE {PIPE, LSOCK})
    \cup {c \in channels \cup {LCHAN} : channel_is_readable(c)}

NeedR == {PIPE, LSOCK} \cup {c \in channels \cup {LCHAN} : channel_is_readable(c)}
NeedW == {c \in channels : channel_is_writable(c)}

Fds(R, W) == [R |-> R, W |-> W]

ioman_set_fds ==
  /\ pc = "set_fds"
  /\ fds' = IF valid THEN cache ELSE Fds(NeedR, NeedW)
  /\ cache' = fds'
  /\ valid' = TRUE
  /\ pc' = "select"
  /\ UNCHANGED <<todo, pipe, netvars, opening, appvars, inputs, own>>

(***************************************************************************)
(* select() returns what is ready of what it was asked about.  The pipe    *)
(* and the local channel are ready when they hold something; whether there *)
(* is something to read from a channel or room to write is up to TCP.      *)
(***************************************************************************)
MustBeReady == (IF pipe # <<>> THEN {PIPE} ELSE {}) \cup (IF queue[LCHAN] > 0 THEN {LCHAN} ELSE {})
MayBeReady ==
  (IF opening \cap Accepted # {} THEN {LSOCK} ELSE {}) \cup (IF inputs > 0 THEN Chan ELSE {})

Select(R, W) ==
  /\ pc = "select"
  /\ R \subseteq fds.R \cap (MustBeReady \cup MayBeReady) /\ MustBeReady \cap fds.R \subseteq R
  /\ W \subseteq fds.W
  /\ R \cup W # {}
  /\ fds' = Fds(R, W)
  /\ pc' = "event"
  /\ UNCHANGED <<todo, valid, cache, pipe, netvars, opening, appvars, inputs, own>>

-----------------------------------------------------------------------------
(***************************************************************************)
(* ioman_handle_event: at most one event per turn.                         *)
(***************************************************************************)
InvalidateCache == valid' = FALSE

ioman_handle_event_newchan(c) ==
  /\ channels' = channels \cup {c}
  /\ InvalidateCache
  /\ UNCHANGED <<queue>>

ioman_handle_event_newmsg == InvalidateCache /\ UNCHANGED <<channels, queue>>

(***************************************************************************)
(* To all channels whose peer is known (reg).                              *)
(***************************************************************************)
ioman_handle_event_bcastmsg ==
  /\ \E reg \in SUBSET {c \in channels : state[c] # "SETUP"} :
       queue' = [c \in Queue |-> IF c \in reg THEN queue[c] + 1 ELSE queue[c]]
  /\ InvalidateCache
  /\ UNCHANGED channels

EventReady == PIPE \in fds.R

HandlePipe ==
  /\ pc = "event"
  /\ \/ /\ ~EventReady
        /\ pc' = "accept"
        /\ UNCHANGED <<pipe, valid, channels, queue>>
     \/ /\ EventReady
        /\ pipe' = Tail(pipe)
        /\ LET e == Head(pipe) IN
           \/ /\ e.kind = "FINALIZE"
              /\ pc' = "exit"
              /\ UNCHANGED <<valid, channels, queue>>
           \/ e.kind = "NEWCHAN" /\ pc' = "accept" /\ ioman_handle_event_newchan(e.chan)
           \/ e.kind = "NEWMSG" /\ pc' = "accept" /\ ioman_handle_event_newmsg
           \/ e.kind = "BCASTMSG" /\ pc' = "accept" /\ ioman_handle_event_bcastmsg
  /\ UNCHANGED <<todo, cache, fds, state, waitq, opening, appvars, inputs, own>>

(***************************************************************************)
(* A connection from another node.                                         *)
(***************************************************************************)
Accept ==
  /\ pc = "accept"
  /\ pc' = "local"
  /\ \/ /\ LSOCK \notin fds.R
        /\ UNCHANGED <<channels, state, opening, valid>>
     \/ /\ LSOCK \in fds.R
        /\ \E c \in opening \cap Accepted :
             /\ channels' = channels \cup {c}
             /\ state' = [state EXCEPT ![c] = "ACTIVE"]
             /\ opening' = opening \ {c}
        /\ InvalidateCache
  /\ UNCHANGED <<todo, cache, fds, pipe, queue, waitq, appvars, inputs, own>>

(***************************************************************************)
(* A chunk read from c goes into the queue of d, or c waits for d.         *)
(***************************************************************************)
channel_pipeline_chunk(c, d, taken) ==
  \/ /\ queue[d] < LIMIT
     /\ queue' = [queue EXCEPT ![c] = @ - taken, ![d] = @ + 1]
     /\ state' = [state EXCEPT ![c] = "ACTIVE"]
     /\ UNCHANGED waitq
  \/ /\ queue[d] >= LIMIT
     /\ queue' = [queue EXCEPT ![c] = @ - taken]
     /\ state' = [state EXCEPT ![c] = "BLOCKING"]
     /\ waitq' = [waitq EXCEPT ![d] = Append(@, c)]

(***************************************************************************)
(* A chunk whose next hop has been deleted fails ioman_get_nexthop_channel.*)
(***************************************************************************)
LocalRead ==
  /\ pc = "local"
  /\ todo' = fds.R \cap channels
  /\ pc' = IF LCHAN \in fds.R /\ NextHops(LCHAN) = {} THEN "abort" ELSE "read"
  /\ \/ /\ LCHAN \notin fds.R \/ NextHops(LCHAN) = {}
        /\ UNCHANGED <<state, queue, waitq, valid>>
     \/ /\ LCHAN \in fds.R
        /\ \E d \in NextHops(LCHAN) : channel_pipeline_chunk(LCHAN, d, 1)
        /\ InvalidateCache
  /\ UNCHANGED <<cache, fds, pipe, channels, opening, appvars, inputs, own>>

(***************************************************************************)
(* The waiters in D are read again.                                        *)
(***************************************************************************)
Admit(D) == [d \in Queue |-> IF d \in D /\ state[d] = "BLOCKING" THEN "ACTIVE" ELSE state[d]]

(***************************************************************************)
(* ioman_delete_channel and channel_destroy: the channel goes with its     *)
(* queue and its wait queue; it is not taken out of a wait queue it is in. *)
(***************************************************************************)
(***************************************************************************)
(* Mutant: the cached sets still hold the descriptor.                      *)
(***************************************************************************)
ioman_delete_channel_valid(c, unblocked) ==
  /\ channels' = channels \ {c}
  /\ state' = [d \in Queue |-> IF d = c THEN "destroyed" ELSE Admit(unblocked)[d]]
  /\ queue' = [queue EXCEPT ![c] = 0]
  /\ waitq' = [waitq EXCEPT ![c] = <<>>]
  /\ UNCHANGED valid

ioman_delete_channel(c, unblocked) ==
  /\ channels' = channels \ {c}
  /\ state' = [d \in Queue |-> IF d = c THEN "destroyed" ELSE Admit(unblocked)[d]]
  /\ queue' = [queue EXCEPT ![c] = 0]
  /\ waitq' = [waitq EXCEPT ![c] = <<>>]
  /\ InvalidateCache

(***************************************************************************)
(* ioman_process_channel_read for a channel select() found readable.       *)
(***************************************************************************)
(***************************************************************************)
(* Part of a message: the rest will make the channel readable again.       *)
(***************************************************************************)
ReadPart == UNCHANGED <<netvars, valid, pipe, inputs, own>>

ReadForward(c) ==
  /\ \E d \in NextHops(c) : channel_pipeline_chunk(c, d, 0)
  /\ InvalidateCache
  /\ UNCHANGED <<channels, pipe, own>>

(***************************************************************************)
(* PING0, PING1 or PONG0: the reply goes the way of any message, through   *)
(* ioman_send_msg, which writes an event for the thread it runs in.        *)
(***************************************************************************)
ReadPing(c) ==
  /\ queue' = [queue EXCEPT ![c] = @ + 1]
  /\ pipe' = Append(pipe, NewMsg)
  /\ own' = own + 1
  /\ UNCHANGED <<channels, state, waitq, valid>>

(***************************************************************************)
(* A routing table that is new is broadcast through the pipe.  A chunk for *)
(* this node, PONG1 or a known table change nothing here.                  *)
(***************************************************************************)
ReadTable ==
  /\ pipe' = Append(pipe, [kind |-> "BCASTMSG"])
  /\ own' = own + 1
  /\ UNCHANGED <<netvars, valid>>

ReadOwn == UNCHANGED <<netvars, valid, pipe, own>>

ReadError(c) ==
  /\ "read" \in Faults
  /\ ioman_delete_channel(c, {})
  /\ UNCHANGED <<pipe, own>>

Read(c) ==
  /\ pc = "read" /\ c \in todo
  /\ todo' = todo \ {c}
  /\ \/ ReadPart
     \/ /\ inputs > 0
        /\ inputs' = inputs - 1
        /\ ReadForward(c) \/ ReadPing(c) \/ ReadTable \/ ReadOwn \/ ReadError(c)
  /\ UNCHANGED <<pc, cache, fds, opening, appvars>>

ReadDone ==
  /\ pc = "read" /\ todo = {}
  /\ pc' = "write" /\ todo' = fds.W \cap channels
  /\ UNCHANGED <<valid, cache, fds, pipe, netvars, opening, appvars, inputs, own>>

(***************************************************************************)
(* ioman_process_channel_write.  A channel that is being set up has        *)
(* connected, and PING0 is queued, or it has failed.                       *)
(***************************************************************************)
WriteSetup(c) ==
  /\ state[c] = "SETUP"
  /\ \/ /\ state' = [state EXCEPT ![c] = "ACTIVE"]
        /\ queue' = [queue EXCEPT ![c] = @ + 1]
        /\ InvalidateCache
        /\ UNCHANGED <<channels, waitq>>
     \/ "connect" \in Faults /\ ioman_delete_channel(c, {})
  /\ pc' = pc

(***************************************************************************)
(* channel_write: k messages leave; after each, waiters are admitted while *)
(* there is room.                                                          *)
(***************************************************************************)
Admitted(q, w) == IF w = <<>> \/ q >= LIMIT THEN 0
                  ELSE IF Len(w) < LIMIT - q THEN Len(w) ELSE LIMIT - q

Sent(c) ==
  LET after[k \in Nat] ==
        IF k = 0 THEN [q |-> queue[c], w |-> waitq[c]]
        ELSE LET b == after[k - 1]
                 n == Admitted(b.q - 1, b.w)
             IN  [q |-> b.q - 1 + n, w |-> SubSeq(b.w, n + 1, Len(b.w))]
  IN  after

(***************************************************************************)
(* Mutant: the cache stays valid when a waiter is admitted.                *)
(***************************************************************************)
WriteCache_unblock(left, unblock) == valid' = (valid /\ left > 0)

WriteCache(left, unblock) == valid' = (valid /\ left > 0 /\ ~unblock)

(***************************************************************************)
(* Waiters that are admitted read again.  One that was destroyed meanwhile *)
(* fails the assertion on its buffer, or worse.                            *)
(***************************************************************************)
Unblocked(c, k) == {waitq[c][i] : i \in 1 .. Len(waitq[c]) - Len(Sent(c)[k].w)}

Unblock(c, k) ==
  /\ \A j \in 0 .. k - 1 : Sent(c)[j].q > 0
  /\ pc' = IF \E d \in Unblocked(c, k) : state[d] = "destroyed" THEN "assert" ELSE pc

WriteQueue(c) ==
  /\ state[c] # "SETUP"
  /\ \E k \in 0 .. queue[c] + Len(waitq[c]) :
       /\ Unblock(c, k)
       /\ queue' = [queue EXCEPT ![c] = Sent(c)[k].q]
       /\ waitq' = [waitq EXCEPT ![c] = Sent(c)[k].w]
       /\ state' = Admit(Unblocked(c, k))
       /\ WriteCache(Sent(c)[k].q, Unblocked(c, k) # {})
  /\ UNCHANGED channels

(***************************************************************************)
(* The error comes after k messages; the channel is deleted.               *)
(***************************************************************************)
WriteError(c) ==
  /\ "write" \in Faults /\ state[c] # "SETUP"
  /\ \E k \in 0 .. queue[c] + Len(waitq[c]) :
       /\ Unblock(c, k) /\ Sent(c)[k].q > 0
       /\ ioman_delete_channel(c, Unblocked(c, k))

Write(c) ==
  /\ pc = "write" /\ c \in todo
  /\ todo' = todo \ {c}
  /\ WriteSetup(c) \/ WriteQueue(c) \/ WriteError(c)
  /\ UNCHANGED <<cache, fds, pipe, opening, appvars, inputs, own>>

WriteDone ==
  /\ pc = "write" /\ todo = {}
  /\ pc' = "set_fds"
  /\ UNCHANGED <<todo, valid, cache, fds, pipe, netvars, opening, appvars, inputs, own>>

(***************************************************************************)
(* ioman_finalize, when the loop has ended: what is queued is dropped.     *)
(***************************************************************************)
ioman_finalize ==
  /\ pc = "exit" /\ channels # {}
  /\ channels' = {}
  /\ state' = [c \in Queue |-> IF c \in channels THEN "destroyed" ELSE state[c]]
  /\ queue' = [c \in Queue |-> IF c \in channels THEN 0 ELSE queue[c]]
  /\ waitq' = [c \in Chan |-> <<>>]
  /\ valid' = FALSE
  /\ UNCHANGED <<pc, todo, cache, fds, pipe, opening, appvars, inputs, own>>

IoThread ==
  \/ ioman_set_fds \/ HandlePipe \/ Accept \/ LocalRead \/ ReadDone \/ WriteDone \/ ioman_finalize
  \/ \E R \in SUBSET fds.R, W \in SUBSET fds.W : Select(R, W)
  \/ \E c \in Chan : Read(c) \/ Write(c)

Next ==
  \/ \E t \in Thread : PushLocal(t) \/ ioman_notify_newmsg(t)
  \/ \E c \in Opened : ioman_new_connection(c)
  \/ ioman_stop
  \/ IoThread

Spec == Init /\ [][Next]_vars

(***************************************************************************)
(* The I/O thread runs, and so do threads about to write an event.         *)
(***************************************************************************)
FairSpec ==
  /\ Spec
  /\ WF_vars(IoThread)
  /\ \A t \in Thread : WF_vars(ioman_notify_newmsg(t))

-----------------------------------------------------------------------------
(***************************************************************************)
(* The cache is never stale without a remedy: when the I/O thread goes to  *)
(* sleep on sets that lack a descriptor it should look at, an event in the *)
(* pipe will wake it and invalidate them.                                  *)
(***************************************************************************)
CacheServes ==
  pc = "select" => \/ NeedR \subseteq fds.R /\ NeedW \subseteq fds.W
                   \/ pipe # <<>>

(***************************************************************************)
(* select() is never given a closed descriptor.                            *)
(***************************************************************************)
DescriptorsOpen == pc = "select" => (fds.R \cup fds.W) \cap Chan \subseteq channels

(***************************************************************************)
(* A channel that holds a chunk it could not pass on is not read: reading  *)
(* it would pass the same chunk on again.                                  *)
(***************************************************************************)
BlockedNotRead ==
  /\ pc = "read" => \A c \in todo : state[c] = "ACTIVE"
  /\ pc = "local" /\ LCHAN \in fds.R => state[LCHAN] = "ACTIVE" /\ queue[LCHAN] > 0

(***************************************************************************)
(* The pipe, which the I/O thread also writes itself, cannot fill up: each *)
(* turn takes an event and at most one local chunk, so that beside the     *)
(* events of control traffic (own, a few for each connection and table)    *)
(* there are never more than the queue's limit and one for each thread.    *)
(* 4 MB hold more than a million.                                          *)
(***************************************************************************)
NotifyBound == Len(pipe) <= LIMIT + Cardinality(Thread) + own

(***************************************************************************)
(* Until a channel is deleted, a BLOCKING channel is in one wait queue,    *)
(* once, and a wait queue holds BLOCKING channels only.                    *)
(***************************************************************************)
Waiting(c) ==
  {p \in Chan \X (1 .. Cardinality(Queue)) : p[2] <= Len(waitq[p[1]]) /\ waitq[p[1]][p[2]] = c}

WaitersMatch ==
  (\A c \in Queue : state[c] # "destroyed") =>
    \A c \in Queue : Cardinality(Waiting(c)) = IF state[c] = "BLOCKING" THEN 1 ELSE 0

(***************************************************************************)
(* ioman_stop returns: whatever is queued and whatever fails, the loop     *)
(* ends, unless a deleted channel has stopped the process before.          *)
(***************************************************************************)
StopReturns == stop ~> \/ pc = "exit" /\ channels = {}
                       \/ pc \in {"abort", "assert"}

(***************************************************************************)
(* A waiter that channel_write admits still has the chunk it waits with:   *)
(* the assertion of channel_pipeline_chunk holds.                          *)
(***************************************************************************)
WaitersAlive == pc # "assert"

(***************************************************************************)
(* The descriptor sets, the states of the channels, the wait queues and    *)
(* the notify pipe agree between any two calls of select.                  *)
(***************************************************************************)
LoopConsistent == TypeOK /\ DescriptorsOpen /\ BlockedNotRead /\ WaitersMatch /\ NotifyBound
=============================================================================
