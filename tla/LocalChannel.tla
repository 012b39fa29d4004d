---------------------------- MODULE LocalChannel ----------------------------
(***************************************************************************)
(* The local channel of one node: the bounded queue between the            *)
(* application threads, which push chunks (channel_local_push_chunk), and  *)
(* the I/O thread, which pops them (channel_local_pop_chunk) and passes    *)
(* them on.  Pipeline takes push and pop to be atomic; here they are not.  *)
(*                                                                         *)
(* Threads wait for room on a condition variable.  The I/O thread cannot   *)
(* wait on one, it sleeps in select(): every push also writes a token to a *)
(* pipe, and the I/O thread pops a chunk per token it reads.               *)
(*                                                                         *)
(* Granularity: a critical section of the channel's mutex, a pipe read and *)
(* a pipe write are a step each.                                           *)
(***************************************************************************)
EXTENDS Naturals, Sequences, FiniteSets

CONSTANTS
  Thread,    \* application threads
  NChunks,   \* NChunks[p]: chunks that thread p pushes
  LIMIT      \* CHANNEL_MSG_QUEUE_LIMIT

ASSUME LocalAssumption ==
  /\ IsFiniteSet(Thread)
  /\ NChunks \in [Thread -> Nat]
  /\ LIMIT \in Nat \ {0}

Chunk == [thr : Thread, seq : Nat \ {0}]

VARIABLES
  pc,      \* pc[p]: "push", waiting in "cond_wait", or about to write the "token"
  sent,    \* sent[p]: chunks of p appended to the queue so far
  queue,   \* buff_queue
  tokens,  \* tokens in the pipe
  io,      \* the I/O thread: in "select", about to "pop", or to "pipeline" a chunk
  state,   \* state of the channel, CHANNEL_ACTIVE or CHANNEL_BLOCKING
  recv     \* recv[p]: chunk numbers of p popped, in order

vars == <<pc, sent, queue, tokens, io, state, recv>>

TypeOK ==
  /\ pc \in [Thread -> {"push", "cond_wait", "token"}]
  /\ sent \in [Thread -> Nat]
  /\ queue \in Seq(Chunk)
  /\ tokens \in Nat
  /\ io \in {"select", "pop", "pipeline"}
  /\ state \in {"ACTIVE", "BLOCKING"}
  /\ recv \in [Thread -> Seq(Nat)]

Init ==
  /\ pc = [p \in Thread |-> "push"]
  /\ sent = [p \in Thread |-> 0]
  /\ queue = <<>>
  /\ tokens = 0
  /\ io = "select"
  /\ state = "ACTIVE"
  /\ recv = [p \in Thread |-> <<>>]

-----------------------------------------------------------------------------
NewChunk(p) == [thr |-> p, seq |-> sent[p] + 1]

(***************************************************************************)
(* Mutant: a woken thread appends without looking at the queue again.      *)
(***************************************************************************)
Append_if(p) ==
  /\ \/ pc[p] = "push" /\ sent[p] < NChunks[p] /\ Len(queue) < LIMIT
     \/ pc[p] = "cond_wait"
  /\ queue' = Append(queue, NewChunk(p))
  /\ sent' = [sent EXCEPT ![p] = @ + 1]
  /\ pc' = [pc EXCEPT ![p] = "token"]
  /\ UNCHANGED <<tokens, io, state, recv>>

PushAppend(p) ==
  /\ pc[p] = "push"
  /\ sent[p] < NChunks[p]
  /\ Len(queue) < LIMIT
  /\ queue' = Append(queue, NewChunk(p))
  /\ sent' = [sent EXCEPT ![p] = @ + 1]
  /\ pc' = [pc EXCEPT ![p] = "token"]
  /\ UNCHANGED <<tokens, io, state, recv>>

PushWait(p) ==
  /\ pc[p] = "push"
  /\ sent[p] < NChunks[p]
  /\ Len(queue) >= LIMIT
  /\ pc' = [pc EXCEPT ![p] = "cond_wait"]
  /\ UNCHANGED <<sent, queue, tokens, io, state, recv>>

(***************************************************************************)
(* pthread_cond_wait may return without a broadcast.                       *)
(***************************************************************************)
SpuriousWakeup(p) ==
  /\ pc[p] = "cond_wait"
  /\ pc' = [pc EXCEPT ![p] = "push"]
  /\ UNCHANGED <<sent, queue, tokens, io, state, recv>>

(***************************************************************************)
(* Mutant: a token only for the chunk that makes the queue non-empty.      *)
(***************************************************************************)
PushToken_if_empty(p) ==
  /\ pc[p] = "token"
  /\ tokens' = IF Len(queue) = 1 THEN tokens + 1 ELSE tokens
  /\ pc' = [pc EXCEPT ![p] = "push"]
  /\ UNCHANGED <<sent, queue, io, state, recv>>

PushToken(p) ==
  /\ pc[p] = "token"
  /\ tokens' = tokens + 1
  /\ pc' = [pc EXCEPT ![p] = "push"]
  /\ UNCHANGED <<sent, queue, io, state, recv>>

-----------------------------------------------------------------------------
(***************************************************************************)
(* The I/O thread.                                                         *)
(***************************************************************************)
PopToken ==
  /\ io = "select"
  /\ state = "ACTIVE"
  /\ tokens > 0
  /\ tokens' = tokens - 1
  /\ io' = "pop"
  /\ UNCHANGED <<pc, sent, queue, state, recv>>

(***************************************************************************)
(* pthread_cond_broadcast, and a mutant that forgets it.                   *)
(***************************************************************************)
Broadcast_none == pc

Broadcast == [p \in Thread |-> IF pc[p] = "cond_wait" THEN "push" ELSE pc[p]]

(***************************************************************************)
(* Mutants: one waiting thread is woken instead of all of them; the        *)
(* newest chunk is popped instead of the oldest.                           *)
(***************************************************************************)
PopChunk_signal ==
  /\ io = "pop"
  /\ queue # <<>>
  /\ queue' = Tail(queue)
  /\ recv' = [recv EXCEPT ![Head(queue).thr] = Append(@, Head(queue).seq)]
  /\ LET W == {p \in Thread : pc[p] = "cond_wait"}
     IN  IF Len(queue') = LIMIT - 1 /\ W # {}
         THEN \E p \in W : pc' = [pc EXCEPT ![p] = "push"]
         ELSE UNCHANGED pc
  /\ io' = "pipeline"
  /\ UNCHANGED <<sent, tokens, state>>

PopChunk_newest ==
  LET k == queue[Len(queue)]
  IN  /\ io = "pop"
      /\ queue # <<>>
      /\ queue' = SubSeq(queue, 1, Len(queue) - 1)
      /\ recv' = [recv EXCEPT ![k.thr] = Append(@, k.seq)]
      /\ pc' = IF Len(queue) = LIMIT THEN Broadcast ELSE pc
      /\ io' = "pipeline"
      /\ UNCHANGED <<sent, tokens, state>>

(***************************************************************************)
(* The oldest chunk is taken; the waiting threads are woken when the queue *)
(* has just stopped being full.                                            *)
(***************************************************************************)
PopChunk ==
  /\ io = "pop"
  /\ queue # <<>>
  /\ queue' = Tail(queue)
  /\ recv' = [recv EXCEPT ![Head(queue).thr] = Append(@, Head(queue).seq)]
  /\ pc' = IF Len(queue) - 1 = LIMIT - 1 THEN Broadcast ELSE pc
  /\ io' = "pipeline"
  /\ UNCHANGED <<sent, tokens, state>>

(***************************************************************************)
(* The next channel takes the chunk at once, or the local channel blocks   *)
(* until it has room.                                                      *)
(***************************************************************************)
PassOn ==
  /\ io = "pipeline"
  /\ state' \in {"ACTIVE", "BLOCKING"}
  /\ io' = "select"
  /\ UNCHANGED <<pc, sent, queue, tokens, recv>>

Unblock ==
  /\ io = "select"
  /\ state = "BLOCKING"
  /\ state' = "ACTIVE"
  /\ UNCHANGED <<pc, sent, queue, tokens, io, recv>>

-----------------------------------------------------------------------------
Producer(p) == PushAppend(p) \/ PushWait(p) \/ PushToken(p)

Next ==
  \/ \E p \in Thread : PushAppend(p) \/ PushWait(p) \/ PushToken(p) \/ SpuriousWakeup(p)
  \/ PopToken
  \/ PopChunk
  \/ PassOn
  \/ Unblock

(***************************************************************************)
(* Threads run.  A blocked channel is unblocked in the end: that is what   *)
(* Pipeline shows of acyclic routes.  Nobody promises spurious wake-ups.   *)
(***************************************************************************)
Fairness ==
  /\ \A p \in Thread : WF_vars(Producer(p))
  /\ WF_vars(PopToken)
  /\ WF_vars(PopChunk)
  /\ WF_vars(PassOn)
  /\ WF_vars(Unblock)

SafeSpec == Init /\ [][Next]_vars
Spec == SafeSpec /\ Fairness

-----------------------------------------------------------------------------
(***************************************************************************)
(* Properties.                                                             *)
(***************************************************************************)

(***************************************************************************)
(* Chunks and tokens match: every queued chunk has its token in the pipe,  *)
(* still in the hands of the thread that pushed it, or already read by the *)
(* I/O thread.  One token less strands a chunk, one more makes             *)
(* channel_local_pop_chunk fail its assert(chunk).                         *)
(***************************************************************************)
TokensMatch ==
  Len(queue) = tokens + Cardinality({p \in Thread : pc[p] = "token"})
                      + (IF io = "pop" THEN 1 ELSE 0)

(***************************************************************************)
(* No lost wake-up: a thread waits on the condition variable only while    *)
(* the queue is full.  The I/O thread broadcasts only when the queue stops *)
(* being full, so a thread that waited at any other time might wait for    *)
(* ever.                                                                   *)
(***************************************************************************)
NoLostWakeup ==
  (\E p \in Thread : pc[p] = "cond_wait") => Len(queue) >= LIMIT

(***************************************************************************)
(* However many threads a broadcast wakes, the queue never exceeds its     *)
(* limit.                                                                  *)
(***************************************************************************)
QueueBound == Len(queue) <= LIMIT

(***************************************************************************)
(* A thread that found the queue full gets its chunk in.                   *)
(***************************************************************************)
WaitersProceed ==
  \A p \in Thread : pc[p] = "cond_wait" ~> pc[p] = "token"

(***************************************************************************)
(* The chunks of each thread leave the queue once each, in the order of    *)
(* the pushes, and all of them do.                                         *)
(***************************************************************************)
Reliable == INSTANCE Streams WITH Stream <- Thread
ImplementsStreams == Reliable!Spec
=============================================================================
