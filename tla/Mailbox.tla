------------------------------ MODULE Mailbox ------------------------------
(***************************************************************************)
(* What the receiving side of a node promises: whole messages, each once,  *)
(* those of one sending thread in the order they were sent, kept in one    *)
(* box per source until somebody receives them, oldest first.              *)
(*                                                                         *)
(* Receiver implements this specification.                                 *)
(***************************************************************************)
EXTENDS Naturals, Sequences

CONSTANTS
  Source,   \* nodes that send
  Thread,   \* sending threads
  SrcOf,    \* SrcOf[t]: the node of thread t
  NMsgs     \* NMsgs[t]: messages t sends

VARIABLES
  sent,       \* sent[t]: messages t has begun to send
  delivered,  \* delivered[t]: messages of t that went into the box
  box,        \* box[s]: delivered and not received, as <<thread, number>>
  taken       \* messages received by the application

vars == <<sent, delivered, box, taken>>

Init ==
  /\ sent = [t \in Thread |-> 0]
  /\ delivered = [t \in Thread |-> 0]
  /\ box = [s \in Source |-> <<>>]
  /\ taken = {}

Send(t) ==
  /\ sent[t] < NMsgs[t]
  /\ sent' = [sent EXCEPT ![t] = @ + 1]
  /\ UNCHANGED <<delivered, box, taken>>

Deliver(t) ==
  /\ delivered[t] < sent[t]
  /\ delivered' = [delivered EXCEPT ![t] = @ + 1]
  /\ box' = [box EXCEPT ![SrcOf[t]] = Append(@, <<t, delivered[t] + 1>>)]
  /\ UNCHANGED <<sent, taken>>

Receive(s) ==
  /\ box[s] # <<>>
  /\ taken' = taken \cup {Head(box[s])}
  /\ box' = [box EXCEPT ![s] = Tail(@)]
  /\ UNCHANGED <<sent, delivered>>

Next ==
  \/ \E t \in Thread : Send(t) \/ Deliver(t)
  \/ \E s \in Source : Receive(s)

SafeSpec == Init /\ [][Next]_vars
=============================================================================
