------------------------------ MODULE Streams ------------------------------
(***************************************************************************)
(* What the forwarding layer promises to an application thread that sends  *)
(* a message in chunks to a remote node (dlfree_comm_node_send_data): the  *)
(* chunks of one stream reach the destination once each and in the order   *)
(* in which they were pushed, and every pushed chunk does reach it.        *)
(*                                                                         *)
(* data_msg_push_chunk (src/src/comm/msg.c) rebuilds a message by placing  *)
(* each chunk behind the one before, so order is not a courtesy: a chunk   *)
(* that overtakes another one corrupts the message.                        *)
(***************************************************************************)
EXTENDS Naturals, Sequences

CONSTANT Stream      \* the streams of chunks, one per sending thread

VARIABLES sent,      \* sent[t] = number of chunks pushed by the sender of t
          recv       \* recv[t] = chunk numbers handed to the receiver of t, in order

vars == <<sent, recv>>

Init == /\ sent = [t \in Stream |-> 0]
        /\ recv = [t \in Stream |-> <<>>]

Send(t) == /\ sent' = [sent EXCEPT ![t] = @ + 1]
           /\ UNCHANGED recv

Deliver(t) == /\ Len(recv[t]) < sent[t]
              /\ recv' = [recv EXCEPT ![t] = Append(@, Len(@) + 1)]
              /\ UNCHANGED sent

Next == \E t \in Stream : Send(t) \/ Deliver(t)

(***************************************************************************)
(* A sender may stop; what it has pushed must not be stranded.             *)
(***************************************************************************)
Spec == Init /\ [][Next]_vars /\ \A t \in Stream : WF_vars(Deliver(t))

(***************************************************************************)
(* Safety alone, for routings under which the transport may lock up.       *)
(***************************************************************************)
SafeSpec == Init /\ [][Next]_vars
=============================================================================
