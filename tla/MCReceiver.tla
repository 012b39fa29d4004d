----------------------------- MODULE MCReceiver -----------------------------
(***************************************************************************)
(* Senders and receivers for Receiver.  CHUNK_SZ is 2.                     *)
(***************************************************************************)
EXTENDS Receiver

(***************************************************************************)
(* Two threads of node 1, whose chunks interleave in its local channel,    *)
(* and one of node 2.  Lengths below, at and above one chunk.              *)
(***************************************************************************)
Senders == {"a", "b", "c"}
SenderSrc == [t \in Senders |-> IF t = "c" THEN 2 ELSE 1]
Lengths == [t \in Senders |-> CASE t = "a" -> <<3, 2>> [] t = "b" -> <<4>> [] t = "c" -> <<1>>]

(***************************************************************************)
(* A receiver of any source and one of node 2 only.                        *)
(***************************************************************************)
Callers == {"r", "q"}
WantOne == [r \in Callers |-> IF r = "q" THEN 2 ELSE ANY]

(***************************************************************************)
(* What malloc may have left where the count will be.                      *)
(***************************************************************************)
Anything == {-1, 0, 1}
=============================================================================
