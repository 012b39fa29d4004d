--------------------------- MODULE MCLocalChannel ---------------------------
(***************************************************************************)
(* Instance of LocalChannel for TLC: three threads, more chunks than the   *)
(* queue holds.                                                            *)
(***************************************************************************)
EXTENDS LocalChannel

CONSTANTS p1, p2, p3

MCThread == {p1, p2, p3}
MCNChunks == [p \in MCThread |-> IF p = p1 THEN 3 ELSE 2]
=============================================================================
