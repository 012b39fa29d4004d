----------------------------- MODULE MCPipeline -----------------------------
(***************************************************************************)
(* Instances of Pipeline for TLC.  Topologies are given as sets of         *)
(* undirected edges; a channel is one direction of an edge.                *)
(***************************************************************************)
EXTENDS Pipeline

Both(edges) == edges \cup {<<e[2], e[1]>> : e \in edges}

(***************************************************************************)
(* Ring of three, every stream two hops clockwise (gxp_man_connect_ring    *)
(* with routes that ignore deadlocks): a cyclic dependency.                *)
(***************************************************************************)
RingNode == 0..2
RingLink == Both({<<0, 1>>, <<1, 2>>, <<2, 0>>})
RingStream == {"02", "10", "21"}
RingSrc == [t \in RingStream |-> CASE t = "02" -> 0 [] t = "10" -> 1 [] t = "21" -> 2]
RingDst == [t \in RingStream |-> (RingSrc[t] + 2) % 3]
RingRoute == [p \in {<<i, (i + 2) % 3>> : i \in RingNode} |->
                <<p[1], (p[1] + 1) % 3, p[2]>>]
RingChunks == [t \in RingStream |-> 2]
RingCtrl == [n \in RingNode |-> IF n = 0 THEN 1 ELSE 0]

(***************************************************************************)
(* Ring of four with the routes of up*/down* ordering from root 0: only    *)
(* the turn 1 -> 2 -> 3 (and back) is forbidden.                           *)
(***************************************************************************)
UpDownNode == 0..3
UpDownLink == Both({<<0, 1>>, <<1, 2>>, <<2, 3>>, <<3, 0>>})
UpDownStream == {"02", "20", "13", "31"}
UpDownSrc == [t \in UpDownStream |->
                CASE t = "02" -> 0 [] t = "20" -> 2 [] t = "13" -> 1 [] t = "31" -> 3]
UpDownDst == [t \in UpDownStream |->
                CASE t = "02" -> 2 [] t = "20" -> 0 [] t = "13" -> 3 [] t = "31" -> 1]
UpDownRoute == [p \in {<<0, 2>>, <<2, 0>>, <<1, 3>>, <<3, 1>>} |->
                  CASE p = <<0, 2>> -> <<0, 1, 2>>
                    [] p = <<2, 0>> -> <<2, 3, 0>>
                    [] p = <<1, 3>> -> <<1, 0, 3>>
                    [] p = <<3, 1>> -> <<3, 0, 1>>]
UpDownChunks == [t \in UpDownStream |-> IF t = "31" THEN 2 ELSE 1]
UpDownCtrl == [n \in UpDownNode |-> 0]
=============================================================================
