------------------------------- MODULE MCGxp -------------------------------
(***************************************************************************)
(* Instances of Gxp for TLC.                                               *)
(***************************************************************************)
EXTENDS Gxp

Three == 0..2

(***************************************************************************)
(* Clusters that are not intervals of nodes: 0 2 4 and 1 3.                *)
(***************************************************************************)
Parity == [n \in 0..4 |-> n % 2]

(***************************************************************************)
(* Distances: clusters first, and nearly all of them different.            *)
(***************************************************************************)
Near == [p \in {{m, n} : m, n \in 0..4} |->
           LET a == CHOOSE m \in p : \A k \in p : m <= k
               b == CHOOSE m \in p : \A k \in p : k <= m
           IN  IF Parity[a] = Parity[b] THEN b - a ELSE 10 + 3 * a + b]

Set(s, t, b) == [scheme |-> s, rttype |-> t, broken |-> b]

SomeSettings ==
  {Set("random", "ORDERED_BFS", {}),
   Set("locality", "ORDERED_HOPS", {<<0, 1>>, <<1, 2>>}),
   Set("all", "ORDERED_HOPS", {<<0, 1>>, <<0, 2>>}),
   Set("ring", "ORDERED_BFS", {<<2, 0>>}),
   Set("line", "ORDERED_BFS", {}),
   Set("gateway", "ORDERED_HOPS", {})}

(***************************************************************************)
(* The overlays of five nodes in two clusters.  (In "random" everything is *)
(* drawn by lot, and overlays may be disconnected.)                        *)
(***************************************************************************)
Large == INSTANCE GxpPlans WITH gxp_num_execs <- 5, Node <- 0..4

Fresh == \A n \in Node : pc[n] = "init" /\ feed[n] = <<>>

OverlayConnected ==
  Fresh /\ setting.scheme # "random" => Large!AlwaysConnected(setting.scheme)
=============================================================================
