------------------------------ MODULE MCRouter ------------------------------
(***************************************************************************)
(* Instances of Router for TLC: graphs on five nodes, with links around    *)
(* the ring, as gxp_man_connect_ring makes them (so that n0 is not always  *)
(* the smaller end), and two chords.  A ring of five is the smallest graph *)
(* on which shortest routes can deadlock.                                  *)
(***************************************************************************)
EXTENDS Router

Five == 0..4
Ring == {<<n, (n + 1) % 5>> : n \in Five}
OneChord == Ring \cup {<<0, 2>>}
TwoChords == OneChord \cup {<<1, 3>>}

(***************************************************************************)
(* Lengths and widths of links.  Spread(k): of three values each, so that  *)
(* a way of two or three hops may be shorter than one hop.  Far: ways of   *)
(* three hops, and one link, are as long as MAX_DIJKSTRA_DIST, which is 9. *)
(* Unmeasured: a link of length 0.                                         *)
(***************************************************************************)
Even == [e \in TwoChords |-> [len |-> 1, width |-> 1]]
Spread(k) ==
  [e \in TwoChords |-> [len   |-> 1 + ((e[1] * e[1] + e[2] + k * e[1] * e[2]) % 3),
                        width |-> 1 + ((e[1] + e[2] + k * e[2]) % 3)]]
Far == [e \in TwoChords |-> [len |-> IF e = <<0, 2>> THEN 9 ELSE 3, width |-> 1]]
Unmeasured == [e \in TwoChords |-> [len |-> IF e = <<1, 2>> THEN 0 ELSE 2, width |-> 2]]

Subgraphs(links, attributes) ==
  {[e \in E |-> f[e]] : E \in SUBSET links, f \in attributes}

SomeGraphs ==
  [t \in RouterTypes |->
     CASE t = "ORDERED_RANDOM" -> Subgraphs(OneChord, {Even})
       [] t \in {"ORDERED_BAND", "ORDERED_HOPS"} ->
             Subgraphs(TwoChords, {Spread(0), Spread(1), Spread(2)})
       [] t = "ORDERED_HUB" -> Subgraphs(TwoChords, {Spread(1)})
       [] t = "UPDOWN_BFS" -> Subgraphs(TwoChords, {Spread(2)})
       [] t = "UPDOWN_DFS" -> Subgraphs(OneChord, {Even}) \cup Subgraphs(TwoChords, {Spread(0)})
       [] t = "ORDERED_BFS" -> Subgraphs(OneChord, {Even}) \cup Subgraphs(TwoChords, {Spread(1)})
       [] t = "DEADLOCK" -> Subgraphs(TwoChords, {Far, Unmeasured})]
=============================================================================
