------------------------------- MODULE UpDown -------------------------------
(***************************************************************************)
(* router_graph_make_updown_tree: nodes are numbered from a root, breadth- *)
(* first (updown_assign_ids) or depth-first (dfs_traverse), and every link *)
(* gets an up and a down direction from the numbers.  Going up has level 0 *)
(* and going down level 1, so routes go up first and down afterwards.      *)
(*                                                                         *)
(* The root is drawn by lot, the same on all nodes.  Breadth-first, the    *)
(* order of a node's links comes from the graph: any is possible here.     *)
(***************************************************************************)
EXTENDS Levels

VARIABLES
  todo,     \* node_queue of the breadth-first search; nodes dfs_traverse is in
  ids,      \* assignids or visited
  depths,   \* depths, of the breadth-first search
  idc       \* the next number

updownvars == <<todo, ids, depths, idc>>

UpDownTypes == {"UPDOWN_BFS", "UPDOWN_DFS"}

NoIds == [n \in Node |-> -1]
NoDepths == [n \in Node |-> 0]

UpDownTypeOK ==
  /\ todo \in Seq({n \in Node : ids[n] # -1})
  /\ ids \in [Node -> Nat \cup {-1}] /\ depths \in [Node -> Nat]
  /\ {ids[n] : n \in Node} \ {-1} = 0 .. idc - 1

UpDownInit == todo = <<>> /\ ids = NoIds /\ depths = NoDepths /\ idc = 0

Peers(n) == {c[2] : c \in {d \in Both(Link) : d[1] = n}}
LinkOf(n, m) == IF <<n, m>> \in Link THEN <<n, m>> ELSE <<m, n>>

(***************************************************************************)
(* updown_choose_root_node, and the start of either search.                *)
(***************************************************************************)
ChooseRoot ==
  /\ pc = "root"
  /\ \E root \in Node :
       /\ todo' = <<root>>
       /\ ids' = [NoIds EXCEPT ![root] = 0]
  /\ idc' = 1
  /\ pc' = "visit"
  /\ UNCHANGED <<graph, lev, level, depths>>

-----------------------------------------------------------------------------
(***************************************************************************)
(* updown_assign_ids: a node of the queue and all its unvisited peers.     *)
(***************************************************************************)
BfsVisit ==
  /\ rttype = "UPDOWN_BFS" /\ pc = "visit" /\ todo # <<>>
  /\ LET node == Head(todo)
         new  == {n \in Peers(node) : ids[n] = -1}
     IN  \E order \in Arrangements(new) :
           /\ ids' = [n \in Node |-> IF n \in new THEN idc - 1 + CHOOSE i \in DOMAIN order : order[i] = n
                                     ELSE ids[n]]
           /\ depths' = [n \in Node |-> IF n \in new THEN depths[node] + 1 ELSE depths[n]]
           /\ idc' = idc + Cardinality(new)
           /\ todo' = Tail(todo) \o order
  /\ UNCHANGED <<graph, lev, level, pc>>

(***************************************************************************)
(* The assertion that every node has a number.                             *)
(***************************************************************************)
BfsEnd ==
  /\ rttype = "UPDOWN_BFS" /\ pc = "visit" /\ todo = <<>>
  /\ pc' = IF \A n \in Node : ids[n] # -1 THEN "assign" ELSE "assert_ids"
  /\ UNCHANGED <<graph, lev, level, updownvars>>

DfsNumber(node, peer, new) ==
  /\ ids' = [ids EXCEPT ![peer] = idc]
  /\ idc' = idc + 1

(***************************************************************************)
(* The links of a node are looked at in the order of their lengths.        *)
(***************************************************************************)
Nearest(node, new) ==
  {p \in new : \A q \in new : conns[LinkOf(node, p)].len <= conns[LinkOf(node, q)].len}

(***************************************************************************)
(* dfs_traverse: a call for the next unvisited peer, or the return.        *)
(***************************************************************************)
DfsVisit ==
  /\ rttype = "UPDOWN_DFS" /\ pc = "visit" /\ todo # <<>>
  /\ LET node == todo[Len(todo)]
         new  == {n \in Peers(node) : ids[n] = -1}
     IN  \/ /\ new = {}
            /\ todo' = SubSeq(todo, 1, Len(todo) - 1)
            /\ UNCHANGED <<ids, idc>>
         \/ \E peer \in Nearest(node, new) :
              /\ DfsNumber(node, peer, new)
              /\ todo' = Append(todo, peer)
  /\ UNCHANGED <<graph, lev, level, pc, depths>>

DfsEnd ==
  /\ rttype = "UPDOWN_DFS" /\ pc = "visit" /\ todo = <<>>
  /\ pc' = "assign"
  /\ UNCHANGED <<graph, lev, level, updownvars>>

-----------------------------------------------------------------------------
(***************************************************************************)
(* Mutant: n0 of a link is always the upper end.                           *)
(***************************************************************************)
Above_first(n0, n1) == <<n0, n1>> \in Link

(***************************************************************************)
(* n0 is the upper end of a link to n1.  The depth-first numbering of a    *)
(* graph that is not connected leaves nodes with equal numbers.            *)
(***************************************************************************)
Above(n0, n1) ==
  IF rttype = "UPDOWN_DFS" THEN ids[n0] < ids[n1]
  ELSE depths[n0] < depths[n1] \/ (depths[n0] = depths[n1] /\ ids[n0] < ids[n1])

LinkLevel(c) == IF Above(c[1], c[2]) THEN 1 ELSE IF Above(c[2], c[1]) THEN 0 ELSE -1

Assign ==
  /\ pc = "assign"
  /\ lev' = [c \in Both(Link) |-> LinkLevel(c)]
  /\ pc' = "labelled"
  /\ todo' = <<>> /\ ids' = NoIds /\ depths' = NoDepths /\ idc' = 0
  /\ UNCHANGED <<graph, level>>

UpDownNext == ChooseRoot \/ BfsVisit \/ BfsEnd \/ DfsVisit \/ DfsEnd \/ Assign

-----------------------------------------------------------------------------
(***************************************************************************)
(* Going up never comes back, nor does going down: routes of this order    *)
(* cannot deadlock.                                                        *)
(***************************************************************************)
UpAndDownAcyclic == rttype \in UpDownTypes /\ pc = "labelled" => LevelsAcyclic

(***************************************************************************)
(* Any node can be reached from any other going up and then down, and the  *)
(* assertion fails only when the graph is not connected.                   *)
(***************************************************************************)
Connected == \A n \in Node : Reach(Both(Link), {n}) = Node

AllRoutable ==
  rttype \in UpDownTypes =>
    /\ pc = "labelled" /\ Connected => \A n \in Node : Routable(n) = Node
    /\ pc = "assert_ids" => ~Connected

(***************************************************************************)
(* Breadth-first: links join nodes of the same or the next depth, so going *)
(* up takes the fewest hops to the root.                                   *)
(***************************************************************************)
DepthsShortest ==
  rttype = "UPDOWN_BFS" /\ pc = "assign" =>
    \A e \in Link : depths[e[1]] - depths[e[2]] \in {-1, 0, 1}

(***************************************************************************)
(* Depth-first: a link joins a node with one that was reached from it, so  *)
(* that the nodes numbered from one end to the other are connected among   *)
(* themselves.                                                             *)
(***************************************************************************)
Between(m, n) == {k \in Node : ids[k] \in ids[m] .. ids[n]}

NoCrossLinks ==
  rttype = "UPDOWN_DFS" /\ pc = "assign" =>
    \A c \in Both(Link) :
      ids[c[1]] < ids[c[2]] =>
        LET B == Between(c[1], c[2])
        IN  Reach({d \in Both(Link) : d[1] \in B /\ d[2] \in B}, {c[1]}) = B

(***************************************************************************)
(* Neither direction alone closes a circle, and the two together reach     *)
(* every node.                                                             *)
(***************************************************************************)
UpDownLevels == UpAndDownAcyclic /\ AllRoutable
=============================================================================
