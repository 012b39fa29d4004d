------------------------------ MODULE BfsTrees ------------------------------
(***************************************************************************)
(* router_graph_make_bfs_spanning_trees: one breadth-first search from     *)
(* each node that has a link, in the order of their average distances,     *)
(* each over the links no search has taken yet.  The links a search takes  *)
(* get its level; a search that takes none uses up no level.               *)
(*                                                                         *)
(* A node's links are shuffled: any order is possible here.                *)
(***************************************************************************)
EXTENDS Levels

VARIABLES
  avgdist,   \* avgdist_map: of each node, NoMap before it is known
  roots,     \* bfs_node_vec, those not searched from yet
  node_queue, visited,  \* of the search
  link_labeled   \* the search has taken a link

searchvars == <<roots, node_queue, visited, link_labeled>>
bfsvars == <<avgdist, searchvars>>

NoMap == <<>>

BfsTypeOK ==
  /\ avgdist = NoMap \/ avgdist \in [Node -> Nat]
  /\ roots \in Seq(Ends(Link))
  /\ visited \subseteq Ends(Link) /\ node_queue \in Seq(visited)
  /\ link_labeled \in BOOLEAN

BfsInit ==
  /\ avgdist = NoMap
  /\ roots = <<>> /\ node_queue = <<>> /\ visited = {} /\ link_labeled = FALSE

(***************************************************************************)
(* The nodes that are farthest from the others come first.                 *)
(***************************************************************************)
router_bfs_node_sort ==
  /\ pc = "sort_nodes"
  /\ roots' \in {s \in Arrangements(Ends(Link)) :
                  \A i \in 1 .. Len(s) - 1 : avgdist[s[i]] >= avgdist[s[i + 1]]}
  /\ lev' = Unlevelled /\ level' = 0
  /\ pc' = "search"
  /\ UNCHANGED <<graph, avgdist, node_queue, visited, link_labeled>>

-----------------------------------------------------------------------------
Marked(root) == {root}

StartSearch ==
  /\ pc = "search" /\ roots # <<>> /\ visited = {}
  /\ node_queue' = <<Head(roots)>>
  /\ visited' = Marked(Head(roots))
  /\ link_labeled' = FALSE
  /\ UNCHANGED <<graph, lev, level, pc, avgdist, roots>>

OtherEnd(link, n) == IF link[1] = n THEN link[2] ELSE link[1]

Usable(n) == {e \in Link : n \in {e[1], e[2]} /\ lev[e] = -1}

(***************************************************************************)
(* Mutant: nodes on the queue are not marked as visited yet.               *)
(***************************************************************************)
Push_unmarked(n, new) == /\ visited' = visited \cup {n}
                         /\ \E order \in Arrangements(new) : node_queue' = Tail(node_queue) \o order

Push(n, new) == /\ visited' = visited \cup new
                /\ \E order \in Arrangements(new) : node_queue' = Tail(node_queue) \o order

(***************************************************************************)
(* A node of the queue: its free links to unvisited nodes get the level.   *)
(***************************************************************************)
router_graph_do_bfs_search ==
  /\ pc = "search" /\ node_queue # <<>>
  /\ LET n     == Head(node_queue)
         taken == {e \in Usable(n) : OtherEnd(e, n) \notin visited}
     IN  /\ lev' = [c \in Both(Link) |-> IF c \in Both(taken) THEN level ELSE lev[c]]
         /\ link_labeled' = (link_labeled \/ taken # {})
         /\ Push(n, {OtherEnd(e, n) : e \in taken})
  /\ UNCHANGED <<graph, level, pc, avgdist, roots>>

NextLevel == IF link_labeled THEN level + 1 ELSE level

EndSearch ==
  /\ pc = "search" /\ node_queue = <<>> /\ visited # {} /\ roots # <<>>
  /\ level' = NextLevel
  /\ roots' = Tail(roots)
  /\ visited' = {}
  /\ UNCHANGED <<graph, lev, pc, avgdist, node_queue, link_labeled>>

EndSearches ==
  /\ pc = "search" /\ roots = <<>>
  /\ pc' = "labelled"
  /\ link_labeled' = FALSE
  /\ UNCHANGED <<graph, lev, level, avgdist, roots, node_queue, visited>>

BfsNext ==
  router_bfs_node_sort \/ StartSearch \/ router_graph_do_bfs_search \/ EndSearch \/ EndSearches

-----------------------------------------------------------------------------
Searching == pc = "search"
Searched == pc = "labelled" /\ avgdist # NoMap

(***************************************************************************)
(* The links of each level are one tree: connected and without a circle.   *)
(* Levels like these make routes free of deadlock.                         *)
(***************************************************************************)
LevelsAreTrees ==
  Searching \/ Searched => \A l \in 0 .. level : Tree(l) # {} =>
    /\ \A n \in Ends(Tree(l)) : Reach(Both(Tree(l)), {n}) = Ends(Tree(l))
    /\ \A e \in Tree(l) : ~Connects(Both(Tree(l) \ {e}), e[1], e[2])

(***************************************************************************)
(* In the end every link has a level, and level is the number of levels,   *)
(* although there are no more searches than nodes.                         *)
(***************************************************************************)
LevelsComplete == Searched => {lev[e] : e \in Link} = 0 .. level - 1

(***************************************************************************)
(* Level 0 has, from some node, ways to all nodes, and none longer than    *)
(* need be.                                                                *)
(***************************************************************************)
ReachIn(E, k, n) ==
  LET step[i \in Nat] == IF i = 0 THEN {n}
                         ELSE LET S == step[i - 1]
                              IN  S \cup {c[2] : c \in {d \in E : d[1] \in S}}
  IN  step[k]

FirstTreeShortest ==
  Searched => \E n \in Node : \A k \in 1 .. Cardinality(Node) :
                 ReachIn(Both(Tree(0)), k, n) = ReachIn(Both(Link), k, n)

(***************************************************************************)
(* Each level is a tree of links no lower level took, none is skipped, and *)
(* the first has the shortest paths.                                       *)
(***************************************************************************)
TreeLevels == LevelsAreTrees /\ LevelsComplete /\ FirstTreeShortest
=============================================================================
