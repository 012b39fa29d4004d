---------------------------- MODULE SpanningTrees ----------------------------
(***************************************************************************)
(* router_graph_make_spanning_trees: the links are sorted, then spanning   *)
(* forests are taken out one after the other (choose_sp_tree_links) until  *)
(* no link is left; the number of its forest is a link's level in both     *)
(* directions.  Whether a link closes a cycle is asked of a union-find     *)
(* forest (std/uset.c), modelled with its parents and heights.             *)
(*                                                                         *)
(* All nodes run this on the same links in the same order.  A sort leaves  *)
(* links that compare equal in any order here.                             *)
(***************************************************************************)
EXTENDS Levels

CONSTANT NoNode   \* no parent

ASSUME NoNodeAssumption == NoNode \notin Node

VARIABLES
  pool, remain,    \* links to look at for this tree, and for the next one
  parent, height   \* the union set

treevars == <<pool, remain, parent, height>>

Ordered == {"ORDERED_RANDOM", "ORDERED_BAND", "ORDERED_HOPS", "ORDERED_HUB"}

(***************************************************************************)
(* A link is in one of the lists, once, until it gets a level.             *)
(***************************************************************************)
Listed(e) == Cardinality({i \in DOMAIN pool : pool[i] = e})
               + Cardinality({i \in DOMAIN remain : remain[i] = e})

TreesTypeOK ==
  /\ pool \in Seq(Link) /\ remain \in Seq(Link)
  /\ pc = "choose" => \A e \in Link : Listed(e) + (IF lev[e] = -1 THEN 0 ELSE 1) = 1
  /\ parent \in [Node -> Node \cup {NoNode}] /\ height \in [Node -> Nat]

(***************************************************************************)
(* union_set_add for every host.                                           *)
(***************************************************************************)
NoParents == [n \in Node |-> NoNode]
NoHeights == [n \in Node |-> 0]

TreesInit == pool = <<>> /\ remain = <<>> /\ parent = NoParents /\ height = NoHeights

-----------------------------------------------------------------------------
degree(n) == Cardinality({e \in Link : n \in {e[1], e[2]}})
overlay_edge_degree(e) == degree(e[1]) + degree(e[2])

(***************************************************************************)
(* The comparators: e0 comes before e1.  A shuffle compares nothing.       *)
(***************************************************************************)
Better(e0, e1) ==
  CASE rttype = "ORDERED_BAND" -> conns[e0].width > conns[e1].width
    [] rttype = "ORDERED_HOPS" -> conns[e0].len < conns[e1].len
    [] rttype = "ORDERED_HUB" -> overlay_edge_degree(e0) < overlay_edge_degree(e1)
    [] OTHER -> FALSE

Orders ==
  LET order[E \in SUBSET Link] ==
        IF E = {} THEN {<<>>}
        ELSE UNION {{<<e>> \o s : s \in order[E \ {e}]}
                    : e \in {f \in E : \A g \in E : ~Better(g, f)}}
  IN  order[Link]

Sort ==
  /\ pc = "sort"
  /\ pool' \in Orders
  /\ pc' = "choose"
  /\ UNCHANGED <<graph, lev, level, remain, parent, height>>

-----------------------------------------------------------------------------
union_set_find_set_parent(n) ==
  LET top[m \in Node] == IF parent[m] = NoNode THEN m ELSE top[parent[m]]
  IN  top[n]

(***************************************************************************)
(* Mutant: a link between two nodes of trees is taken for a cycle.        *)
(***************************************************************************)
union_set_is_same_set_touched(n0, n1) ==
  \A n \in {n0, n1} : parent[n] # NoNode \/ height[n] > 0

union_set_is_same_set(n0, n1) ==
  union_set_find_set_parent(n0) = union_set_find_set_parent(n1)

Taller(h0, h1) == IF h0 > h1 THEN h0 ELSE h1

union_set_merge_set(n0, n1) ==
  LET top0 == union_set_find_set_parent(n0)
      top1 == union_set_find_set_parent(n1)
      up   == IF height[top0] < height[top1] THEN top1 ELSE top0
      down == IF up = top0 THEN top1 ELSE top0
  IN  /\ parent' = [parent EXCEPT ![down] = up]
      /\ height' = [height EXCEPT ![up] = Taller(height[up], height[down] + 1)]

(***************************************************************************)
(* One link of choose_sp_tree_links.                                       *)
(***************************************************************************)
choose_sp_tree_links ==
  /\ pc = "choose" /\ pool # <<>>
  /\ pool' = Tail(pool)
  /\ LET link == Head(pool) IN
     \/ /\ union_set_is_same_set(link[1], link[2])
        /\ remain' = Append(remain, link)
        /\ UNCHANGED <<lev, parent, height>>
     \/ /\ ~union_set_is_same_set(link[1], link[2])
        /\ union_set_merge_set(link[1], link[2])
        /\ lev' = [lev EXCEPT ![link] = level, ![Back(link)] = level]
        /\ UNCHANGED remain
  /\ UNCHANGED <<graph, level, pc>>

(***************************************************************************)
(* Mutant: the union set of the last tree is used again.                   *)
(***************************************************************************)
NextTree_reuse ==
  /\ pc = "choose" /\ pool = <<>>
  /\ pool' = remain /\ remain' = <<>>
  /\ level' = IF \E e \in Link : lev[e] = level THEN level + 1 ELSE level
  /\ pc' = IF remain = <<>> THEN "labelled" ELSE "choose"
  /\ UNCHANGED <<graph, lev, parent, height>>

(***************************************************************************)
(* The next tree is made of what remains; level is their number at last.   *)
(***************************************************************************)
NextTree ==
  /\ pc = "choose" /\ pool = <<>>
  /\ pool' = remain /\ remain' = <<>>
  /\ level' = IF Link = {} THEN level ELSE level + 1
  /\ pc' = IF remain = <<>> THEN "labelled" ELSE "choose"
  /\ parent' = NoParents /\ height' = NoHeights
  /\ UNCHANGED <<graph, lev>>

TreesNext == Sort \/ choose_sp_tree_links \/ NextTree

-----------------------------------------------------------------------------
(***************************************************************************)
(* The union set answers what it is asked: two nodes are in the same set   *)
(* exactly if links of the current tree connect them.                      *)
(***************************************************************************)
UnionSetMatches ==
  pc = "choose" =>
    \A u, v \in Node : union_set_is_same_set(u, v) <=> Connects(Both(Tree(level)), u, v)

(***************************************************************************)
(* The sets' trees stay shallow: one of height h has 2^h nodes at least.   *)
(***************************************************************************)
PowerOf2[h \in Nat] == IF h = 0 THEN 1 ELSE 2 * PowerOf2[h - 1]

UnionSetShallow ==
  \A n \in Node :
    parent[n] = NoNode =>
      PowerOf2[height[n]] <= Cardinality({m \in Node : union_set_find_set_parent(m) = n})

(***************************************************************************)
(* Each level is a forest: a link's ends are not connected without it.     *)
(* Hence no turns of one level follow each other in a circle.              *)
(***************************************************************************)
LevelsAreForests ==
  rttype \in Ordered /\ pc \in {"choose", "labelled"} =>
    /\ \A e \in Link : lev[e] >= 0 => ~Connects(Both(Tree(lev[e]) \ {e}), e[1], e[2])
    /\ LevelsAcyclic

(***************************************************************************)
(* Every tree spans what it can: the ends of a link of some level are      *)
(* connected in all lower levels.  A route can therefore go anywhere       *)
(* without going beyond level 0.                                           *)
(***************************************************************************)
LowerLevelsSpan ==
  rttype \in Ordered /\ pc \in {"choose", "labelled"} =>
    \A e \in Link : \A l \in 0 .. lev[e] - 1 : Connects(Both(Tree(l)), e[1], e[2])

(***************************************************************************)
(* In the end all links have a level, and level is their number: what      *)
(* leveled_dijkstra_create allocates is neither too small nor too big.     *)
(***************************************************************************)
LevelsCounted ==
  rttype \in Ordered /\ pc = "labelled" => {lev[e] : e \in Link} = 0 .. level - 1

(***************************************************************************)
(* The first tree is made of the best links: whatever the links at least   *)
(* as good as a given one connect, those of them in the tree connect too   *)
(* (widest paths for BAND, the minimum spanning tree for HOPS).            *)
(***************************************************************************)
FirstTreeBest(good) ==
  \A e \in good : Connects(Both(good \cap Tree(0)), e[1], e[2])

WidestOrShortestFirst ==
  pc = "labelled" => \A e \in Link :
    /\ rttype = "ORDERED_BAND" => FirstTreeBest({f \in Link : conns[f].width >= conns[e].width})
    /\ rttype = "ORDERED_HOPS" => FirstTreeBest({f \in Link : conns[f].len <= conns[e].len})

(***************************************************************************)
(* What makes the levels of the ordered routers free of deadlock and       *)
(* routes on them short: forests, each spanning what the next joins, the   *)
(* preferred links first.                                                  *)
(***************************************************************************)
ForestLevels == LevelsAreForests /\ LowerLevelsSpan /\ LevelsCounted /\ WidestOrShortestFirst
=============================================================================
