------------------------------- MODULE Router -------------------------------
(***************************************************************************)
(* gxp_router_run on all nodes: from the graph of connections to levels of *)
(* links (SpanningTrees, UpDown or BfsTrees), from the levels to a routing *)
(* table of every node (Dijkstra), and from the tables to next hops        *)
(* (comm_node_lookup_rt).                                                  *)
(*                                                                         *)
(* Every node computes the levels itself, all from the same graph and seed *)
(* (see Gxp, SameTables): they are computed once here, and then the table  *)
(* of one node after the other.                                            *)
(***************************************************************************)
EXTENDS SpanningTrees, UpDown, BfsTrees, Dijkstra

CONSTANTS
  Types,    \* of GXP_RT_TYPE_...
  Graphs    \* Graphs[t]: graphs, as functions from links to [len, width], for router t

RouterTypes == Ordered \cup UpDownTypes \cup {"ORDERED_BFS", "DEADLOCK"}

ASSUME RouterAssumption ==
  /\ Types \subseteq RouterTypes
  /\ \A t \in Types : \A g \in Graphs[t] :
       /\ DOMAIN g \subseteq Channel /\ \A e \in DOMAIN g : Back(e) \notin DOMAIN g
       /\ \A e \in DOMAIN g : g[e] \in [len : Nat, width : Nat \ {0}]

levelvars == <<lev, level>>
vars == <<graph, levelvars, pc, treevars, updownvars, bfsvars, dijkvars, rts>>

Stopped == {"exit", "assert_ids", "assert_len", "assert_reached"}

TypeOK ==
  /\ rttype \in Types /\ Link \subseteq Channel
  /\ lev \in [Both(Link) -> Nat \cup {-1}] /\ level \in Nat
  /\ pc \in {"start", "sort", "choose", "root", "visit", "assign", "sort_nodes", "search",
             "labelled", "setup", "compute", "table", "done"} \cup Stopped
  /\ TreesTypeOK /\ UpDownTypeOK /\ BfsTypeOK /\ DijkstraTypeOK

Init ==
  /\ rttype \in Types
  /\ conns \in Graphs[rttype]
  /\ lev = Unlevelled /\ level = 0
  /\ pc = "start"
  /\ TreesInit /\ UpDownInit /\ BfsInit /\ DijkstraInit

-----------------------------------------------------------------------------
(***************************************************************************)
(* Mutant: the links get the levels of the deadlock-prone router.          *)
(***************************************************************************)
MakeLinks_prone ==
  /\ pc' = "labelled"
  /\ lev' = [c \in Both(Link) |-> 0] /\ level' = 1

(***************************************************************************)
(* The switch over the kinds of router.  ORDERED_BFS first computes a      *)
(* table of shortest paths, with the links that DEADLOCK routes over.      *)
(***************************************************************************)
MakeLinks ==
  \/ /\ rttype \in Ordered
     /\ pc' = "sort"
     /\ UNCHANGED levelvars
  \/ /\ rttype \in UpDownTypes
     /\ pc' = "root" /\ level' = 2
     /\ UNCHANGED lev
  \/ /\ rttype \in {"ORDERED_BFS", "DEADLOCK"}
     /\ pc' = "labelled"
     /\ lev' = [c \in Both(Link) |-> 0] /\ level' = 1

Start ==
  /\ pc = "start"
  /\ MakeLinks
  /\ UNCHANGED <<graph, treevars, updownvars, bfsvars, dijkvars, rts>>

(***************************************************************************)
(* The distances of ORDERED_BFS go to all nodes over the group channel.    *)
(***************************************************************************)
SumOf(table) ==
  LET sum[S \in SUBSET DOMAIN table] ==
        IF S = {} THEN 0 ELSE LET d == CHOOSE d \in S : TRUE IN table[d].metric + sum[S \ {d}]
  IN  sum[DOMAIN table]

AllTables == \A n \in Node : rts[n] # NoTable

ExchangeDistances ==
  /\ pc = "table" /\ AllTables /\ rttype = "ORDERED_BFS" /\ avgdist = NoMap
  /\ avgdist' = [n \in Node |-> SumOf(rts[n])]
  /\ rts' = [n \in Node |-> NoTable]
  /\ pc' = "sort_nodes"
  /\ UNCHANGED <<graph, levelvars, treevars, updownvars, searchvars, dijkvars>>

NextTable ==
  /\ pc = "table" /\ ~AllTables
  /\ pc' = "labelled"
  /\ UNCHANGED <<graph, levelvars, treevars, updownvars, bfsvars, dijkvars, rts>>

Finish ==
  /\ pc = "table" /\ AllTables /\ (rttype = "ORDERED_BFS" => avgdist # NoMap)
  /\ pc' = "done"
  /\ UNCHANGED <<graph, levelvars, treevars, updownvars, bfsvars, dijkvars, rts>>

Next ==
  \/ Start \/ ExchangeDistances \/ NextTable \/ Finish
  \/ TreesNext /\ UNCHANGED <<updownvars, bfsvars, dijkvars, rts>>
  \/ UpDownNext /\ UNCHANGED <<treevars, bfsvars, dijkvars, rts>>
  \/ BfsNext /\ UNCHANGED <<treevars, updownvars, dijkvars, rts>>
  \/ DijkstraNext /\ UNCHANGED <<treevars, updownvars, bfsvars>>

(***************************************************************************)
(* Nothing but itself holds the router up.                                 *)
(***************************************************************************)
Spec == Init /\ [][Next]_vars /\ WF_vars(Next)

-----------------------------------------------------------------------------
Table(node, s, d) == rts[s][d]

(***************************************************************************)
(* The next hop comes after the node in the path; -1 if there is none.     *)
(***************************************************************************)
comm_node_lookup_rt(node, s, d) ==
  LET path == Table(node, s, d).path
      here == {i \in 1 .. Len(path) - 1 : path[i] = node}
  IN  IF here = {} THEN -1 ELSE path[1 + CHOOSE i \in here : \A j \in here : i <= j]

(***************************************************************************)
(* The nodes a chunk from s to d visits, each asked for the next; as many  *)
(* steps as there are nodes, if it does not arrive before.                 *)
(***************************************************************************)
Walk(s, d) ==
  LET walk[k \in Nat] ==
        IF k = 0 THEN <<s>>
        ELSE LET w == walk[k - 1]
             IN  IF w[Len(w)] \in {d, -1} THEN w
                 ELSE Append(w, comm_node_lookup_rt(w[Len(w)], s, d))
  IN  walk[Cardinality(Node)]

-----------------------------------------------------------------------------
(***************************************************************************)
(* Whatever nodes look up leads a chunk over links to its destination.     *)
(***************************************************************************)
ChunksArrive ==
  pc = "done" => \A c \in Channel :
    LET w == Walk(c[1], c[2])
    IN  /\ w[Len(w)] = c[2]
        /\ \A i \in 1 .. Len(w) - 1 : Hop(w, i) \in Both(Link)

(***************************************************************************)
(* The channels that chunks take after each other, from all sources to all *)
(* destinations, form no circle: the hypothesis under which Pipeline has   *)
(* no deadlock.                                                            *)
(***************************************************************************)
Turns ==
  UNION {LET w == Walk(c[1], c[2]) IN {<<Hop(w, i), Hop(w, i + 1)>> : i \in 1 .. Len(w) - 2}
         : c \in Channel}

AcyclicRoutes ==
  pc = "done" /\ rttype # "DEADLOCK" =>
    LET T == Turns
        Follows(c, d) == <<c, d>> \in T
    IN  Acyclic(Both(Link), Follows)

(***************************************************************************)
(* The union-find sets, the searches and the distances of Dijkstra are     *)
(* what they stand for while the levels and tables are computed.           *)
(***************************************************************************)
SearchesConsistent ==
  /\ TypeOK /\ AssertsHold
  /\ UnionSetMatches /\ UnionSetShallow
  /\ DepthsShortest /\ NoCrossLinks
  /\ DistancesAddUp

(***************************************************************************)
(* The tables hold the shortest of the permitted paths and their widths,   *)
(* what nodes look up in them leads chunks to their destinations, and the  *)
(* process exits only when there is no such path.                          *)
(***************************************************************************)
TablesCorrect == ShortestRoutes /\ WidthOfPath /\ ExitsWhenCutOff /\ ChunksArrive

(***************************************************************************)
(* Every graph is routed or found to be impossible to route.               *)
(***************************************************************************)
RouterEnds == <>(pc \in {"done"} \cup Stopped)
=============================================================================
