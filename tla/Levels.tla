------------------------------- MODULE Levels -------------------------------
(***************************************************************************)
(* What the routers share.  A link between two nodes gets a level in each  *)
(* direction, and routes go over channels of non-decreasing level.  The    *)
(* variables are the graph and the links (router_graph_link) with their    *)
(* levels; the definitions after them say what the levels are for, and are *)
(* not themselves in the code.                                             *)
(***************************************************************************)
EXTENDS Overlays

VARIABLES
  rttype,  \* the kind of router, GXP_RT_TYPE_...
  conns,   \* the links, a function from <<n0, n1>> to [len, width]
  lev,     \* lev[<<n0, n1>>] is level_0 of a link and lev[<<n1, n0>>] its level_1
  level,   \* the level being given; in the end the number of levels
  pc       \* the step gxp_router_run is at

graph == <<rttype, conns>>

Link == DOMAIN conns

(***************************************************************************)
(* lev[c] = -1: the channel has no level.                                  *)
(***************************************************************************)
Unlevelled == [c \in Both(Link) |-> -1]

(***************************************************************************)
(* The links of a level, when both directions have the same.               *)
(***************************************************************************)
Tree(l) == {e \in Link : lev[e] = l}

(***************************************************************************)
(* The orders of a set.                                                    *)
(***************************************************************************)
Arrangements(S) == {s \in [1 .. Cardinality(S) -> S] : \A i, j \in DOMAIN s : s[i] = s[j] => i = j}

-----------------------------------------------------------------------------
(***************************************************************************)
(* The channels of a level.                                                *)
(***************************************************************************)
At(l) == {c \in DOMAIN lev : lev[c] = l}

(***************************************************************************)
(* The condition on levels that makes routes free of deadlock: within one  *)
(* level no turns follow each other in a circle.                           *)
(***************************************************************************)
LevelsAcyclic == \A l \in 0 .. level : Acyclic(At(l), Turn)

(***************************************************************************)
(* p is a simple path over links, of non-decreasing level.                 *)
(***************************************************************************)
Hop(p, i) == <<p[i], p[i + 1]>>

IsRoute(p) ==
  /\ \A i, j \in DOMAIN p : p[i] = p[j] => i = j
  /\ \A i \in 1 .. Len(p) - 1 : Hop(p, i) \in DOMAIN lev /\ lev[Hop(p, i)] >= 0
  /\ \A i \in 1 .. Len(p) - 2 : lev[Hop(p, i)] <= lev[Hop(p, i + 1)]

(***************************************************************************)
(* Nodes to which there is a way from u of non-decreasing level.           *)
(***************************************************************************)
Routable(u) ==
  LET upto[l \in Nat] == IF l = 0 THEN {u} ELSE Reach(At(l - 1), upto[l - 1])
  IN  upto[level]

=============================================================================
