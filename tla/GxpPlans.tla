------------------------------ MODULE GxpPlans ------------------------------
(***************************************************************************)
(* The gxp_man_connect_ operations: whom a node decides to connect to.     *)
(* Draws by lot are any choice.                                            *)
(***************************************************************************)
EXTENDS Overlays, SequencesExt

CONSTANTS
  gxp_num_execs,
  Cluster,         \* the cluster of a node, from its host name
  ngates, Dense,   \* of "gateway"; Dense: density is 1
  Dist, alpha      \* of "locality": distances of two nodes

ASSUME GxpAssumption ==
  /\ gxp_num_execs \in Nat \ {0} /\ Node = 0 .. gxp_num_execs - 1
  /\ ngates \in Nat /\ alpha \in Nat \ {0}

SchemeNames == {"all", "random", "ring", "line", "gateway", "locality"}

Later(n) == {m \in Node : m > n}
gxp_man_same_cluster(m, n) == Cluster[m] = Cluster[n]

(***************************************************************************)
(* Mutant: the node itself is counted too.                                 *)
(***************************************************************************)
Before_itself(n) == Cardinality({m \in 0 .. n : gxp_man_same_cluster(m, n)})

Before(n) == Cardinality({m \in 0 .. n - 1 : gxp_man_same_cluster(m, n)})

(***************************************************************************)
(* The first ngates nodes of a cluster, by a countdown.                    *)
(***************************************************************************)
gateway(n) == IF ngates = 0 THEN Before(n) > 0 ELSE Before(n) < ngates
Eliminated(n) == ngates > 0 /\ Before(n) >= ngates

GatewayPlans(n) ==
  LET gates == IF gateway(n) THEN {m \in Later(n) : ~ Eliminated(m)} ELSE {}
      own   == {m \in Later(n) : gxp_man_same_cluster(n, m)}
  IN  IF Dense THEN {gates \cup own} ELSE {gates \cup S : S \in SUBSET own}

Plans(scheme, n) ==
  CASE scheme = "all"     -> {Later(n)}
    [] scheme = "random"  -> SUBSET Later(n)
    [] scheme = "ring"    -> {{(n + 1) % gxp_num_execs}}
    [] scheme = "line"    -> {{n + 1} \cap Node}
    [] scheme = "gateway" -> GatewayPlans(n)

(***************************************************************************)
(* gxp_man_connect_locality_aware sorts the peers by distance and takes    *)
(* alpha of each range of alpha, 2 alpha, 4 alpha, ... of them, and any of *)
(* a range that is cut short.                                              *)
(***************************************************************************)
Sorted(n) ==
  {s \in SetToSeqs(Node \ {n}) : \A i, j \in DOMAIN s : i < j => Dist[{n, s[i]}] <= Dist[{n, s[j]}]}

First(k) == alpha * (2 ^ k - 1)
InRange(s, k) == {s[i] : i \in First(k) + 1 .. First(k + 1)}
IsFull(k) == First(k + 1) <= gxp_num_execs - 1

Requests(n) ==
  {S \in SUBSET (Node \ {n}) : \E s \in Sorted(n) :
     \A k \in 0 .. gxp_num_execs : IsFull(k) => Cardinality(S \cap InRange(s, k)) = alpha}

-----------------------------------------------------------------------------
(***************************************************************************)
(* Whatever the nodes draw, the overlay is connected if no attempt fails:  *)
(* calc_rt would exit otherwise.                                           *)
(***************************************************************************)
Outcomes(scheme, n) == IF scheme = "locality" THEN Requests(n) ELSE Plans(scheme, n)

Planned(scheme) ==
  LET upto[n \in Nat] ==
        IF n = 0 THEN {{}}
        ELSE {E \cup ({n - 1} \X plan) : E \in upto[n - 1], plan \in Outcomes(scheme, n - 1)}
  IN  upto[gxp_num_execs]

AlwaysConnected(scheme) == \A E \in Planned(scheme) : Reach(Both(E), {0}) = Node
=============================================================================
