------------------------------ MODULE Dijkstra ------------------------------
(***************************************************************************)
(* leveled_dijkstra_run: shortest routes of non-decreasing level from one  *)
(* node.  It is Dijkstra's algorithm on pairs of a node and a level: the   *)
(* distance of <<v, l>> is that of v over channels of level at most l.     *)
(*                                                                         *)
(* Lengths are natural numbers; in the code they are floats that hold      *)
(* whole microseconds.                                                     *)
(***************************************************************************)
EXTENDS Levels

CONSTANTS
  MAX_DIJKSTRA_DIST,  \* "infinite"
  MAX_DIJKSTRA_WIDTH

ASSUME DijkstraAssumption == MAX_DIJKSTRA_DIST \in Nat /\ MAX_DIJKSTRA_WIDTH \in Nat

VARIABLES
  src,        \* the node that computes its table
  dist, prev, \* of a node and level: distance; node and level before it
  reached,    \* pairs that were extracted
  rts         \* rts[s]: the routing table of s, an entry for each other node, or NoTable

dijkvars == <<src, dist, prev, reached>>

Level == 0 .. level - 1
Place == Node \X Level
NoPrev == <<-1, -1>>
NoTable == <<>>
Entry == [path : Seq(Node), metric : Nat, width : Nat]

DijkstraTypeOK ==
  /\ src \in Node
  /\ pc \in {"setup", "compute"} =>
       dist \in [Place -> Nat] /\ prev \in [Place -> Place \cup {NoPrev}] /\ reached \subseteq Place
  /\ \A s \in Node : rts[s] = NoTable \/ rts[s] \in [Node \ {s} -> Entry]

DijkstraInit ==
  /\ src \in Node /\ \A n \in Node : src <= n
  /\ dist = <<>> /\ prev = <<>> /\ reached = {}
  /\ rts = [n \in Node |-> NoTable]

-----------------------------------------------------------------------------
(***************************************************************************)
(* leveled_dijkstra_create, on the next node.                              *)
(***************************************************************************)
leveled_dijkstra_create ==
  /\ pc = "labelled"
  /\ src' \in {n \in Node : rts[n] = NoTable /\ \A m \in Node : m < n => rts[m] # NoTable}
  /\ dist' = [x \in Place |-> MAX_DIJKSTRA_DIST]
  /\ prev' = [x \in Place |-> NoPrev]
  /\ reached' = {}
  /\ pc' = "setup"
  /\ UNCHANGED <<graph, lev, level, rts>>

levels(u, v) == IF <<u, v>> \in DOMAIN lev THEN lev[<<u, v>>] ELSE -1

The(u, v) == IF <<u, v>> \in Link THEN conns[<<u, v>>] ELSE conns[<<v, u>>]
metrics(u, v) == The(u, v).len
width(u, v) == The(u, v).width

Measured == \A e \in Link : conns[e].len > 0 /\ conns[e].width > 0

setup ==
  /\ pc = "setup"
  /\ pc' = IF Measured THEN "compute" ELSE "assert_len"
  /\ dist' = [x \in Place |-> IF x[1] = src THEN 0 ELSE dist[x]]
  /\ UNCHANGED <<graph, lev, level, src, prev, reached, rts>>

Unreached == {x \in Place \ reached : dist[x] < MAX_DIJKSTRA_DIST}

(***************************************************************************)
(* Mutant: any place is extracted, not the closest.                        *)
(***************************************************************************)
extract_min_node_first ==
  {x \in Unreached : \A y \in Unreached : x[1] < y[1] \/ (x[1] = y[1] /\ x[2] >= y[2])}

(***************************************************************************)
(* The closest one; then the smaller pid, then the larger level.           *)
(***************************************************************************)
extract_min_node ==
  {x \in Unreached : \A y \in Unreached :
    \/ dist[x] < dist[y]
    \/ dist[x] = dist[y] /\ (x[1] < y[1] \/ (x[1] = y[1] /\ x[2] >= y[2]))}

(***************************************************************************)
(* Mutant: a channel of any level may follow.                              *)
(***************************************************************************)
Closer_lower(x, y) ==
  /\ levels(x[1], y[1]) >= 0 /\ y[2] >= levels(x[1], y[1])
  /\ dist[x] + metrics(x[1], y[1]) < dist[y]

(***************************************************************************)
(* Place y is closer by way of x.                                          *)
(***************************************************************************)
Closer(x, y) ==
  /\ levels(x[1], y[1]) >= x[2] /\ y[2] >= levels(x[1], y[1])
  /\ dist[x] + metrics(x[1], y[1]) < dist[y]

Before(x, y) == x

compute ==
  /\ pc = "compute"
  /\ \E x \in extract_min_node :
       /\ reached' = reached \cup {x}
       /\ dist' = [y \in Place |-> IF Closer(x, y) THEN dist[x] + metrics(x[1], y[1]) ELSE dist[y]]
       /\ prev' = [y \in Place |-> IF Closer(x, y) THEN Before(x, y) ELSE prev[y]]
       /\ pc' = IF \E y \in reached : Closer(x, y) THEN "assert_reached" ELSE "compute"
  /\ UNCHANGED <<graph, lev, level, src, rts>>

-----------------------------------------------------------------------------
(***************************************************************************)
(* The places on the way to x, by following prev.                          *)
(***************************************************************************)
Trace(x) ==
  LET from[y \in Place] == IF prev[y] = NoPrev THEN <<y>> ELSE Append(from[prev[y]], y)
  IN  from[x]

(***************************************************************************)
(* The level with the smallest distance, the highest one on ties.          *)
(***************************************************************************)
Arrival(dst) ==
  <<dst, CHOOSE l \in Level : \A m \in Level :
           \/ dist[<<dst, l>>] < dist[<<dst, m>>]
           \/ dist[<<dst, l>>] = dist[<<dst, m>>] /\ l >= m>>

Narrowest(ws, k) ==
  LET m[i \in 0 .. k] == IF i = 0 THEN MAX_DIJKSTRA_WIDTH
                         ELSE IF ws[i] < m[i - 1] THEN ws[i] ELSE m[i - 1]
  IN  m[k]

EntryFor(dst) ==
  LET t == Trace(Arrival(dst))
  IN  [path   |-> [i \in DOMAIN t |-> t[i][1]],
       metric |-> dist[Arrival(dst)],
       width  |-> Narrowest([i \in 1 .. Len(t) - 1 |-> width(t[i][1], t[i + 1][1])], Len(t) - 1)]

Unreachable == {d \in Node \ {src} : \A l \in Level : dist[<<d, l>>] = MAX_DIJKSTRA_DIST}

(***************************************************************************)
(* calc_rt and leveled_dijkstra_destroy.                                   *)
(***************************************************************************)
calc_rt ==
  /\ pc = "compute" /\ Unreached = {}
  /\ \/ /\ Unreachable # {}
        /\ pc' = "exit"
        /\ UNCHANGED <<dist, prev, reached, rts>>
     \/ /\ Unreachable = {}
        /\ pc' = "table"
        /\ rts' = [rts EXCEPT ![src] = [d \in Node \ {src} |-> EntryFor(d)]]
        /\ dist' = <<>> /\ prev' = <<>> /\ reached' = {}
  /\ UNCHANGED <<graph, lev, level, src>>

DijkstraNext == leveled_dijkstra_create \/ setup \/ compute \/ calc_rt

-----------------------------------------------------------------------------
(***************************************************************************)
(* What it is to compute, from all simple paths.                           *)
(***************************************************************************)
Length(p) ==
  LET sum[i \in 1 .. Len(p)] == IF i = 1 THEN 0 ELSE sum[i - 1] + metrics(p[i - 1], p[i])
  IN  sum[Len(p)]

Routes(dst) == {p \in SimplePaths[<<src, dst>>] : IsRoute(p)}

(***************************************************************************)
(* The entry for each node is a simple path over links, of non-decreasing  *)
(* level, as long as it says, and no such path is shorter: what            *)
(* comm_node_lookup_rt and the freedom from deadlock rely on.              *)
(***************************************************************************)
ShortestRoutes ==
  pc = "table" => \A d \in Node \ {src} :
    LET entry == rts[src][d]
    IN  /\ entry.path \in Routes(d)
        /\ entry.metric = Length(entry.path)
        /\ \A p \in Routes(d) : entry.metric <= Length(p)

(***************************************************************************)
(* No link of the entry's path is narrower than the entry says, and one is *)
(* as narrow.                                                              *)
(***************************************************************************)
WidthOfPath ==
  pc = "table" => \A d \in Node \ {src} :
    LET p  == rts[src][d].path
        ws == {width(p[i], p[i + 1]) : i \in 1 .. Len(p) - 1}
    IN  rts[src][d].width \in ws /\ \A w \in ws : rts[src][d].width <= w

(***************************************************************************)
(* The program exits just when some node has no route short enough.        *)
(***************************************************************************)
ExitsWhenCutOff ==
  /\ pc = "exit" => \E d \in Node \ {src} : \A p \in Routes(d) : Length(p) >= MAX_DIJKSTRA_DIST
  /\ pc = "table" => \A d \in Node \ {src} : \E p \in Routes(d) : Length(p) < MAX_DIJKSTRA_DIST

(***************************************************************************)
(* The assertion that an extracted place does not get closer holds.        *)
(***************************************************************************)
AssertsHold == pc # "assert_reached"

(***************************************************************************)
(* Each place is where the one before it says: distances and predecessors  *)
(* agree at every step, and a higher level never makes a way longer.       *)
(***************************************************************************)
DistancesAddUp ==
  pc = "compute" =>
    /\ \A x \in Place : prev[x] # NoPrev =>
         /\ prev[x] \in reached
         /\ dist[x] = dist[prev[x]] + metrics(prev[x][1], x[1])
    /\ \A x, y \in Place : x[1] = y[1] /\ x[2] <= y[2] => dist[y] <= dist[x]

=============================================================================
