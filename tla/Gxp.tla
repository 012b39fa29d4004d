-------------------------------- MODULE Gxp --------------------------------
(***************************************************************************)
(* How the nodes set up the overlay together: gxp_man_init, one of the     *)
(* gxp_man_connect_ operations, gxp_man_compute_rt with gxp_router_run,    *)
(* and the barrier at its end.                                             *)
(*                                                                         *)
(* GXP (external) gives every line that a node writes to every node, the   *)
(* same lines in the same order.  Nothing marks where the lines of one     *)
(* operation end: each reader counts.                                      *)
(*                                                                         *)
(* A read loop is one action that takes all its lines once they are there. *)
(* Connections, routing tables and their exchange are those of Handshake,  *)
(* Dijkstra and RouteExchange.                                             *)
(***************************************************************************)
EXTENDS GxpPlans, TLC

CONSTANT
  Settings   \* what programs call: the connect operation, the kind of router,
             \* and the attempts <<n, m>> that may fail

ASSUME SettingsAssumption ==
  Settings \subseteq [scheme : SchemeNames, rttype : STRING, broken : SUBSET Channel]

VARIABLES
  setting,   \* the one of this run
  pc,        \* the operation a node is in
  out,       \* lines it has yet to write there
  feed,      \* lines written by all that it has not read
  peer_hostnames, peer_eps,  \* entries that are set
  request,   \* of "locality": the peers it wants to be connected to
  plan,      \* peers marked GXP_CONNECT_YES
  links,     \* connections there are, by who opened them
  conn_mat,  \* of a node: matrix of round trip times
  avgdist_map, \* of a node and peer
  rts        \* tables sent out: what they were computed from

known == <<peer_hostnames, peer_eps>>
tables == <<conn_mat, avgdist_map, rts>>
vars == <<setting, pc, out, feed, known, request, plan, links, tables>>

GXP_NO_RTT == -1
Nothing == -2
NotYet == <<>>

(***************************************************************************)
(* What is measured on a connection: any number but 0 and 1 will do.       *)
(***************************************************************************)
rtt(n, m) == 2 + ((n + m) % gxp_num_execs)

Line(kind, src, dst, val) == [kind |-> kind, src |-> src, dst |-> dst, val |-> val]
SyncLine == Line("sync", Nothing, Nothing, Nothing)

Init ==
  /\ setting \in Settings
  /\ pc = [n \in Node |-> "init"]
  /\ out = [n \in Node |-> <<Line("init", n, Nothing, Nothing)>>]
  /\ feed = [n \in Node |-> <<>>]
  /\ peer_hostnames = [n \in Node |-> {}] /\ peer_eps = [n \in Node |-> {}]
  /\ request = [n \in Node |-> {}] /\ plan = [n \in Node |-> {}]
  /\ links = {}
  /\ conn_mat = [n \in Node |-> [c \in Channel |-> 0]]
  /\ avgdist_map = [n \in Node |-> [m \in Node |-> 0]]
  /\ rts = [n \in Node |-> NotYet]

-----------------------------------------------------------------------------
(***************************************************************************)
(* Writing.                                                                *)
(***************************************************************************)
fprintf(n) ==
  /\ out[n] # <<>>
  /\ feed' = [m \in Node |-> Append(feed[m], Head(out[n]))]
  /\ out' = [out EXCEPT ![n] = Tail(@)]
  /\ UNCHANGED <<setting, pc, known, request, plan, links, tables>>

(***************************************************************************)
(* Mutant: the matrix is taken to have one line for each node.             *)
(***************************************************************************)
Quota_rows(op) == gxp_num_execs

(***************************************************************************)
(* Mutant: a barrier does not wait for one of the nodes.                   *)
(***************************************************************************)
Quota_sync(op) ==
  IF op = "conn_info" THEN gxp_num_execs * (gxp_num_execs - 1)
  ELSE IF op = "sync" THEN gxp_num_execs - 1 ELSE gxp_num_execs

(***************************************************************************)
(* Mutant: the first end of requests ends the loop.                        *)
(***************************************************************************)
Quota_request(op) ==
  IF op = "conn_info" THEN gxp_num_execs * (gxp_num_execs - 1)
  ELSE IF op = "request" THEN 1 ELSE gxp_num_execs

(***************************************************************************)
(* How many lines a loop waits for.  (The lines of a node about itself are *)
(* left out of the matrix.)                                                *)
(***************************************************************************)
Quota(op) ==
  IF op = "conn_info" THEN gxp_num_execs * (gxp_num_execs - 1) ELSE gxp_num_execs

Counts(op, line) == op = "request" => line.src = -1

(***************************************************************************)
(* The place of the last line that the loop takes, if it is there already  *)
(* (0: the loop takes none, in the matrix of a single node).               *)
(***************************************************************************)
LastLine(op, f) ==
  LET hits == {k \in DOMAIN f : Counts(op, f[k])}
  IN  {k \in hits \cup {0} : Cardinality({j \in hits : j <= k}) = Quota(op)}

Taken(n, op) == {feed[n][i] : i \in 1 .. CHOOSE k \in LastLine(op, feed[n]) : TRUE}

Reads(n, op) ==
  /\ out[n] = <<>>
  /\ \E k \in LastLine(op, feed[n]) : feed' = [feed EXCEPT ![n] = SubSeq(@, k + 1, Len(@))]

Go(n, op, lines) ==
  /\ pc' = [pc EXCEPT ![n] = op]
  /\ out' = [out EXCEPT ![n] = lines]

Same(n, f, v) == [f EXCEPT ![n] = v]

-----------------------------------------------------------------------------
(***************************************************************************)
(* A peer with a smaller index is asked to connect back.  (In which order  *)
(* does not matter.)                                                       *)
(***************************************************************************)
ConnectBack(n, m) == Line("request", m, n, Nothing)

RequestLines(n, wants) ==
  LET asked == SetToSeq(wants \ Later(n))
  IN  Append([i \in DOMAIN asked |-> ConnectBack(n, asked[i])], Line("request", -1, n, Nothing))

-----------------------------------------------------------------------------
(***************************************************************************)
(* A node that finds lines of another operation in its feed is lost.       *)
(***************************************************************************)
AllAre(kind, lines) == \A l \in lines : l.kind = kind

(***************************************************************************)
(* What a line stores, or what was there before.                           *)
(***************************************************************************)
ValueIn(lines, old) == IF lines = {} THEN old ELSE (CHOOSE l \in lines : TRUE).val

PortLine(n) == Line("ports", n, Nothing, Nothing)

gxp_man_init(n) ==
  /\ pc[n] = "init" /\ Reads(n, "init")
  /\ LET got == Taken(n, "init")
     IN  IF ~ AllAre("init", got) THEN Go(n, "lost", <<>>) /\ UNCHANGED <<peer_hostnames, plan>>
         ELSE /\ peer_hostnames' = Same(n, peer_hostnames, {l.src : l \in got})
              /\ IF setting.scheme = "locality"
                 THEN Go(n, "sync0", <<SyncLine>>) /\ plan' = plan
                 ELSE /\ Go(n, "ports", <<PortLine(n)>>)
                      /\ \E p \in Plans(setting.scheme, n) : plan' = Same(n, plan, p)
  /\ UNCHANGED <<setting, peer_eps, request, links, tables>>

(***************************************************************************)
(* Synchronize before going on; then the requests.                         *)
(***************************************************************************)
request_peers(n) ==
  /\ pc[n] = "sync0" /\ Reads(n, "sync")
  /\ IF AllAre("sync", Taken(n, "sync"))
     THEN \E wants \in Requests(n) :
            /\ request' = Same(n, request, wants)
            /\ plan' = Same(n, plan, wants \cap Later(n))
            /\ Go(n, "request", RequestLines(n, wants))
     ELSE Go(n, "lost", <<>>) /\ UNCHANGED <<request, plan>>
  /\ UNCHANGED <<setting, known, links, tables>>

(***************************************************************************)
(* Requests of others are read up to the last "-1" and planned.            *)
(***************************************************************************)
gxp_man_connect_locality_aware(n) ==
  /\ pc[n] = "request" /\ Reads(n, "request")
  /\ LET got == Taken(n, "request")
     IN  IF AllAre("request", got)
         THEN /\ plan' = Same(n, plan, plan[n] \cup {l.dst : l \in {g \in got : g.src = n}})
              /\ Go(n, "ports", <<PortLine(n)>>)
         ELSE Go(n, "lost", <<>>) /\ UNCHANGED plan
  /\ UNCHANGED <<setting, known, request, links, tables>>

gxp_man_exchange_ports(n) ==
  /\ pc[n] = "ports" /\ Reads(n, "ports")
  /\ LET got == Taken(n, "ports")
     IN  IF AllAre("ports", got)
         THEN /\ peer_eps' = Same(n, peer_eps, {l.src : l \in got})
              /\ Go(n, "connect", <<>>)
         ELSE Go(n, "lost", <<>>) /\ UNCHANGED peer_eps
  /\ UNCHANGED <<setting, peer_hostnames, request, plan, links, tables>>

Kept(n, failed) == plan[n] \ failed

ConnLines(n, p) ==
  LET peer(i) == IF i <= n THEN i - 1 ELSE i
  IN  [i \in 1 .. gxp_num_execs - 1 |->
         Line("conn_info", n, peer(i), IF peer(i) \in p THEN rtt(n, peer(i)) ELSE GXP_NO_RTT)]

(***************************************************************************)
(* All planned connections are attempted at once and waited for.           *)
(***************************************************************************)
gxp_man_connect(n) ==
  /\ pc[n] = "connect"
  /\ \E failed \in SUBSET {m \in plan[n] : <<n, m>> \in setting.broken} :
       /\ plan' = Same(n, plan, Kept(n, failed))
       /\ links' = links \cup {<<n, m>> : m \in plan[n] \ failed}
       /\ Go(n, "conn_info", ConnLines(n, Kept(n, failed)))
  /\ UNCHANGED <<setting, feed, known, request, tables>>

-----------------------------------------------------------------------------
(***************************************************************************)
(* The graph that gxp_router_run builds.                                   *)
(***************************************************************************)
Overlay(mat) == {c \in Channel : mat[c] # GXP_NO_RTT \/ mat[<<c[2], c[1]>>] # GXP_NO_RTT}
(***************************************************************************)
(* calc_rt finds a node that cannot be reached, and exits.                 *)
(***************************************************************************)
CutOff(mat, n) == Reach(Overlay(mat), {n}) # Node

(***************************************************************************)
(* A sum of distances: any function of the matrix and the node will do.    *)
(***************************************************************************)
avgdist(mat, n) == Cardinality({c \in Overlay(mat) : c[1] = n})

(***************************************************************************)
(* Mutant: a node takes its own distance for all.                          *)
(***************************************************************************)
Averages_own(n, got) == [m \in Node |-> avgdist(conn_mat[n], n)]

Averages(n, got) ==
  [m \in Node |-> ValueIn({l \in got : l.src = m}, avgdist_map[n][m])]

gxp_man_exchange_conn_info(n) ==
  /\ pc[n] = "conn_info" /\ Reads(n, "conn_info")
  /\ LET got == Taken(n, "conn_info")
         mat == [c \in Channel |-> ValueIn({l \in got : <<l.src, l.dst>> = c}, conn_mat[n][c])]
     IN  IF AllAre("conn_info", got)
         THEN Go(n, "compute", <<>>) /\ conn_mat' = Same(n, conn_mat, mat)
         ELSE Go(n, "lost", <<>>) /\ UNCHANGED conn_mat
  /\ UNCHANGED <<setting, known, request, plan, links, avgdist_map, rts>>

(***************************************************************************)
(* The table is made from the matrix and the average distances, and sent.  *)
(***************************************************************************)
SendTable(n) == rts' = Same(n, rts, <<conn_mat[n], avgdist_map'[n]>>)

gxp_router_run(n) ==
  /\ pc[n] = "compute"
  /\ IF CutOff(conn_mat[n], n)
     THEN Go(n, "exit", <<>>) /\ UNCHANGED <<avgdist_map, rts>>
     ELSE IF setting.rttype = "ORDERED_BFS"
     THEN Go(n, "avgdist", <<Line("avgdist", n, Nothing, avgdist(conn_mat[n], n))>>)
          /\ UNCHANGED <<avgdist_map, rts>>
     ELSE Go(n, "exchange_rt", <<>>) /\ UNCHANGED avgdist_map /\ SendTable(n)
  /\ UNCHANGED <<setting, feed, known, request, plan, links, conn_mat>>

exchange_avgdist(n) ==
  /\ pc[n] = "avgdist" /\ Reads(n, "avgdist")
  /\ LET got == Taken(n, "avgdist")
     IN  IF AllAre("avgdist", got)
         THEN /\ avgdist_map' = Same(n, avgdist_map, Averages(n, got))
              /\ SendTable(n)
              /\ Go(n, "exchange_rt", <<>>)
         ELSE Go(n, "lost", <<>>) /\ UNCHANGED <<avgdist_map, rts>>
  /\ UNCHANGED <<setting, known, request, plan, links, conn_mat>>

(***************************************************************************)
(* comm_node_exchange_rt returns when the tables of all nodes are there.   *)
(***************************************************************************)
gxp_man_compute_rt(n) ==
  /\ pc[n] = "exchange_rt" /\ \A m \in Node : rts[m] # NotYet
  /\ Go(n, "sync", <<SyncLine>>)
  /\ UNCHANGED <<setting, feed, known, request, plan, links, tables>>

gxp_man_sync(n) ==
  /\ pc[n] = "sync" /\ Reads(n, "sync")
  /\ Go(n, IF AllAre("sync", Taken(n, "sync")) THEN "done" ELSE "lost", <<>>)
  /\ UNCHANGED <<setting, known, request, plan, links, tables>>

Step(n) ==
  \/ fprintf(n) \/ gxp_man_init(n)
  \/ request_peers(n) \/ gxp_man_connect_locality_aware(n)
  \/ gxp_man_exchange_ports(n) \/ gxp_man_connect(n) \/ gxp_man_exchange_conn_info(n)
  \/ gxp_router_run(n) \/ exchange_avgdist(n) \/ gxp_man_compute_rt(n) \/ gxp_man_sync(n)

Next == \E n \in Node : Step(n)

Spec == Init /\ [][Next]_vars
FairSpec == Spec /\ \A n \in Node : WF_vars(Step(n))

-----------------------------------------------------------------------------
Ops == {"init", "sync0", "request", "ports", "connect", "conn_info", "compute", "avgdist",
        "exchange_rt", "sync", "done", "exit", "lost"}
Reported(n) == pc[n] \in {"compute", "avgdist", "exchange_rt", "sync", "done", "exit"}

TypeOK ==
  /\ setting \in Settings
  /\ pc \in [Node -> Ops]
  /\ peer_hostnames \in [Node -> SUBSET Node] /\ peer_eps \in [Node -> SUBSET Node]
  /\ request \in [Node -> SUBSET Node] /\ plan \in [Node -> SUBSET Node]
  /\ links \subseteq Channel
  /\ conn_mat \in [Node -> [Channel -> Nat \cup {GXP_NO_RTT}]]
  /\ avgdist_map \in [Node -> [Node -> Nat]]

(***************************************************************************)
(* No operation reads lines of another one: counting suffices.  (The       *)
(* assertion in gxp_man_sync is a part of this.)                           *)
(***************************************************************************)
NeverLost == \A n \in Node : pc[n] # "lost"

(***************************************************************************)
(* A node connects only when it has the endpoints of all, and reads the    *)
(* name of every node before it plans.                                     *)
(***************************************************************************)
EndpointsKnown ==
  \A n \in Node : pc[n] = "connect" => peer_hostnames[n] = Node /\ peer_eps[n] = Node

(***************************************************************************)
(* In locality_aware, when a node starts to connect its plan holds the     *)
(* later ones of all who want to be connected with it, and no others.      *)
(***************************************************************************)
RequestsHonoured ==
  setting.scheme = "locality" => \A n \in Node : pc[n] \in {"ports", "connect"} =>
    plan[n] = {m \in Later(n) : m \in request[n] \/ n \in request[m]}

(***************************************************************************)
(* No two nodes connect to each other: ioman_register_channel asserts so.  *)
(***************************************************************************)
OneOpens == \A c \in links : <<c[2], c[1]>> \notin links

(***************************************************************************)
(* The matrix a node routes by holds the connections there are, all of     *)
(* them, and with their round trip times.                                  *)
(***************************************************************************)
TrueMatrix ==
  \A n \in Node : Reported(n) => \A c \in Channel :
    conn_mat[n][c] = IF c \in links THEN rtt(c[1], c[2]) ELSE GXP_NO_RTT

(***************************************************************************)
(* All nodes compute their tables from the same data.  Otherwise they      *)
(* would give a link different levels, and routes could deadlock.          *)
(***************************************************************************)
SameTables ==
  \A m, n \in Node : rts[m] # NotYet /\ rts[n] # NotYet => rts[m] = rts[n]

(***************************************************************************)
(* A disconnected overlay ends the program on all nodes, before any of     *)
(* them has sent its table.                                                *)
(***************************************************************************)
ExitTogether ==
  \A m, n \in Node : pc[m] = "exit" => pc[n] \notin {"exchange_rt", "sync", "done"}

(***************************************************************************)
(* After gxp_man_compute_rt every node has all tables and is at its end,   *)
(* so that no chunk comes to a node that cannot route it.                  *)
(***************************************************************************)
BarrierHolds ==
  \A m, n \in Node : pc[m] = "done" => rts[n] # NotYet /\ pc[n] \in {"sync", "done"}

(***************************************************************************)
(* All nodes get through, or all exit.                                     *)
(***************************************************************************)
Finishes == <>((\A n \in Node : pc[n] = "done") \/ (\A n \in Node : pc[n] = "exit"))

(***************************************************************************)
(* No node reads a line of another phase, knows less than all end points   *)
(* when it connects, or opens a connection that it was not asked for or    *)
(* that its peer opens as well.                                            *)
(***************************************************************************)
SetupConsistent == TypeOK /\ NeverLost /\ EndpointsKnown /\ OneOpens /\ RequestsHonoured

(***************************************************************************)
(* All nodes compute their routes from one matrix and one vector of        *)
(* averages, and the matrix is that of the connections there are.          *)
(***************************************************************************)
TablesAgree == TrueMatrix /\ SameTables

(***************************************************************************)
(* No node passes a barrier or exits without the others.                   *)
(***************************************************************************)
InStep == BarrierHolds /\ ExitTogether
=============================================================================
