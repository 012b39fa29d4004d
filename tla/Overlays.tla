------------------------------ MODULE Overlays ------------------------------
(***************************************************************************)
(* Graphs of nodes and the channels between them.                          *)
(***************************************************************************)
EXTENDS Integers, Sequences, FiniteSets

CONSTANT Node

ASSUME NodeAssumption == Node \subseteq Nat /\ IsFiniteSet(Node)

(***************************************************************************)
(* A channel is one direction of a connection.                             *)
(***************************************************************************)
Channel == {c \in Node \X Node : c[1] # c[2]}
Back(c) == <<c[2], c[1]>>
Both(E) == E \cup {Back(e) : e \in E}
Ends(E) == UNION {{e[1], e[2]} : e \in E}

(***************************************************************************)
(* Nodes that can be reached from U over channels in E.                    *)
(***************************************************************************)
Reach(E, U) ==
  LET step[k \in Nat] ==
        IF k = 0 THEN U
        ELSE LET S == step[k - 1]
             IN  S \cup {c[2] : c \in {d \in E : d[1] \in S}}
  IN  step[Cardinality(Node)]

Connects(E, u, v) == v \in Reach(E, {u})

(***************************************************************************)
(* c and d are taken one after the other by a simple route.                *)
(***************************************************************************)
Turn(c, d) == c[2] = d[1] /\ c[1] # d[2]

(***************************************************************************)
(* No set of channels in which every member has a successor: what is left  *)
(* when channels without one are taken away again and again.               *)
(***************************************************************************)
Acyclic(E, Follows(_, _)) ==
  LET core[k \in Nat] ==
        IF k = 0 THEN E
        ELSE LET S == core[k - 1]
             IN  {c \in S : \E d \in S : Follows(c, d)}
  IN  core[Cardinality(E)] = {}

(***************************************************************************)
(* SimplePaths[c]: all simple paths from c[1] to c[2].                     *)
(***************************************************************************)
SimplePaths ==
  LET from[k \in Nat] ==   \* those over k channels
        IF k = 0 THEN {<<n>> : n \in Node}
        ELSE UNION {{Append(p, n) : n \in Node \ {p[i] : i \in 1 .. k}} : p \in from[k - 1]}
      all == UNION {from[k] : k \in 1 .. Cardinality(Node) - 1}
  IN  [c \in Channel |-> {p \in all : p[1] = c[1] /\ p[Len(p)] = c[2]}]
=============================================================================
