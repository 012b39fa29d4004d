-------------------------- MODULE MCRouteExchange --------------------------
(***************************************************************************)
(* Overlays for RouteExchange.                                             *)
(***************************************************************************)
EXTENDS RouteExchange

Nodes == 0..2

(***************************************************************************)
(* gxp_man_connect_line; a message from one end to the other passes node   *)
(* 1, which opened a connection and accepted another.                      *)
(***************************************************************************)
LineConn == {<<0, 1>>, <<1, 2>>}
LineSends == {<<0, 2>>}
LinePath == [x \in LineSends |-> <<0, 1, 2>>]
=============================================================================
