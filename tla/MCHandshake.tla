---------------------------- MODULE MCHandshake ----------------------------
(***************************************************************************)
(* Connection plans for Handshake, as gxp.c draws them up.                 *)
(***************************************************************************)
EXTENDS Handshake

(***************************************************************************)
(* As gxp_man_connect_random may have it: one node connects to all others, *)
(* so that two connects share a mutex and a condition variable.            *)
(***************************************************************************)
StarNode == 0..2
StarConn == {<<0, 1>>, <<0, 2>>}

(***************************************************************************)
(* Two nodes and one connection.                                           *)
(***************************************************************************)
PairNode == 0..1
PairConn == {<<0, 1>>}
=============================================================================
