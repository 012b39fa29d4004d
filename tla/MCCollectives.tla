--------------------------- MODULE MCCollectives ---------------------------
(***************************************************************************)
(* Programs for Collectives.                                               *)
(***************************************************************************)
EXTENDS Collectives

Single == {<<"all2one">>, <<"one2all">>, <<"all2all">>, <<"ping_pong">>}
Mixed == {<<"one2all", "all2one", "ping_pong">>}
AllPrograms == Single \cup Mixed
=============================================================================
