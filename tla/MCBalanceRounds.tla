--------------------------- MODULE MCBalanceRounds ---------------------------
(***************************************************************************)
(* BalanceRounds on the machine of MCLoadBalance, with tasks that may run  *)
(* anywhere.                                                               *)
(***************************************************************************)
EXTENDS MCLoadBalance, BalanceRounds

MCAnywhere == {Anywhere}
=============================================================================
