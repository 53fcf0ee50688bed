-------------------------- MODULE MCBalanceInterval ---------------------------
(***************************************************************************)
(* BalanceInterval for a core of two threads and a machine of 40 CPUs.     *)
(***************************************************************************)
EXTENDS BalanceInterval

MCWeight == <<2, 40>>
=============================================================================
