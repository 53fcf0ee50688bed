------------------------------ MODULE MCLoadAvg -------------------------------
(***************************************************************************)
(* LoadAvg for three tasks of nice 0, nice 19 and nice 0 in three threads. *)
(***************************************************************************)
EXTENDS LoadAvg, TLC

CONSTANTS c1, c2, t1, t2, t3

MCSymmetry == Permutations(CPUs)
MCWeight == [t \in Tasks |-> IF t = t1 THEN 1024 ELSE IF t = t2 THEN 15 ELSE 341]
=============================================================================
