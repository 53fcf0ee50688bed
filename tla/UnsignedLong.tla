---------------------------- MODULE UnsignedLong ----------------------------
(***************************************************************************)
(* Comparison of the unsigned long values of the simulator.  A value is    *)
(* represented by the integer of least magnitude it is congruent to modulo *)
(* 2^64, so that sums and differences are exact: a negative integer stands *)
(* for a value that has wrapped below zero and is larger than every value  *)
(* that has not.                                                           *)
(***************************************************************************)
EXTENDS Integers

ULong == Int

ULess(a, b) == IF (a < 0) = (b < 0) THEN a < b ELSE b < 0

\* Mutant: the leftmost entity is left out of the minimum.
UMin_of_curr(a, b) == a

UMin(a, b) == IF ULess(a, b) THEN a ELSE b
UMax(a, b) == IF ULess(a, b) THEN b ELSE a
=============================================================================
