------------------------------- MODULE CpuMask -------------------------------
(***************************************************************************)
(* Class cpumask (cpumask.hpp) and the bitmaps below it (bitmap.cpp).  A   *)
(* mask is the set of the CPUs whose word in bits[] is not 0.              *)
(***************************************************************************)
EXTENDS Integers, FiniteSets, FiniteSetsExt

CONSTANT NR_CPU

ASSUME NrCpuAssumption == NR_CPU \in Nat \ {0}

CPU   == 0 .. NR_CPU - 1
NoCpu == -1
Mask  == SUBSET CPU

find_first_bit(mask) == IF mask = {} THEN NoCpu ELSE Min(mask)

find_first_bit_and(mask1, mask2) == find_first_bit(mask1 \cap mask2)

\* Mutant: the scan starts one bit too late.
Probe_late(offset, d) == (offset + d + 1) % NR_CPU

\* The bit that the d-th round of the circular scan after offset looks at.
Probe(offset, d) == (offset + d) % NR_CPU

\* The scan ends where it started, without a look at that bit.  It may start
\* at -1, which it never comes back to: with an empty mask the loop would
\* not end, and no caller does that.
find_next_bit(mask, offset) ==
    LET found == {d \in 1 .. NR_CPU : /\ Probe(offset, d) # offset
                                      /\ Probe(offset, d) \in mask}
    IN  IF found = {} THEN NoCpu ELSE Probe(offset, Min(found))

find_next_bit_and(mask1, mask2, offset) == find_next_bit(mask1 \cap mask2, offset)

cpumask_weight(mask) == Cardinality(mask)

\* The mask that is written, and the value that is returned.
cpumask_and(mask1, mask2) == [dst |-> mask1 \cap mask2, result |-> 1]

cpumask_subset(mask1, mask2) == mask1 \subseteq mask2

cpumask_intersects(mask1, mask2) == mask1 \cap mask2 # {}
=============================================================================
