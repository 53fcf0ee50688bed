------------------------------- MODULE MaskWalk ------------------------------
(***************************************************************************)
(* The loops over masks (util.hpp): for_each_cpu, for_each_cpu_from and    *)
(* for_each_cpu_and, one iteration per step.  The bodies in the code never *)
(* change the mask they walk over.                                         *)
(***************************************************************************)
EXTENDS CpuMask

VARIABLES
    macro,     \* "each", "from" or "and"
    mask,      \* the mask that is walked
    other,     \* for_each_cpu_and: the second mask
    offset,    \* for_each_cpu_from: where the walk starts behind
    cpu,       \* the loop variable
    _first,    \* TRUE until the first iteration is over
    seen,      \* the CPUs the body has been executed for
    twice      \* it has been executed for one of them again

vars == <<macro, mask, other, offset, cpu, _first, seen, twice>>
input == <<macro, mask, other, offset>>

\* The first value of the loop variable: the initialiser of the macro.
Start == CASE macro = "each" -> find_first_bit(mask)
           [] macro = "from" -> find_next_bit(mask, offset)
           [] macro = "and"  -> find_first_bit_and(mask, other)

\* The increment of the macro.
Following(c) == IF macro = "and" THEN find_next_bit_and(mask, other, c)
                ELSE find_next_bit(mask, c)

\* Mutant: the loop only ends on -1.
Continues_for_ever == cpu # NoCpu

\* Mutant: the first iteration is not excepted.
Continues_unless_back == cpu # Start /\ cpu # NoCpu

\* The condition of the macro.
Continues == (cpu # Start \/ _first) /\ cpu # NoCpu

\* for_each_cpu_from is called with the CPU before the owner of the mask, a
\* domain's span; the owner may be CPU 0.
Init ==
    /\ mask \in Mask
    /\ \/ macro = "each" /\ other = CPU /\ offset = NoCpu
       \/ macro = "from" /\ other = CPU /\ offset \in {c - 1 : c \in mask}
       \/ macro = "and" /\ other \in Mask /\ offset = NoCpu
    /\ cpu = Start
    /\ _first = TRUE
    /\ seen = {} /\ twice = FALSE

Iterate ==
    /\ Continues
    /\ seen' = seen \cup {cpu}
    /\ twice' = (twice \/ cpu \in seen)
    /\ cpu' = Following(cpu)
    /\ _first' = FALSE
    /\ UNCHANGED input

Spec == Init /\ [][Iterate]_vars

\* The loop is plain code: it goes on while its condition holds.
FairSpec == Spec /\ WF_vars(Iterate)

-----------------------------------------------------------------------------
Walked == IF macro = "and" THEN mask \cap other ELSE mask

\* Types; the loop variable is a CPU of the mask, or -1.
TypeOK ==
    /\ macro \in {"each", "from", "and"}
    /\ mask \in Mask /\ other \in Mask
    /\ offset \in {NoCpu} \cup CPU
    /\ cpu \in Walked \cup {NoCpu}
    /\ _first \in BOOLEAN /\ twice \in BOOLEAN
    /\ seen \subseteq Walked

\* The body is executed once for every CPU of the mask and for no other,
\* wherever the circular walk starts.
EachOnce == ~twice /\ (~Continues => seen = Walked)

\* A walk of a domain's span from the CPU before its owner begins with the
\* owner: the first group build_sched_groups makes is the local one, and find
\* loops that take the first group for it rely on that.
OwnerFirst == macro = "from" /\ seen # {} => offset + 1 \in seen

\* The walk ends.
WalkEnds == <>~Continues

-----------------------------------------------------------------------------
(* What the source says of itself and does not keep.                       *)

\* cpumask.hpp:26-27: next "will return the next cpu starting from n; if it
\* reaches the end, it will return the first cpu".
NextReturnsFirst ==
    \A n \in mask : (\A c \in mask : c <= n) =>
                        find_next_bit(mask, n) = find_first_bit(mask)

\* cpumask.hpp:61: cpumask_and returns "0 if dst is empty; else return 1".
AndReportsEmpty ==
    LET and == cpumask_and(mask, other)
    IN  and.result = (IF and.dst = {} THEN 0 ELSE 1)
=============================================================================
