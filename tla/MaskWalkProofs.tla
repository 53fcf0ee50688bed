--------------------------- MODULE MaskWalkProofs ---------------------------
(***************************************************************************)
(* Proofs about CpuMask and MaskWalk, for every number of CPUs: what the   *)
(* circular scan finds, and that a loop over a mask executes its body once *)
(* for every CPU of the mask.                                              *)
(***************************************************************************)
EXTENDS MaskWalk, WellFoundedInduction, TLAPS

-----------------------------------------------------------------------------
(* Least elements and the arithmetic of the scan.                          *)

\* A nonempty set of natural numbers has a least element, and Min is one.
LEMMA NatMin ==
    ASSUME NEW S \in SUBSET Nat, S # {}
    PROVE  Min(S) \in S /\ \A y \in S : Min(S) <= y
<1>1. PICK x \in S : \A y \in S : ~(<<y, x>> \in OpToRel(<, Nat))
  BY NatLessThanWellFounded, WFMin, Zenon
<1>2. \A y \in S : x <= y
  <2> SUFFICES ASSUME NEW y \in S, y < x PROVE FALSE
    BY SMT
  <2> QED
    BY <1>1, Zenon DEF OpToRel
<1> QED
  BY <1>2, Zenon DEF Min

\* Where the scan looks: behind n, then from the beginning.
LEMMA ProbeIs ==
    ASSUME NEW n \in {NoCpu} \cup CPU, NEW d \in 1 .. NR_CPU
    PROVE  /\ Probe(n, d) = IF n + d < NR_CPU THEN n + d
                                 ELSE n + d - NR_CPU
           /\ Probe(n, d) \in CPU
BY NrCpuAssumption, SMT DEF Probe, CPU, NoCpu

\* Every other CPU is looked at: this is the round it happens in.
LEMMA RoundOf ==
    ASSUME NEW n \in {NoCpu} \cup CPU, NEW c \in CPU, c # n
    PROVE  \E d \in 1 .. NR_CPU :
              /\ d = (IF c > n THEN c - n ELSE c - n + NR_CPU)
              /\ Probe(n, d) = c
<1> DEFINE d == IF c > n THEN c - n ELSE c - n + NR_CPU
<1>1. d \in 1 .. NR_CPU
  BY NrCpuAssumption, SMT DEF CPU, NoCpu
<1>2. Probe(n, d) = c
  BY <1>1, ProbeIs, NrCpuAssumption, SMT DEF CPU, NoCpu
<1> QED
  BY <1>1, <1>2

LEMMA FirstIsLeast ==
    ASSUME NEW m \in Mask
    PROVE  /\ m = {} => find_first_bit(m) = NoCpu
           /\ m # {} => /\ find_first_bit(m) \in m
                        /\ \A x \in m : find_first_bit(m) <= x
<1>1. m \in SUBSET Nat
  BY NrCpuAssumption, SMT DEF Mask, CPU
<1> QED
  BY <1>1, NatMin, Zenon DEF find_first_bit

\* find_next_bit answers -1 if no other CPU is in the mask, else the next one
\* above n, else the least one.
LEMMA NextIsNearest ==
    ASSUME NEW m \in Mask, NEW n \in {NoCpu} \cup CPU
    PROVE  LET r == find_next_bit(m, n)
           IN  /\ m \subseteq {n} => r = NoCpu
               /\ ~(m \subseteq {n}) =>
                    /\ r \in m /\ r # n
                    /\ \A x \in m : x > n => r > n /\ r <= x
                    /\ r < n => \A x \in m : r <= x
<1> DEFINE found == {d \in 1 .. NR_CPU : /\ Probe(n, d) # n
                                         /\ Probe(n, d) \in m}
           r == find_next_bit(m, n)
<1>1. found \in SUBSET Nat
  BY NrCpuAssumption, SMT
<1>2. r = IF found = {} THEN NoCpu ELSE Probe(n, Min(found))
  BY Zenon DEF find_next_bit
<1>3. ASSUME NEW x \in m, x # n
      PROVE  (IF x > n THEN x - n ELSE x - n + NR_CPU) \in found
  <2>1. x \in CPU
    BY DEF Mask
  <2>2. PICK d \in 1 .. NR_CPU :
              /\ d = (IF x > n THEN x - n ELSE x - n + NR_CPU)
              /\ Probe(n, d) = x
    BY <1>3, <2>1, RoundOf, Zenon
  <2> QED
    BY <1>3, <2>2, Zenon
<1>4. CASE m \subseteq {n}
  <2>1. found = {}
    BY <1>4
  <2> QED
    BY <1>2, <1>4, <2>1
<1>5. CASE ~(m \subseteq {n})
  <2>1. found # {}
    BY <1>3, <1>5, Zenon
  <2> DEFINE e == Min(found)
  <2>2. e \in found /\ \A y \in found : e <= y
    BY <1>1, <2>1, NatMin, Zenon
  <2> HIDE DEF e
  <2>3. /\ e \in 1 .. NR_CPU /\ r = Probe(n, e) /\ r \in m /\ r # n
    BY <1>2, <2>1, <2>2, Zenon DEF e
  <2>4. r = IF n + e < NR_CPU THEN n + e ELSE n + e - NR_CPU
    BY <2>3, ProbeIs, Zenon
  <2>5. \A x \in m : x # n =>
            e <= (IF x > n THEN x - n ELSE x - n + NR_CPU)
    BY <1>3, <2>2, Zenon
  <2> HIDE DEF found, r
  <2>6. \A x \in m : x > n => r > n /\ r <= x
    BY <2>3, <2>4, <2>5, NrCpuAssumption, SMT DEF Mask, CPU, NoCpu
  <2>7. r < n => \A x \in m : r <= x
    BY <2>3, <2>4, <2>5, <2>6, NrCpuAssumption, SMT DEF Mask, CPU, NoCpu
  <2> QED
    BY <1>5, <2>3, <2>6, <2>7, Zenon DEF r
<1> QED
  BY <1>4, <1>5

-----------------------------------------------------------------------------
(* The loops.                                                              *)

\* What Init fixes: the walk starts in the mask, and for_each_cpu_from at the
\* owner.
InputInv ==
    /\ macro \in {"each", "from", "and"}
    /\ mask \in Mask /\ other \in Mask
    /\ offset \in {NoCpu} \cup CPU
    /\ macro = "from" => offset + 1 \in mask

\* The place of c in the circular order that begins with Start.
Pos(c) == IF c >= Start THEN c - Start ELSE c - Start + NR_CPU

\* The body has been executed for the CPUs before the loop variable, or for
\* all when the walk is over.
ProgressInv ==
    /\ cpu \in Walked \cup {NoCpu}
    /\ _first \in BOOLEAN /\ twice = FALSE
    /\ _first => cpu = Start /\ seen = {}
    /\ ~_first /\ cpu \in {Start, NoCpu} => seen = Walked
    /\ ~_first /\ cpu \notin {Start, NoCpu} =>
          seen = {x \in Walked : Pos(x) < Pos(cpu)}

WalkInv == InputInv /\ ProgressInv

LEMMA StartInMask ==
    ASSUME InputInv
    PROVE  /\ Walked \in Mask
           /\ Walked = {} => Start = NoCpu
           /\ Walked # {} => Start \in Walked
           /\ macro = "from" => Start = offset + 1
<1>1. Walked \in Mask
  BY DEF InputInv, Walked, Mask
<1>2. CASE macro = "each"
  BY <1>1, <1>2, FirstIsLeast DEF Start, Walked
<1>3. CASE macro = "and"
  BY <1>1, <1>3, FirstIsLeast DEF Start, Walked, find_first_bit_and
<1>4. CASE macro = "from"
  <2>1. offset + 1 \in mask /\ offset \in {NoCpu} \cup CPU /\ mask \in Mask
    BY <1>4 DEF InputInv
  <2>2. offset \in Int /\ mask \subseteq Int
    BY <2>1, NrCpuAssumption, SMT DEF CPU, NoCpu, Mask
  <2> DEFINE r == find_next_bit(mask, offset)
  <2>3. ~(mask \subseteq {offset})
    BY <2>1, <2>2, SMT
  <2>4. r \in mask /\ \A x \in mask : x > offset => r > offset /\ r <= x
    BY <2>1, <2>3, NextIsNearest, Zenon
  <2> HIDE DEF r
  <2>5. r = offset + 1
    BY <2>1, <2>2, <2>4, SMT
  <2>6. Start = r /\ Walked = mask
    BY <1>4, Zenon DEF Start, Walked, r
  <2> QED
    BY <1>1, <2>1, <2>5, <2>6
<1> QED
  BY <1>2, <1>3, <1>4 DEF InputInv

LEMMA InitWalk == Init => WalkInv
<1> SUFFICES ASSUME Init PROVE WalkInv
  OBVIOUS
<1>1. InputInv
  BY NrCpuAssumption, SMT DEF Init, InputInv, Mask, CPU, NoCpu
<1>2. ProgressInv
  BY <1>1, StartInMask DEF Init, ProgressInv
<1> QED
  BY <1>1, <1>2 DEF WalkInv

\* One iteration: nothing of the mask lies between the loop variable and its
\* successor.
LEMMA IterateWalk == WalkInv /\ [Iterate]_vars => WalkInv'
<1> SUFFICES ASSUME WalkInv, [Iterate]_vars PROVE WalkInv'
  OBVIOUS
<1>1. CASE UNCHANGED vars
  BY <1>1 DEF vars, WalkInv, InputInv, ProgressInv, Walked, Pos, Start
<1>2. CASE Iterate
  <2> DEFINE W == Walked
             s == Start
             r == find_next_bit(W, cpu)
  <2>1. InputInv' /\ W' = W /\ s' = s
    BY <1>2 DEF Iterate, input, WalkInv, InputInv, Walked, Start
  <2>2. W \in Mask /\ (W # {} => s \in W)
    BY StartInMask DEF WalkInv
  <2>3. cpu \in W /\ cpu # NoCpu /\ s \in W /\ (~_first => cpu # s)
    BY <1>2, <2>2 DEF Iterate, Continues, WalkInv, ProgressInv
  <2>4. /\ cpu' = r /\ _first' = FALSE /\ seen' = seen \cup {cpu}
        /\ twice' = (twice \/ cpu \in seen)
    BY <1>2 DEF Iterate, Following, find_next_bit_and, Walked
  <2>5. W \subseteq CPU /\ CPU \subseteq Int /\ NoCpu \notin CPU
    BY <2>2, NrCpuAssumption, SMT DEF Mask, CPU, NoCpu
  <2>6. /\ W \subseteq {cpu} => r = NoCpu
        /\ ~(W \subseteq {cpu}) =>
             /\ r \in W /\ r # cpu
             /\ \A x \in W : x > cpu => r > cpu /\ r <= x
             /\ r < cpu => \A x \in W : r <= x
    BY <2>2, <2>3, <2>5, NextIsNearest, Zenon
  <2> DEFINE P(c) == IF c >= s THEN c - s ELSE c - s + NR_CPU
  <2>7. \A c \in W : P(c) = Pos(c) /\ P(c)' = P(c)
    BY <2>1 DEF Pos
  <2>8. seen = {x \in W : P(x) < P(cpu)}
    <3>1. CASE _first
      <4>1. cpu = s /\ seen = {}
        BY <3>1 DEF WalkInv, ProgressInv
      <4>2. \A x \in W : ~(P(x) < P(cpu))
        BY <4>1, <2>3, <2>5, NrCpuAssumption, SMT DEF CPU
      <4> QED
        BY <4>1, <4>2
    <3>2. CASE ~_first
      BY <3>2, <2>3 DEF WalkInv, ProgressInv, Pos
    <3> QED
      BY <3>1, <3>2 DEF WalkInv, ProgressInv
  <2>9. cpu \notin seen
    BY <2>8, <2>3, <2>5, NrCpuAssumption, SMT
  <2>10. r \in W \cup {NoCpu} /\ (W # {cpu} => r \in W /\ r # cpu)
    BY <2>3, <2>6
  <2>11. s \in CPU /\ cpu \in CPU /\ NR_CPU \in Nat /\ NoCpu = -1
    BY <2>3, <2>5, NrCpuAssumption DEF NoCpu
  <2> HIDE DEF W, s, r
  <2>12. r \in {s, NoCpu} => seen' = W
    <3> SUFFICES ASSUME r \in {s, NoCpu}, NEW x \in W
                 PROVE  P(x) < P(cpu) \/ x = cpu
      BY <2>3, <2>4, <2>8, Zenon
    <3>1. x \in 0 .. NR_CPU - 1 /\ s \in 0 .. NR_CPU - 1 /\ cpu \in 0 .. NR_CPU - 1
      BY <2>5, <2>11, Zenon DEF CPU
    <3>2. CASE r = NoCpu
      BY <2>3, <2>5, <2>6, <2>10, <3>2, Zenon
    <3>3. CASE r = s /\ x # cpu
      BY <2>3, <2>6, <2>11, <3>1, <3>3, SMT
    <3> QED
      BY <3>2, <3>3
  <2>13. r \notin {s, NoCpu} => seen' = {x \in W : P(x) < P(r)}
    <3> SUFFICES ASSUME r \notin {s, NoCpu}, NEW x \in W
                 PROVE  P(x) < P(cpu) \/ x = cpu <=> P(x) < P(r)
      BY <2>3, <2>4, <2>8, Zenon
    <3>1. /\ x \in 0 .. NR_CPU - 1 /\ s \in 0 .. NR_CPU - 1
          /\ cpu \in 0 .. NR_CPU - 1 /\ r \in 0 .. NR_CPU - 1
      BY <2>5, <2>10, <2>11, Zenon DEF CPU
    <3>2. /\ r \in W /\ r # cpu
          /\ x > cpu => r > cpu /\ r <= x
          /\ s > cpu => r > cpu /\ r <= s
          /\ r < cpu => r <= x /\ r <= s
      BY <2>3, <2>6, <2>10, Zenon
    <3> QED
      BY <2>11, <3>1, <3>2, SMT
  <2>14. ProgressInv'
    <3>1. cpu' \in Walked' \cup {NoCpu}
      BY <2>1, <2>4, <2>10 DEF W, s
    <3>2. _first' = FALSE /\ twice' = FALSE
      BY <2>4, <2>9 DEF WalkInv, ProgressInv
    <3>3. cpu' \in {Start', NoCpu} => seen' = Walked'
      BY <2>1, <2>4, <2>12 DEF W, s
    <3>4. cpu' \notin {Start', NoCpu} =>
              seen' = {x \in Walked' : Pos(x)' < Pos(cpu)'}
      BY <2>1, <2>4, <2>13 DEF Pos, W, s
    <3> QED
      BY <3>1, <3>2, <3>3, <3>4 DEF ProgressInv
  <2> QED
    BY <2>1, <2>14 DEF WalkInv
<1> QED
  BY <1>1, <1>2

LEMMA WalkInvHolds == Spec => []WalkInv
BY InitWalk, IterateWalk, PTL DEF Spec

\* Every loop over a mask executes its body at most once for a CPU, and when
\* it ends it has done so for exactly the CPUs of the mask (the macros of
\* util.hpp over bitmap.cpp).
THEOREM VisitsEachOnce == Spec => []EachOnce
<1>1. WalkInv => EachOnce
  <2> SUFFICES ASSUME WalkInv PROVE EachOnce
    OBVIOUS
  <2>1. Walked = {} => Start = NoCpu
    BY StartInMask DEF WalkInv
  <2>2. Walked # {} => Start \in Walked /\ Walked \in Mask
    BY StartInMask DEF WalkInv
  <2>3. NoCpu \notin CPU
    BY NrCpuAssumption, SMT DEF CPU, NoCpu
  <2> QED
    BY <2>1, <2>2, <2>3 DEF WalkInv, ProgressInv, EachOnce, Continues, Mask
<1> QED
  BY <1>1, WalkInvHolds, PTL

\* The walk that builds the ring of groups of a domain begins with the CPU
\* the domain belongs to, also for CPU 0 (sched_domain.hpp:75-96).
THEOREM OwnerComesFirst == Spec => []OwnerFirst
<1>1. WalkInv => OwnerFirst
  <2> SUFFICES ASSUME WalkInv, macro = "from", seen # {} PROVE offset + 1 \in seen
    BY DEF OwnerFirst
  <2>1. Start = offset + 1 /\ Start \in Walked /\ Walked \in Mask
    BY StartInMask DEF WalkInv, InputInv, Walked
  <2>2. ~_first
    BY DEF WalkInv, ProgressInv
  <2>3. CASE cpu \in {Start, NoCpu}
    BY <2>1, <2>2, <2>3 DEF WalkInv, ProgressInv
  <2>4. CASE cpu \notin {Start, NoCpu}
    <3>1. seen = {x \in Walked : Pos(x) < Pos(cpu)} /\ cpu \in Walked
      BY <2>2, <2>4 DEF WalkInv, ProgressInv
    <3>2. Start \in Int /\ cpu \in Int /\ cpu \in CPU /\ Start \in CPU
      BY <2>1, <3>1, NrCpuAssumption, SMT DEF Mask, CPU
    <3>3. Pos(Start) = 0 /\ Pos(cpu) > 0
      BY <3>2, <2>4, NrCpuAssumption, SMT DEF Pos, CPU
    <3> QED
      BY <2>1, <3>1, <3>3, SMT
  <2> QED
    BY <2>3, <2>4
<1> QED
  BY <1>1, WalkInvHolds, PTL
=============================================================================
