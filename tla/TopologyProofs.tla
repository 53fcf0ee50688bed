--------------------------- MODULE TopologyProofs ---------------------------
(***************************************************************************)
(* Proofs about Topology, for every machine: what sched_init_domains       *)
(* builds is what SchedDomains describes, so what is proved of the         *)
(* balancer and of the CPU selection over those domains is proved of the   *)
(* domains the code builds.                                                *)
(*                                                                         *)
(* The invariant gives the value of every domain at every step (Shapes):   *)
(* what a loop has visited is as described, the rest as before the loop.   *)
(* While a ring is built, the groups made so far are those of the          *)
(* described ring that are nearer to the owner than the loop variable      *)
(* (HalfRing).                                                             *)
(***************************************************************************)
EXTENDS Topology, CommonLemmas

-----------------------------------------------------------------------------
(* The CPUs in ascending and in descending order.                          *)

LEMMA MaxCpu ==
    ASSUME NEW s \in SUBSET CPU, s # {}
    PROVE  Max(s) \in s /\ \A x \in s : x <= Max(s)
<1> DEFINE t == {NR_CPU - x : x \in s}
<1>1. t \in SUBSET Nat /\ t # {}
  <2>1. \A x \in s : NR_CPU - x \in Nat BY NrCpuAssumption DEF CPU
  <2> QED BY <2>1
<1> HIDE DEF t
<1>2. Min(t) \in t /\ \A y \in t : Min(t) <= y BY <1>1, MinNat
<1>3. PICK x \in s : Min(t) = NR_CPU - x BY <1>2 DEF t
<1>4. \A y \in s : NR_CPU - y \in t BY DEF t
<1>5. \A y \in s : y <= x BY <1>2, <1>3, <1>4, NrCpuAssumption DEF CPU
<1> QED BY <1>5 DEF Max

\* Which CPU the ascending loop comes to, and which the descending one.
LEMMA CpuOrder ==
    ASSUME machine.online \in Mask, machine.online # {}
    PROVE  /\ first_online \in machine.online
           /\ \A x \in machine.online : first_online <= x
           /\ last_online \in machine.online
           /\ \A x \in machine.online : x <= last_online
           /\ \A c \in CPU :
                 /\ CpuAfter(c) = NoCpu => \A x \in machine.online : x <= c
                 /\ CpuAfter(c) # NoCpu =>
                       /\ CpuAfter(c) \in machine.online
                       /\ \A x \in machine.online : x < CpuAfter(c) <=> x <= c
                 /\ CpuBefore(c) = NoCpu => \A x \in machine.online : x >= c
                 /\ CpuBefore(c) # NoCpu =>
                       /\ CpuBefore(c) \in machine.online
                       /\ \A x \in machine.online : x > CpuBefore(c) <=> x >= c
<1>1. machine.online \subseteq CPU BY DEF Mask
<1>2. CPU \subseteq Nat /\ NoCpu \notin CPU BY NrCpuAssumption DEF CPU, NoCpu
<1>3. /\ first_online \in machine.online
      /\ \A x \in machine.online : first_online <= x
  BY FirstIsLeast DEF first_online
<1>4. /\ last_online \in machine.online
      /\ \A x \in machine.online : x <= last_online
  BY <1>1, MaxCpu DEF last_online
<1>5. ASSUME NEW c \in CPU
      PROVE  /\ CpuAfter(c) = NoCpu => \A x \in machine.online : x <= c
             /\ CpuAfter(c) # NoCpu =>
                   /\ CpuAfter(c) \in machine.online
                   /\ \A x \in machine.online : x < CpuAfter(c) <=> x <= c
  <2>0. c \in Nat /\ machine.online \subseteq Nat BY <1>1, <1>2
  <2> DEFINE above == {x \in machine.online : x > c}
  <2>1. above \in Mask BY <1>1 DEF Mask
  <2>2. \A x \in machine.online : x \in above <=> x > c OBVIOUS
  <2>3. above \subseteq machine.online OBVIOUS
  <2>4. CpuAfter(c) = find_first_bit(above) BY DEF CpuAfter
  <2> HIDE DEF above
  <2>5. CASE above = {}
    <3>1. CpuAfter(c) = NoCpu BY <2>1, <2>4, <2>5, FirstIsLeast
    <3> QED BY <2>0, <2>2, <2>5, <3>1
  <2>6. CASE above # {}
    <3>1. CpuAfter(c) \in above /\ \A x \in above : CpuAfter(c) <= x
      BY <2>1, <2>4, <2>6, FirstIsLeast
    <3>2. CpuAfter(c) \in machine.online /\ CpuAfter(c) > c BY <2>2, <2>3, <3>1
    <3> QED BY <1>2, <2>0, <2>2, <3>1, <3>2, <1>1
  <2> QED BY <2>5, <2>6
<1>6. ASSUME NEW c \in CPU
      PROVE  /\ CpuBefore(c) = NoCpu => \A x \in machine.online : x >= c
             /\ CpuBefore(c) # NoCpu =>
                   /\ CpuBefore(c) \in machine.online
                   /\ \A x \in machine.online : x > CpuBefore(c) <=> x >= c
  <2>0. c \in Nat /\ machine.online \subseteq Nat BY <1>1, <1>2
  <2> DEFINE below == {x \in machine.online : x < c}
  <2>1. below \in SUBSET CPU BY <1>1
  <2>2. \A x \in machine.online : x \in below <=> x < c OBVIOUS
  <2>3. below \subseteq machine.online OBVIOUS
  <2>4. CpuBefore(c) = IF below = {} THEN NoCpu ELSE Max(below) BY DEF CpuBefore
  <2> HIDE DEF below
  <2>5. CASE below = {} BY <2>0, <2>2, <2>4, <2>5
  <2>6. CASE below # {}
    <3>1. CpuBefore(c) \in below /\ \A x \in below : x <= CpuBefore(c)
      BY <2>1, <2>4, <2>6, MaxCpu
    <3>2. CpuBefore(c) \in machine.online /\ CpuBefore(c) < c BY <2>2, <2>3, <3>1
    <3> QED BY <1>2, <2>0, <2>2, <3>1, <3>2, <1>1
  <2> QED BY <2>5, <2>6
<1> QED BY <1>3, <1>4, <1>5, <1>6

\* How far CPU x is from c, upwards and round.
Away(c, x) == (x - c) % NR_CPU

LEMMA AwayIs ==
    ASSUME NEW c \in CPU, NEW x \in CPU
    PROVE  /\ Away(c, x) = IF x >= c THEN x - c ELSE x - c + NR_CPU
           /\ Away(c, x) \in Nat /\ (Away(c, x) = 0 <=> x = c)
<1> DEFINE d == x - c
<1>1. d \in Int /\ d < NR_CPU /\ -NR_CPU < d /\ NR_CPU \in Nat \ {0}
      /\ (d >= 0 <=> x >= c)
  BY NrCpuAssumption DEF CPU
<1> HIDE DEF d
<1>2. d % NR_CPU = IF d >= 0 THEN d ELSE d + NR_CPU BY <1>1, Modulo
<1>3. Away(c, x) = IF x >= c THEN x - c ELSE x - c + NR_CPU
  BY <1>1, <1>2 DEF d, Away
<1> QED BY <1>3, NrCpuAssumption DEF CPU

\* The walk of a span from its owner: it begins there, a round is followed by
\* that of the next CPU upwards and round, and the last one by none or by the
\* first.
LEMMA WalkOrder ==
    ASSUME NEW span \in Mask, NEW c \in span, NEW x \in span
    PROVE  LET next == find_next_bit(span, x)
           IN  /\ find_next_bit(span, c - 1) = c
               /\ next \in {c, NoCpu} => \A y \in span : Away(c, y) <= Away(c, x)
               /\ next \notin {c, NoCpu} =>
                     /\ next \in span /\ Away(c, x) < Away(c, next)
                     /\ \A y \in span :
                           Away(c, y) < Away(c, next) <=> Away(c, y) <= Away(c, x)
<1> DEFINE next == find_next_bit(span, x)
           start == find_next_bit(span, c - 1)
<1>1. span \subseteq CPU /\ c \in CPU /\ x \in CPU /\ CPU \subseteq Nat /\ NoCpu \notin CPU
  BY NrCpuAssumption DEF Mask, CPU, NoCpu
<1>2. \A y \in span : /\ Away(c, y) = IF y >= c THEN y - c ELSE y - c + NR_CPU
                      /\ Away(c, y) \in Nat /\ (Away(c, y) = 0 <=> y = c)
  BY <1>1, AwayIs
<1>3. start = c
  <2>1. c - 1 \in {NoCpu} \cup CPU BY <1>1, NrCpuAssumption DEF CPU, NoCpu
  <2>2. ~(span \subseteq {c - 1}) BY <1>1
  <2>3. start \in span /\ start # c - 1 /\ (c > c - 1 => start > c - 1 /\ start <= c)
    BY <2>1, <2>2, NextIsNearest
  <2> HIDE DEF start
  <2> QED BY <1>1, <2>3
<1>4. /\ span \subseteq {x} => next = NoCpu
      /\ ~(span \subseteq {x}) =>
            /\ next \in span /\ next # x
            /\ \A y \in span : y > x => next > x /\ next <= y
            /\ next < x => \A y \in span : next <= y
  BY <1>1, NextIsNearest
<1> HIDE DEF next, start
<1>5. ASSUME next \in {c, NoCpu} PROVE \A y \in span : Away(c, y) <= Away(c, x)
  <2>1. CASE span \subseteq {x}
    <3>1. \A y \in span : y = x BY <2>1
    <3> QED BY <1>2, <3>1
  <2>2. CASE ~(span \subseteq {x})
    <3>1. next = c BY <1>1, <1>4, <1>5, <2>2
    <3>2. /\ c # x
          /\ \A y \in span : y > x => c > x /\ c <= y
          /\ c < x => \A y \in span : c <= y
      BY <1>4, <2>2, <3>1
    <3> QED BY <1>1, <1>2, <3>2, NrCpuAssumption DEF CPU
  <2> QED BY <2>1, <2>2
<1>6. ASSUME next \notin {c, NoCpu}
      PROVE  /\ next \in span /\ Away(c, x) < Away(c, next)
             /\ \A y \in span :
                   Away(c, y) < Away(c, next) <=> Away(c, y) <= Away(c, x)
  <2>1. ~(span \subseteq {x}) BY <1>4, <1>6
  <2>2. /\ next \in span /\ next # x /\ next # c
        /\ \A y \in span : y > x => next > x /\ next <= y
        /\ next < x => \A y \in span : next <= y
    BY <1>4, <1>6, <2>1
  <2>3. next > x \/ next < x BY <1>1, <2>2
  <2>4. Away(c, x) < Away(c, next) BY <1>1, <1>2, <2>2, <2>3, NrCpuAssumption DEF CPU
  <2>5. ASSUME NEW y \in span, Away(c, y) < Away(c, next) PROVE Away(c, y) <= Away(c, x)
    BY <1>1, <1>2, <2>2, <2>3, <2>5, NrCpuAssumption DEF CPU
  <2>6. ASSUME NEW y \in span, Away(c, y) <= Away(c, x) PROVE Away(c, y) < Away(c, next)
    BY <1>2, <2>2, <2>4, <2>6
  <2> QED BY <2>2, <2>4, <2>5, <2>6
<1> QED BY <1>3, <1>5, <1>6 DEF next, start

-----------------------------------------------------------------------------
(* The domains and rings that are described.                               *)

\* What is said of a domain is said of the domain of each of its CPUs: it
\* exists on the same level.
LEMMA SiblingHasDomain ==
    ASSUME NEW m, IsMachine(m), NEW l \in Level, NEW c \in m.online, HasDomain(m, l, c),
           NEW x \in Span(m, l, c)
    PROVE  x \in m.online /\ HasDomain(m, l, x)
<1>1. x \in m.online BY SpanOf
<1>2. ASSUME NEW k \in 1 .. l - 1, Span(m, k, x) = m.online PROVE FALSE
  <2>1. k \in Level /\ k # NrLevel BY DEF Level, NrLevel
  <2>2. Span(m, k, c) = Span(m, k, x) BY <1>1, <1>2, <2>1, SpanOf
  <2> QED BY <1>2, <2>2 DEF HasDomain
<1> QED BY <1>1, <1>2 DEF HasDomain

\* There is a domain below every domain but the lowest, and it is smaller.
LEMMA ChildHasDomain ==
    ASSUME NEW m, IsMachine(m), NEW l \in Level, NEW c \in m.online, HasDomain(m, l, c),
           l # 1
    PROVE  /\ l - 1 \in Level /\ HasDomain(m, l - 1, c)
           /\ Span(m, l - 1, c) \subseteq Span(m, l, c)
           /\ \A x \in Span(m, l, c) : GroupSpan(m, l, x) = Span(m, l - 1, x)
<1>1. l - 1 \in Level /\ l > 1 /\ 1 .. (l - 1) - 1 \subseteq 1 .. l - 1 BY DEF Level, NrLevel
<1>2. HasDomain(m, l - 1, c) BY <1>1 DEF HasDomain
<1>3. Span(m, l - 1, c) \subseteq Span(m, l, c) BY <1>1, SpanOf
<1> QED BY <1>1, <1>2, <1>3 DEF GroupSpan

\* A group is known by its first CPU, whatever domain it is in.
LEMMA GroupKey ==
    ASSUME NEW m, IsMachine(m), NEW l \in Level, NEW c \in m.online, NEW g \in Groups(m, l, c)
    PROVE  /\ g \subseteq m.online /\ g \subseteq CPU /\ g # {} /\ g \subseteq Span(m, l, c)
           /\ Min(g) \in g /\ find_first_bit(g) = Min(g)
           /\ g = GroupSpan(m, l, Min(g)) /\ SgcOf(l, g) \in Domain
<1>1. PICK x \in Span(m, l, c) : g = GroupSpan(m, l, x) BY DEF Groups
<1>2. x \in g /\ g \subseteq Span(m, l, c) /\ \A y \in g : GroupSpan(m, l, y) = g
  BY <1>1, GroupOf
<1>3. g \subseteq m.online /\ g \subseteq CPU BY <1>2, SpanOf
<1>4. g \in SUBSET Nat /\ g # {} BY <1>2, <1>3, NrCpuAssumption DEF CPU
<1>5. Min(g) \in g BY <1>4, MinNat
<1>6. find_first_bit(g) = Min(g) BY <1>4 DEF find_first_bit
<1>7. SgcOf(l, g) \in Domain BY <1>3, <1>5 DEF SgcOf, Domain
<1> QED BY <1>2, <1>3, <1>4, <1>5, <1>6, <1>7

LEMMA SameKey ==
    ASSUME NEW m, IsMachine(m),
           NEW l \in Level, NEW c \in m.online, NEW g \in Groups(m, l, c),
           NEW k \in Level, NEW x \in m.online, NEW h \in Groups(m, k, x),
           SgcOf(l, g) = SgcOf(k, h)
    PROVE  l = k /\ g = h
<1>1. l = k /\ Min(g) = Min(h) BY DEF SgcOf
<1>2. g = GroupSpan(m, l, Min(g)) /\ h = GroupSpan(m, k, Min(h)) BY GroupKey
<1> QED BY <1>1, <1>2

\* How far a group is away, its nearest CPU is.
LEMMA NearestOfGroup ==
    ASSUME NEW c \in CPU, NEW g \in SUBSET CPU, g # {}
    PROVE  /\ Distance(c, g) \in Nat
           /\ \E x \in g : Distance(c, g) = Away(c, x)
           /\ \A x \in g : Distance(c, g) <= Away(c, x)
<1> DEFINE D == {(x - c) % NR_CPU : x \in g}
<1>1. \A x \in g : Away(c, x) \in Nat BY AwayIs
<1>2. D = {Away(c, x) : x \in g} BY DEF Away
<1> HIDE DEF D
<1>3. D \in SUBSET Nat /\ D # {} BY <1>1, <1>2
<1>4. Min(D) \in D /\ \A d \in D : Min(D) <= d BY <1>3, MinNat
<1>5. Distance(c, g) = Min(D) BY DEF Distance, D
<1> QED BY <1>2, <1>3, <1>4, <1>5

\* The ring splits the span into groups, in the order of their distance.
LEMMA RingSplits ==
    ASSUME NEW m, IsMachine(m), NEW l \in Level, NEW c \in m.online
    PROVE  LET R == Ring(m, l, c)
               S == Span(m, l, c)
           IN  \E size \in Nat \ {0} :
                  /\ DOMAIN R = 1 .. size /\ R[1] = GroupSpan(m, l, c)
                  /\ \A n \in 1 .. size : /\ R[n] \in Groups(m, l, c) /\ R[n] \subseteq S
                                          /\ Distance(c, R[n]) \in Nat
                  /\ \A x \in S : \E n \in 1 .. size : R[n] = GroupSpan(m, l, x) /\ x \in R[n]
                  /\ \A n, k \in 1 .. size : n # k => R[n] \cap R[k] = {}
                  /\ \A n, k \in 1 .. size : n < k => Distance(c, R[n]) < Distance(c, R[k])
<1> DEFINE R == Ring(m, l, c)
           S == Span(m, l, c)
           size == Cardinality(Groups(m, l, c))
<1>1. /\ size \in Nat \ {0} /\ R \in [1 .. size -> Groups(m, l, c)]
      /\ R[1] = GroupSpan(m, l, c)
      /\ \A g \in Groups(m, l, c) : \E n \in 1 .. size : R[n] = g
      /\ \A n, k \in 1 .. size : n < k => Distance(c, R[n]) < Distance(c, R[k])
  BY RingPlaces
<1>2. c \in CPU BY SpanOf
<1>3. \A x \in S : GroupSpan(m, l, x) \in Groups(m, l, c) /\ x \in GroupSpan(m, l, x)
  BY GroupOf DEF Groups
<1>4. \A g \in Groups(m, l, c) : g \subseteq S /\ g \subseteq CPU /\ g # {} BY GroupKey
<1>5. \A g \in Groups(m, l, c) : Distance(c, g) \in Nat BY <1>2, <1>4, NearestOfGroup
<1>6. \A g, h \in Groups(m, l, c), x \in S : x \in g /\ x \in h => g = h
  <2>1. ASSUME NEW g \in Groups(m, l, c), NEW x \in g PROVE g = GroupSpan(m, l, x)
    <3>1. PICK y \in S : g = GroupSpan(m, l, y) BY DEF Groups
    <3> QED BY <2>1, <3>1, GroupOf
  <2> QED BY <2>1
<1> HIDE DEF R, S, size
<1>7. \A n \in 1 .. size : R[n] \in Groups(m, l, c) BY <1>1
<1>8. ASSUME NEW n \in 1 .. size, NEW k \in 1 .. size, n # k PROVE R[n] \cap R[k] = {}
  <2>1. R[n] # R[k]
    <3>1. Distance(c, R[n]) # Distance(c, R[k])
      <4>1. CASE n < k BY <1>1, <1>5, <1>7, <4>1
      <4>2. CASE k < n BY <1>1, <1>5, <1>7, <4>2
      <4> QED BY <1>1, <1>8, <4>1, <4>2
    <3> QED BY <3>1
  <2> QED BY <1>4, <1>6, <1>7, <2>1
<1>9. \A x \in S : \E n \in 1 .. size : R[n] = GroupSpan(m, l, x) /\ x \in R[n] BY <1>1, <1>3
<1>10. DOMAIN R = 1 .. size BY <1>1
<1> QED BY <1>1, <1>4, <1>5, <1>7, <1>8, <1>9, <1>10 DEF R, S, size

\* The capacities of disjoint groups add up to that of all of them.
LEMMA CapacityAdds ==
    ASSUME NEW I, IsFiniteSet(I), NEW S, IsFiniteSet(S), NEW R, \A n \in I : R[n] \subseteq S,
           \A n, k \in I : n # k => R[n] \cap R[k] = {}
    PROVE  SumFunctionOnSet([n \in I |-> Capacity(R[n])], I) = Capacity(UNION {R[n] : n \in I})
<1> DEFINE f == [n \in I |-> Capacity(R[n])]
           U(T) == UNION {R[n] : n \in T}
           Bad == {T \in SUBSET I : SumFunctionOnSet(f, T) # Capacity(U(T))}
<1>1. \A T \in SUBSET I : U(T) \subseteq S OBVIOUS
<1>2. \A n \in I : f[n] = Capacity(R[n]) OBVIOUS
<1>3. \A T \in SUBSET I, x \in I : x \in T => U(T) = R[x] \cup U(T \ {x})
                                           /\ R[x] \cap U(T \ {x}) = {}
  OBVIOUS
<1>4. U({}) = {} OBVIOUS
<1>5. ASSUME Bad # {} PROVE FALSE
  <2> Bad \subseteq SUBSET I OBVIOUS
  <2>1. PICK T \in Bad : \A V \in Bad : V \subseteq T => V = T
    <3> HIDE DEF Bad
    <3> QED BY <1>5, MinimalSubset
  <2>2. T \in SUBSET I /\ SumFunctionOnSet(f, T) # Capacity(U(T)) /\ IsFiniteSet(T)
    BY FS_Subset
  <2> HIDE DEF f, U
  <2>3. T # {}
    <3>1. Capacity({}) = 0 BY FS_EmptySet DEF Capacity, SCHED_CAPACITY_SCALE
    <3> QED BY <1>4, <2>2, <3>1, SumSteps
  <2> DEFINE x == Picked(T)
  <2>4. x \in T /\ SumFunctionOnSet(f, T) = f[x] + SumFunctionOnSet(f, T \ {x})
    BY <2>2, <2>3, SumSteps
  <2> HIDE DEF x
  <2>5. T \ {x} \notin Bad /\ T \ {x} \in SUBSET I BY <2>1, <2>2, <2>4
  <2>6. SumFunctionOnSet(f, T \ {x}) = Capacity(U(T \ {x})) BY <2>5
  <2>7. U(T) = R[x] \cup U(T \ {x}) /\ R[x] \cap U(T \ {x}) = {} BY <1>3, <2>2, <2>4
  <2>8. IsFiniteSet(R[x]) /\ IsFiniteSet(U(T \ {x}))
    <3>1. R[x] \subseteq S /\ U(T \ {x}) \subseteq S BY <1>1, <2>2, <2>4, <2>5
    <3> QED BY <3>1, FS_Subset
  <2>9. Cardinality(U(T)) = Cardinality(R[x]) + Cardinality(U(T \ {x}))
    <3> DEFINE A == R[x]
               B == U(T \ {x})
    <3>1. U(T) = A \cup B /\ A \cap B = {} BY <2>7
    <3> HIDE DEF A, B
    <3>2. Cardinality(A \cup B) = Cardinality(A) + Cardinality(B) - Cardinality(A \cap B)
      BY <2>8, FS_Union DEF A, B
    <3>3. Cardinality(A \cap B) = 0 BY <3>1, FS_EmptySet
    <3>4. Cardinality(A) \in Nat /\ Cardinality(B) \in Nat BY <2>8, FS_CardinalityType DEF A, B
    <3> QED BY <3>1, <3>2, <3>3, <3>4 DEF A, B
  <2>10. Capacity(U(T)) = Capacity(R[x]) + Capacity(U(T \ {x}))
    BY <2>8, <2>9, FS_CardinalityType DEF Capacity, SCHED_CAPACITY_SCALE
  <2> QED BY <1>2, <2>2, <2>4, <2>6, <2>10
<1> QED BY <1>5

-----------------------------------------------------------------------------
(* The invariant.                                                          *)

\* The domains there should be.
Wanted(d) == d[2] \in machine.online /\ HasDomain(machine, d[1], d[2])

RingAt(d) == Ring(machine, d[1], d[2])

\* The loops over the CPUs in ascending order have visited the domain d.
Before(d) == d[2] < cpu \/ (d[2] = cpu /\ tmp_sd # NULL /\ d[1] < tmp_sd[1])

Constructed(d) == Wanted(d) /\ (phase = "construct" => Before(d) \/ d = tmp_sd)

Grouped(d) == Wanted(d) /\ phase # "construct" /\ (phase = "groups" => Before(d))

\* So has the one in descending order.
Weighed(d) ==
    \/ phase \in {"attach", "done"}
    \/ phase = "capacity" /\ (d[2] > cpu \/ (d[2] = cpu /\ d[1] < tmp_sd[1]))

Entry(l, g, w) == [span |-> g, group_weight |-> w, sgc |-> SgcOf(l, g)]

\* The ring of a domain, with the weights if they have been filled in.
RingAs(d) ==
    [n \in DOMAIN RingAt(d) |->
        Entry(d[1], RingAt(d)[n],
              IF Weighed(d) THEN GroupWeight(machine, d[1], d[2], RingAt(d)[n]) ELSE 0)]

ChildOf(d) == IF d[1] = 1 THEN NULL ELSE <<d[1] - 1, d[2]>>

Up(d) == <<d[1] + 1, d[2]>>

Shaped(d) ==
    /\ {"span", "child", "parent", "groups"} \subseteq DOMAIN sd[d]
    /\ sd[d].span = Span(machine, d[1], d[2])
    /\ sd[d].child = ChildOf(d)
    /\ sd[d].parent = IF d[1] < NrLevel /\ Constructed(Up(d)) THEN Up(d) ELSE NULL
    /\ sd[d].groups = IF Grouped(d) THEN RingAs(d) ELSE <<>>

Shapes ==
    /\ DOMAIN sd = Domain
    /\ \A d \in Domain : IF Constructed(d) THEN Shaped(d) ELSE sd[d] = Unbuilt

\* The capacity record of a group.
Recorded(l, g) ==
    /\ sgc[SgcOf(l, g)].span = g
    /\ sgc[SgcOf(l, g)].capacity = Capacity(g)

Records ==
    /\ DOMAIN sgc = Domain
    /\ \A d \in Domain : {"capacity", "min_capacity", "span"} \subseteq DOMAIN sgc[d]
    /\ \A d \in Domain :
          Grouped(d) => \A n \in DOMAIN RingAt(d) : Recorded(d[1], RingAt(d)[n])

\* The groups that are nearer than the loop variable have been made.
HalfRing ==
    \/ i = NoCpu /\ built = NoGroups
    \/ /\ phase = "groups" /\ i \in Span(machine, tmp_sd[1], cpu)
       /\ \E k \in DOMAIN RingAt(tmp_sd) :
             /\ \A n \in DOMAIN RingAt(tmp_sd) :
                   n <= k <=> Distance(cpu, RingAt(tmp_sd)[n]) < Away(cpu, i)
             /\ built = [covered |-> UNION {RingAt(tmp_sd)[n] : n \in 1 .. k},
                         ring |-> [n \in 1 .. k |-> Entry(tmp_sd[1], RingAt(tmp_sd)[n], 0)]]
             /\ \A n \in 1 .. k : Recorded(tmp_sd[1], RingAt(tmp_sd)[n])

\* The loops stand at a domain of their CPU.
AtDomain == tmp_sd \in Domain /\ tmp_sd[2] = cpu /\ Wanted(tmp_sd)

Stands ==
    /\ machine \in Machines /\ cpu \in machine.online
    /\ phase \in {"construct", "groups", "capacity", "attach", "done"}
    /\ phase = "construct" =>
          \/ tmp_sd = NULL
          \/ /\ AtDomain /\ tmp_sd[1] < NrLevel
             /\ Span(machine, tmp_sd[1], cpu) # machine.online
    /\ phase \in {"groups", "capacity"} => AtDomain

IInv == Stands /\ Shapes /\ Records /\ HalfRing

MachineIs == IsMachine(machine) /\ machine.online \in Mask /\ machine.online # {}

LEMMA MachineOK == Stands => MachineIs
BY MachinesAssumption DEF Stands, MachineIs, IsMachine

\* A domain is a pair, and not NULL.
LEMMA Pairs ==
    /\ \A d \in Domain : d = <<d[1], d[2]>> /\ d[1] \in Level /\ d[2] \in CPU /\ d # NULL
    /\ \A l \in Level, c \in CPU : <<l, c>> \in Domain
    /\ \A l, c, k, x : <<l, c>> = <<k, x>> => l = k /\ c = x
BY DEF Domain, NULL

LEMMA InitHolds == Init => IInv
<1> SUFFICES ASSUME Init PROVE IInv
  OBVIOUS
<1>1. machine \in Machines /\ IsMachine(machine) BY MachinesAssumption DEF Init
<1>2. machine.online \in Mask /\ machine.online # {} BY <1>1 DEF IsMachine
<1>3. cpu \in machine.online /\ \A x \in machine.online : cpu <= x
  BY <1>2, CpuOrder DEF Init
<1>4. Stands BY <1>1, <1>3 DEF Init, Stands
<1>5. \A d \in Domain : ~Constructed(d)
  <2> SUFFICES ASSUME NEW d \in Domain, Constructed(d) PROVE FALSE
    OBVIOUS
  <2>1. d[2] \in machine.online /\ d[2] < cpu
    BY Pairs DEF Constructed, Wanted, Before, Init
  <2> QED BY <1>2, <1>3, <2>1, NrCpuAssumption DEF Mask, CPU
<1>6. Shapes BY <1>5 DEF Init, Shapes
<1>7. Records BY DEF Init, Records, Grouped
<1> QED BY <1>4, <1>6, <1>7 DEF IInv, HalfRing, Init

-----------------------------------------------------------------------------
(* The construction.                                                       *)

\* The domain that is constructed next, and where the loop goes on.
Fresh == <<IF tmp_sd = NULL THEN 1 ELSE tmp_sd[1] + 1, cpu>>

LEMMA FreshWanted ==
    ASSUME IInv, phase = "construct"
    PROVE  /\ Fresh \in Domain /\ Wanted(Fresh) /\ ~Constructed(Fresh)
           /\ \A d \in Domain : Wanted(d) /\ d[2] = cpu /\ d[1] < Fresh[1] => Constructed(d)
           /\ tmp_sd = ChildOf(Fresh)
           /\ tmp_sd # NULL => tmp_sd \in Domain /\ Constructed(tmp_sd) /\ Up(tmp_sd) = Fresh
<1>1. MachineIs /\ cpu \in machine.online /\ cpu \in CPU
  BY MachineOK DEF IInv, Stands, MachineIs, Mask
<1>2. CASE tmp_sd = NULL
  <2>1. Fresh = <<1, cpu>> BY <1>2 DEF Fresh
  <2>2. Fresh \in Domain /\ Fresh[1] = 1 /\ Fresh[2] = cpu BY <1>1, <2>1 DEF Domain, Level, NrLevel
  <2>3. Wanted(Fresh) BY <1>1, <2>2 DEF Wanted, HasDomain
  <2>4. ~Constructed(Fresh)
    BY <1>1, <1>2, <2>1, <2>2, Pairs, NrCpuAssumption, phase = "construct" DEF Constructed, Before, CPU
  <2>5. \A d \in Domain : ~(d[1] < 1) BY DEF Domain, Level, NrLevel
  <2> QED BY <1>2, <2>2, <2>3, <2>4, <2>5 DEF ChildOf
<1>3. CASE tmp_sd # NULL
  <2>1. /\ tmp_sd \in Domain /\ tmp_sd[2] = cpu /\ Wanted(tmp_sd) /\ tmp_sd[1] < NrLevel
        /\ Span(machine, tmp_sd[1], cpu) # machine.online
    BY <1>3, phase = "construct" DEF IInv, Stands, AtDomain
  <2> DEFINE l == tmp_sd[1]
  <2>2. l \in Level /\ l + 1 \in Level /\ tmp_sd = <<l, cpu>> /\ l < NrLevel /\ l + 1 # 1
    BY <2>1, Pairs DEF Level, NrLevel
  <2>3. Fresh = <<l + 1, cpu>> BY <1>3 DEF Fresh
  <2> HIDE DEF l
  <2>4. /\ Fresh \in Domain /\ Fresh[1] = l + 1 /\ Fresh[2] = cpu
        /\ Up(tmp_sd) = Fresh /\ ChildOf(Fresh) = tmp_sd /\ tmp_sd[1] = l
    BY <1>1, <2>2, <2>3 DEF Domain, Up, ChildOf, Level
  <2>5. Wanted(Fresh)
    <3>1. HasDomain(machine, l, cpu) /\ Span(machine, l, cpu) # machine.online
      BY <2>1, <2>4 DEF Wanted
    <3>2. \A k \in 1 .. (l + 1) - 1 : k \in 1 .. l - 1 \/ k = l BY <2>2 DEF Level
    <3>3. HasDomain(machine, l + 1, cpu) BY <3>1, <3>2 DEF HasDomain
    <3> QED BY <1>1, <2>4, <3>3 DEF Wanted
  <2>6. ~Constructed(Fresh)
    <3>1. ~Before(Fresh) /\ Fresh # tmp_sd
      BY <1>1, <2>2, <2>4, NrCpuAssumption DEF Before, CPU, Level
    <3> QED BY <3>1, phase = "construct" DEF Constructed
  <2>7. ASSUME NEW d \in Domain, Wanted(d), d[2] = cpu, d[1] < Fresh[1]
        PROVE  Constructed(d)
    <3>1. d[1] \in Level /\ (d[1] = l \/ d[1] < l) BY <2>2, <2>4, <2>7, Pairs DEF Level
    <3>2. d[1] = l => d = tmp_sd BY <2>2, <2>7, Pairs
    <3>3. d[1] < l => Before(d) BY <1>3, <2>4, <2>7 DEF Before
    <3> QED BY <2>7, <3>1, <3>2, <3>3 DEF Constructed
  <2>8. Constructed(tmp_sd) BY <2>1 DEF Constructed
  <2> QED BY <2>1, <2>4, <2>5, <2>6, <2>7, <2>8
<1> QED BY <1>2, <1>3

LEMMA ConstructMoves ==
    ASSUME IInv, construct_domain
    PROVE  /\ machine' = machine
           /\ \A d \in Domain : Constructed(d)' <=> Constructed(d) \/ d = Fresh
           /\ \A d \in Domain : ~Grouped(d)'
           /\ Stands'
<1> DEFINE l == Fresh[1]
           last == Span(machine, l, cpu) = machine.online \/ l = NrLevel
<1>1. phase = "construct" /\ machine' = machine BY DEF construct_domain
<1>2. /\ Fresh \in Domain /\ Wanted(Fresh) /\ ~Constructed(Fresh) /\ Fresh = <<l, cpu>>
      /\ \A d \in Domain : Wanted(d) /\ d[2] = cpu /\ d[1] < l => Constructed(d)
      /\ l \in Level
  BY <1>1, FreshWanted, Pairs DEF Fresh
<1>3. MachineIs /\ cpu \in machine.online /\ machine.online \subseteq CPU /\ CPU \subseteq Nat
  BY MachineOK, NrCpuAssumption DEF IInv, Stands, MachineIs, Mask, CPU
<1>4. /\ ~last => tmp_sd' = Fresh /\ phase' = phase /\ cpu' = cpu
      /\ last /\ CpuAfter(cpu) # NoCpu => tmp_sd' = NULL /\ cpu' = CpuAfter(cpu) /\ phase' = phase
      /\ last /\ CpuAfter(cpu) = NoCpu =>
            phase' = "groups" /\ cpu' = first_online /\ tmp_sd' = <<1, first_online>>
  BY DEF construct_domain, NewDomain, Covers, cpumask_and, Span, Fresh
<1>5. \A d : Wanted(d)' <=> Wanted(d) BY <1>1 DEF Wanted
<1>6. \A d \in Domain : Constructed(d) =>
         Wanted(d) /\ (d[2] < cpu \/ (d[2] = cpu /\ d[1] < l))
  <2> SUFFICES ASSUME NEW d \in Domain, Constructed(d)
               PROVE  Wanted(d) /\ (d[2] < cpu \/ (d[2] = cpu /\ d[1] < l))
    OBVIOUS
  <2>1. tmp_sd # NULL => Fresh = Up(tmp_sd) /\ tmp_sd \in Domain /\ tmp_sd[2] = cpu
    BY <1>1, FreshWanted DEF IInv, Stands, AtDomain
  <2>2. tmp_sd # NULL => l = tmp_sd[1] + 1 /\ tmp_sd[1] \in Level BY <2>1, Pairs DEF Up
  <2>3. d # NULL /\ d[1] \in Level BY Pairs
  <2> HIDE DEF l
  <2> QED BY <1>1, <2>1, <2>2, <2>3 DEF Constructed, Before, Level
<1>7. ASSUME last, NEW d \in Domain, Wanted(d), d[2] = cpu PROVE d[1] <= l
  <2>1. d[1] \in Level BY Pairs
  <2>2. CASE l = NrLevel BY <2>1, <2>2 DEF Level, NrLevel
  <2>3. CASE Span(machine, l, cpu) = machine.online
    <3>1. \A k \in 1 .. d[1] - 1 : k # l BY <1>7, <2>3 DEF Wanted, HasDomain
    <3> HIDE DEF l
    <3> QED BY <1>2, <2>1, <3>1 DEF Level
  <2> QED BY <1>7, <2>2, <2>3
<1> HIDE DEF l, last
<1>8. CASE ~last
  <2>1. tmp_sd' = Fresh /\ phase' = "construct" /\ cpu' = cpu BY <1>1, <1>4, <1>8
  <2>2. Fresh # NULL /\ Fresh[1] = l BY <1>2, Pairs DEF l
  <2>3. ASSUME NEW d \in Domain PROVE Constructed(d)' <=> Constructed(d) \/ d = Fresh
    <3>1. Constructed(d)' <=> Wanted(d) /\ (d[2] < cpu \/ (d[2] = cpu /\ d[1] < l) \/ d = Fresh)
      BY <1>5, <2>1, <2>2 DEF Constructed, Before
    <3>2. Wanted(d) /\ d[2] < cpu => Constructed(d) BY DEF Constructed, Before
    <3> QED BY <1>2, <1>6, <3>1, <3>2
  <2>4. \A d : ~Grouped(d)' BY <2>1 DEF Grouped
  <2>5. Stands'
    <3>1. l < NrLevel /\ Span(machine, l, cpu) # machine.online
      BY <1>2, <1>8 DEF last, Level, NrLevel
    <3>2. Fresh[2] = cpu BY <1>2, Pairs
    <3> QED BY <1>1, <1>2, <1>3, <1>5, <2>1, <2>2, <3>1, <3>2 DEF IInv, Stands, AtDomain
  <2> QED BY <1>1, <2>3, <2>4, <2>5
<1>9. CASE last /\ CpuAfter(cpu) # NoCpu
  <2>1. tmp_sd' = NULL /\ phase' = "construct" /\ cpu' = CpuAfter(cpu) BY <1>1, <1>4, <1>9
  <2>2. /\ cpu' \in machine.online
        /\ \A x \in machine.online : x < cpu' <=> x <= cpu
    BY <1>3, <1>9, <2>1, CpuOrder DEF MachineIs
  <2>3. ASSUME NEW d \in Domain PROVE Constructed(d)' <=> Constructed(d) \/ d = Fresh
    <3>1. Constructed(d)' <=> Wanted(d) /\ d[2] < cpu'
      BY <1>5, <2>1, Pairs DEF Constructed, Before
    <3>2. Constructed(d)' <=> Wanted(d) /\ d[2] <= cpu BY <2>2, <3>1 DEF Wanted
    <3>3. d[2] \in CPU /\ d[1] \in Level /\ d = <<d[1], d[2]>> BY Pairs
    <3>4. Wanted(d) /\ d[2] < cpu => Constructed(d) BY DEF Constructed, Before
    <3>5. Wanted(d) /\ d[2] = cpu => d[1] < l \/ d = Fresh
      BY <1>2, <1>7, <1>9, <3>3 DEF Level
    <3>6. Fresh[2] = cpu BY <1>2, Pairs
    <3>7. d[2] <= cpu <=> d[2] < cpu \/ d[2] = cpu BY <1>3, <3>3
    <3>8. Wanted(d) /\ d[2] = cpu => Constructed(d) \/ d = Fresh BY <1>2, <3>5
    <3>9. Constructed(d) => Wanted(d) /\ d[2] <= cpu BY <1>6, <3>7
    <3> QED BY <1>2, <3>2, <3>4, <3>6, <3>7, <3>8, <3>9
  <2>4. \A d : ~Grouped(d)' BY <2>1 DEF Grouped
  <2>5. Stands' BY <1>1, <2>1, <2>2 DEF IInv, Stands
  <2> QED BY <1>1, <2>3, <2>4, <2>5
<1>10. CASE last /\ CpuAfter(cpu) = NoCpu
  <2>1. tmp_sd' = <<1, first_online>> /\ phase' = "groups" /\ cpu' = first_online
    BY <1>4, <1>10
  <2>2. /\ first_online \in machine.online /\ \A x \in machine.online : first_online <= x
        /\ \A x \in machine.online : x <= cpu
    BY <1>3, <1>10, CpuOrder DEF MachineIs
  <2>3. ASSUME NEW d \in Domain PROVE Constructed(d)' <=> Constructed(d) \/ d = Fresh
    <3>1. Constructed(d)' <=> Wanted(d) BY <1>5, <2>1 DEF Constructed
    <3>2. Wanted(d) => d[2] <= cpu BY <2>2 DEF Wanted
    <3>3. d[2] \in CPU /\ d[1] \in Level /\ d = <<d[1], d[2]>> BY Pairs
    <3>4. Wanted(d) /\ d[2] < cpu => Constructed(d) BY DEF Constructed, Before
    <3>5. Wanted(d) /\ d[2] = cpu => d[1] < l \/ d = Fresh
      BY <1>2, <1>7, <1>10, <3>3 DEF Level
    <3>6. d[2] <= cpu <=> d[2] < cpu \/ d[2] = cpu BY <1>3, <3>3
    <3>7. Wanted(d) /\ d[2] = cpu => Constructed(d) \/ d = Fresh BY <1>2, <3>5
    <3>8. Constructed(d) => Wanted(d) BY <1>6
    <3> QED BY <1>2, <3>1, <3>2, <3>4, <3>6, <3>7, <3>8
  <2>4. <<1, first_online>> \in Domain /\ <<1, first_online>>[1] = 1
        /\ <<1, first_online>>[2] = first_online /\ 1 \in Level
    BY <1>3, <2>2 DEF Domain, Level, NrLevel
  <2>5. ASSUME NEW d \in Domain, Grouped(d)' PROVE FALSE
    <3>1. Wanted(d) /\ (d[2] < first_online \/ (d[2] = first_online /\ d[1] < 1))
      BY <1>5, <2>1, <2>4, <2>5 DEF Grouped, Before
    <3>2. d[2] \in machine.online /\ d[1] \in Level BY <3>1, Pairs DEF Wanted
    <3>3. ~(d[1] < 1) BY <3>2 DEF Level, NrLevel
    <3>4. first_online <= d[2] /\ d[2] \in Nat /\ first_online \in Nat BY <1>3, <2>2, <3>2
    <3> QED BY <3>1, <3>3, <3>4
  <2>6. Wanted(<<1, first_online>>) BY <2>2, <2>4 DEF Wanted, HasDomain
  <2>7. Stands' BY <1>1, <1>5, <2>1, <2>2, <2>4, <2>6 DEF IInv, Stands, AtDomain
  <2> QED BY <1>1, <2>3, <2>5, <2>7
<1> QED BY <1>8, <1>9, <1>10

LEMMA ConstructKeeps == IInv /\ construct_domain => IInv'
<1> SUFFICES ASSUME IInv, construct_domain PROVE IInv'
  OBVIOUS
<1>1. /\ machine' = machine /\ Stands' /\ \A d \in Domain : ~Grouped(d)'
      /\ \A d \in Domain : Constructed(d)' <=> Constructed(d) \/ d = Fresh
  BY ConstructMoves
<1>2. phase = "construct" /\ i' = i /\ built' = built /\ sgc' = sgc BY DEF construct_domain
<1>3. /\ Fresh \in Domain /\ Wanted(Fresh) /\ ~Constructed(Fresh) /\ tmp_sd = ChildOf(Fresh)
      /\ tmp_sd # NULL => tmp_sd \in Domain /\ Constructed(tmp_sd) /\ Up(tmp_sd) = Fresh
  BY <1>2, FreshWanted
<1>4. \A d \in Domain : ~Grouped(d) BY <1>2 DEF Grouped
<1>5. HalfRing' BY <1>2 DEF IInv, HalfRing
<1>6. Records' BY <1>1, <1>2 DEF IInv, Records
<1> DEFINE l == Fresh[1]
<1>7. Fresh = <<l, cpu>> /\ l = IF tmp_sd = NULL THEN 1 ELSE tmp_sd[1] + 1
  BY <1>3, Pairs DEF Fresh
<1>8. PICK garbage \in Garbage :
         sd' = [d \in Domain |->
                  IF d = Fresh THEN NewDomain(l, cpu, tmp_sd, garbage)
                  ELSE IF d = tmp_sd THEN [sd[d] EXCEPT !.parent = Fresh]
                  ELSE sd[d]]
  BY <1>7 DEF construct_domain
<1> HIDE DEF l
<1>9. ASSUME NEW d \in Domain
      PROVE  IF Constructed(d)' THEN Shaped(d)' ELSE sd'[d] = Unbuilt
  <2>1. IF Constructed(d) THEN Shaped(d) ELSE sd[d] = Unbuilt BY DEF IInv, Shapes
  <2>2. d = <<d[1], d[2]>> /\ d[1] \in Level /\ d[2] \in CPU /\ d # NULL BY Pairs
  <2>3. CASE d = Fresh
    <3>1. Constructed(d)' BY <1>1, <2>3
    <3>2. sd'[d] = NewDomain(l, cpu, tmp_sd, garbage) BY <1>8, <2>3
    <3>3. /\ sd'[d].span = Span(machine, d[1], d[2]) /\ sd'[d].child = ChildOf(d)
          /\ sd'[d].parent = NULL /\ sd'[d].groups = <<>>
          /\ {"span", "child", "parent", "groups"} \subseteq DOMAIN sd'[d]
      <4>1. l = d[1] /\ cpu = d[2] BY <1>7, <2>3, <2>2
      <4> QED BY <1>3, <2>3, <3>2, <4>1 DEF NewDomain, cpumask_and, Span
    <3>4. d[1] < NrLevel => Up(d) \in Domain /\ Up(d) # Fresh
      BY <2>2, <2>3 DEF Up, Domain, Level, NrLevel
    <3>5. d[1] < NrLevel => ~Constructed(Up(d))'
      <4> SUFFICES ASSUME d[1] < NrLevel PROVE ~Constructed(Up(d))
        BY <1>1, <3>4
      <4>1. Up(d)[1] = d[1] + 1 /\ Up(d)[2] = cpu /\ d[2] = cpu /\ cpu \in Nat
        BY <1>7, <2>3, <2>2, NrCpuAssumption DEF Up, CPU
      <4>2. tmp_sd # NULL => d[1] = tmp_sd[1] + 1 /\ tmp_sd[1] \in Level /\ tmp_sd # Up(d)
        <5> SUFFICES ASSUME tmp_sd # NULL
                     PROVE  d[1] = tmp_sd[1] + 1 /\ tmp_sd[1] \in Level /\ tmp_sd # Up(d)
          OBVIOUS
        <5>1. tmp_sd[1] \in Level /\ l = d[1] BY <1>3, <1>7, <2>2, <2>3, Pairs
        <5>2. d[1] = tmp_sd[1] + 1 BY <1>7, <5>1
        <5> QED BY <4>1, <5>1, <5>2 DEF Level
      <4>3. ~Before(Up(d)) BY <2>2, <4>1, <4>2 DEF Before, Level
      <4>4. Up(d) # NULL BY <3>4, Pairs
      <4> QED BY <1>2, <4>2, <4>3, <4>4 DEF Constructed
    <3> QED BY <1>1, <3>1, <3>3, <3>5 DEF Shaped, Up
  <2>4. CASE d # Fresh /\ d = tmp_sd
    <3>1. Constructed(d) /\ Constructed(d)' /\ Up(d) = Fresh BY <1>1, <1>3, <2>2, <2>4
    <3>6. Constructed(Up(d))' BY <1>1, <1>3, <3>1
    <3>2. sd'[d] = [sd[d] EXCEPT !.parent = Fresh] BY <1>8, <2>4
    <3>3. Shaped(d) BY <2>1, <3>1
    <3>4. /\ sd'[d].span = Span(machine, d[1], d[2]) /\ sd'[d].child = ChildOf(d)
          /\ sd'[d].parent = Up(d) /\ sd'[d].groups = <<>>
          /\ {"span", "child", "parent", "groups"} \subseteq DOMAIN sd'[d]
      BY <1>4, <3>1, <3>2, <3>3 DEF Shaped
    <3>5. d[1] < NrLevel BY <1>3, <2>2, <3>1 DEF Up, Domain, Level, NrLevel
    <3> QED BY <1>1, <3>1, <3>4, <3>5, <3>6 DEF Shaped, Up
  <2>5. CASE d # Fresh /\ d # tmp_sd
    <3>1. sd'[d] = sd[d] BY <1>8, <2>5
    <3>2. Constructed(d)' <=> Constructed(d) BY <1>1, <2>5
    <3>3. d[1] < NrLevel => Up(d) \in Domain BY <2>2 DEF Up, Domain, Level, NrLevel
    <3>4. d[1] < NrLevel => Up(d) # Fresh
      <4> SUFFICES ASSUME d[1] < NrLevel, Up(d) = Fresh PROVE FALSE
        OBVIOUS
      <4>1. Fresh[1] = d[1] + 1 /\ Fresh[2] = d[2] BY DEF Up
      <4>2. ChildOf(Fresh) = <<d[1], d[2]>> BY <2>2, <4>1 DEF ChildOf, Level
      <4> QED BY <1>3, <2>2, <2>5, <4>2
    <3>5. d[1] < NrLevel => (Constructed(Up(d))' <=> Constructed(Up(d))) BY <1>1, <3>3, <3>4
    <3>6. Constructed(d) => Shaped(d)'
      BY <1>1, <1>4, <2>1, <3>1, <3>5 DEF Shaped, Up
    <3> QED BY <2>1, <3>1, <3>2, <3>6
  <2> QED BY <2>3, <2>4, <2>5
<1>10. DOMAIN sd' = Domain BY <1>8
<1>11. Shapes' BY <1>9, <1>10 DEF Shapes
<1> QED BY <1>1, <1>5, <1>6, <1>11 DEF IInv

-----------------------------------------------------------------------------
(* The loops over the CPUs that visit the domains of each bottom-up.       *)

\* What is known of the domain that such a loop stands at.
LEMMA StandsAt ==
    ASSUME IInv, phase \in {"groups", "capacity"}
    PROVE  /\ tmp_sd \in Domain /\ tmp_sd[1] \in Level /\ tmp_sd[2] = cpu
           /\ tmp_sd = <<tmp_sd[1], cpu>> /\ tmp_sd # NULL
           /\ Wanted(tmp_sd) /\ Constructed(tmp_sd) /\ Shaped(tmp_sd)
           /\ MachineIs /\ IsMachine(machine) /\ machine.online \subseteq CPU
           /\ cpu \in machine.online /\ cpu \in CPU
           /\ HasDomain(machine, tmp_sd[1], cpu)
           /\ sd[tmp_sd].parent # NULL =>
                 /\ sd[tmp_sd].parent = Up(tmp_sd) /\ Up(tmp_sd) \in Domain
                 /\ Wanted(Up(tmp_sd))
           /\ sd[tmp_sd].parent = NULL =>
                 \A d \in Domain : Wanted(d) /\ d[2] = cpu => d[1] <= tmp_sd[1]
<1>1. tmp_sd \in Domain /\ tmp_sd[2] = cpu /\ Wanted(tmp_sd) /\ cpu \in machine.online
  BY DEF IInv, Stands, AtDomain
<1>2. MachineIs /\ IsMachine(machine) /\ machine.online \subseteq CPU /\ cpu \in CPU
  BY <1>1, MachineOK DEF IInv, MachineIs, Mask
<1>3. \A d : Constructed(d) <=> Wanted(d) BY DEF Constructed
<1>4. Shaped(tmp_sd) BY <1>1, <1>3 DEF IInv, Shapes
<1>5. tmp_sd[1] \in Level /\ tmp_sd = <<tmp_sd[1], cpu>> /\ tmp_sd # NULL BY <1>1, Pairs
<1>6. HasDomain(machine, tmp_sd[1], cpu) BY <1>1 DEF Wanted
<1>7. sd[tmp_sd].parent = IF tmp_sd[1] < NrLevel /\ Wanted(Up(tmp_sd)) THEN Up(tmp_sd) ELSE NULL
  BY <1>3, <1>4 DEF Shaped
<1>8. tmp_sd[1] < NrLevel => Up(tmp_sd) \in Domain /\ Up(tmp_sd) # NULL
  <2> SUFFICES ASSUME tmp_sd[1] < NrLevel PROVE Up(tmp_sd) \in Domain /\ Up(tmp_sd) # NULL
    OBVIOUS
  <2>1. Up(tmp_sd) \in Domain BY <1>1, <1>2, <1>5 DEF Up, Domain, Level, NrLevel
  <2> QED BY <2>1, Pairs
<1>9. ASSUME sd[tmp_sd].parent = NULL, NEW d \in Domain, Wanted(d), d[2] = cpu
      PROVE  d[1] <= tmp_sd[1]
  <2>1. d[1] \in Level BY Pairs
  <2>2. CASE ~(tmp_sd[1] < NrLevel) BY <1>5, <2>1, <2>2 DEF Level, NrLevel
  <2>3. CASE tmp_sd[1] < NrLevel
    <3>1. ~Wanted(Up(tmp_sd)) BY <1>7, <1>8, <1>9, <2>3
    <3>2. ~HasDomain(machine, tmp_sd[1] + 1, cpu)
      BY <1>1, <3>1 DEF Wanted, Up
    <3>3. PICK k \in 1 .. (tmp_sd[1] + 1) - 1 : Span(machine, k, cpu) = machine.online
      BY <3>2 DEF HasDomain
    <3>4. HasDomain(machine, d[1], cpu) BY <1>9 DEF Wanted
    <3>5. k \notin 1 .. d[1] - 1 BY <3>3, <3>4 DEF HasDomain
    <3> QED BY <1>5, <2>1, <3>3, <3>5 DEF Level
  <2> QED BY <2>2, <2>3
<1> QED BY <1>1, <1>2, <1>3, <1>4, <1>5, <1>6, <1>7, <1>8, <1>9

LEMMA OnwardUp ==
    ASSUME IInv, phase = "groups", machine' = machine,
           Onward(CpuAfter(cpu), "capacity", last_online)
    PROVE  /\ Stands' /\ phase' \in {"groups", "capacity"}
           /\ \A d \in Domain :
                 /\ Constructed(d)' <=> Wanted(d)
                 /\ Grouped(d)' <=> Grouped(d) \/ d = tmp_sd
                 /\ Wanted(d) => ~Weighed(d)'
<1> DEFINE l == tmp_sd[1]
<1>1. /\ tmp_sd \in Domain /\ l \in Level /\ tmp_sd[2] = cpu /\ Wanted(tmp_sd)
      /\ tmp_sd # NULL /\ MachineIs /\ cpu \in machine.online /\ cpu \in CPU
      /\ sd[tmp_sd].parent # NULL =>
            sd[tmp_sd].parent = Up(tmp_sd) /\ Up(tmp_sd) \in Domain /\ Wanted(Up(tmp_sd))
      /\ sd[tmp_sd].parent = NULL => \A d \in Domain : Wanted(d) /\ d[2] = cpu => d[1] <= l
  BY StandsAt
<1>2. machine.online \subseteq CPU /\ CPU \subseteq Nat /\ Level \subseteq Nat
  BY <1>1, NrCpuAssumption DEF MachineIs, Mask, CPU, Level
<1>3. \A d : Wanted(d)' <=> Wanted(d) BY DEF Wanted
<1>4. \A d \in Domain : Grouped(d) <=> Wanted(d) /\ (d[2] < cpu \/ (d[2] = cpu /\ d[1] < l))
  BY <1>1, phase = "groups" DEF Grouped, Before
<1>5. \A d \in Domain : d[1] \in Level /\ d[2] \in CPU /\ (d[2] = cpu /\ d[1] = l => d = tmp_sd)
  BY <1>1, Pairs
<1>6. machine \in Machines BY DEF IInv, Stands
<1>7. 1 \in Level /\ \A k \in Level : ~(k < 1) BY DEF Level, NrLevel
<1>8. \A c \in CPU : /\ <<1, c>> \in Domain /\ <<1, c>>[1] = 1 /\ <<1, c>>[2] = c /\ <<1, c>> # NULL
                     /\ c \in machine.online => Wanted(<<1, c>>)
  BY <1>7, Pairs DEF Wanted, HasDomain
<1>9. CASE sd[tmp_sd].parent # NULL
  <2>1. tmp_sd' = Up(tmp_sd) /\ phase' = "groups" /\ cpu' = cpu
    BY <1>9, <1>1, phase = "groups" DEF Onward
  <2>2. Up(tmp_sd)[1] = l + 1 /\ Up(tmp_sd)[2] = cpu /\ Up(tmp_sd) # NULL
    BY <1>1, <1>9, Pairs DEF Up
  <2>3. Stands' BY <1>1, <1>3, <1>6, <1>9, <2>1, <2>2 DEF Stands, AtDomain
  <2>4. ASSUME NEW d \in Domain
        PROVE  /\ Constructed(d)' <=> Wanted(d)
               /\ Grouped(d)' <=> Grouped(d) \/ d = tmp_sd
               /\ Wanted(d) => ~Weighed(d)'
    <3>1. Constructed(d)' <=> Wanted(d) BY <1>3, <2>1 DEF Constructed
    <3>2. Grouped(d)' <=> Wanted(d) /\ (d[2] < cpu \/ (d[2] = cpu /\ d[1] < l + 1))
      BY <1>3, <2>1, <2>2 DEF Grouped, Before
    <3>3. d[1] \in Nat /\ l \in Nat BY <1>1, <1>2, <1>5
    <3> HIDE DEF l
    <3>4. d[1] < l + 1 <=> d[1] < l \/ d[1] = l BY <3>3
    <3>5. Grouped(d)' <=> Grouped(d) \/ d = tmp_sd
      BY <1>1, <1>4, <1>5, <3>2, <3>4 DEF l
    <3> QED BY <2>1, <3>1, <3>5 DEF Weighed
  <2> QED BY <2>1, <2>3, <2>4
<1>10. CASE sd[tmp_sd].parent = NULL
  <2>0. \A d \in Domain : Wanted(d) /\ d[2] = cpu <=> Wanted(d) /\ d[2] = cpu /\ d[1] <= l
    BY <1>1, <1>10
  <2>1. \A d \in Domain : Wanted(d) /\ (d[2] < cpu \/ d[2] = cpu) <=> Grouped(d) \/ d = tmp_sd
    <3> SUFFICES ASSUME NEW d \in Domain
                 PROVE  Wanted(d) /\ (d[2] < cpu \/ d[2] = cpu) <=> Grouped(d) \/ d = tmp_sd
      OBVIOUS
    <3>1. d[1] \in Nat /\ l \in Nat BY <1>1, <1>2, <1>5
    <3> HIDE DEF l
    <3>2. d[1] <= l <=> d[1] < l \/ d[1] = l BY <3>1
    <3> QED BY <1>1, <1>4, <1>5, <2>0, <3>2 DEF l
  <2>2. CASE CpuAfter(cpu) # NoCpu
    <3>1. tmp_sd' = <<1, CpuAfter(cpu)>> /\ phase' = "groups" /\ cpu' = CpuAfter(cpu)
      BY <1>10, <2>2, phase = "groups" DEF Onward
    <3>2. /\ cpu' \in machine.online
          /\ \A x \in machine.online : x < cpu' <=> x <= cpu
      BY <1>1, <2>2, <3>1, CpuOrder DEF MachineIs
    <3>3. Stands' BY <1>2, <1>3, <1>6, <1>8, <3>1, <3>2 DEF Stands, AtDomain
    <3>4. ASSUME NEW d \in Domain
          PROVE  /\ Constructed(d)' <=> Wanted(d)
                 /\ Grouped(d)' <=> Grouped(d) \/ d = tmp_sd
                 /\ Wanted(d) => ~Weighed(d)'
      <4>1. Constructed(d)' <=> Wanted(d) BY <1>3, <3>1 DEF Constructed
      <4>2. Grouped(d)' <=> Wanted(d) /\ d[2] < cpu'
        BY <1>2, <1>3, <1>5, <1>7, <1>8, <3>1, <3>2 DEF Grouped, Before
      <4>3. d[2] \in Nat /\ cpu \in Nat BY <1>1, <1>2, <1>5
      <4>4. d[2] <= cpu <=> d[2] < cpu \/ d[2] = cpu BY <4>3
      <4>5. Grouped(d)' <=> Grouped(d) \/ d = tmp_sd BY <2>1, <3>2, <4>2, <4>4 DEF Wanted
      <4> QED BY <3>1, <4>1, <4>5 DEF Weighed
    <3> QED BY <3>1, <3>3, <3>4
  <2>3. CASE CpuAfter(cpu) = NoCpu
    <3>1. tmp_sd' = <<1, last_online>> /\ phase' = "capacity" /\ cpu' = last_online
      BY <1>10, <2>3 DEF Onward
    <3>2. /\ last_online \in machine.online /\ \A x \in machine.online : x <= last_online
          /\ \A x \in machine.online : x <= cpu
      BY <1>1, <2>3, CpuOrder DEF MachineIs
    <3>3. Stands' BY <1>2, <1>3, <1>6, <1>8, <3>1, <3>2 DEF Stands, AtDomain
    <3>4. ASSUME NEW d \in Domain
          PROVE  /\ Constructed(d)' <=> Wanted(d)
                 /\ Grouped(d)' <=> Grouped(d) \/ d = tmp_sd
                 /\ Wanted(d) => ~Weighed(d)'
      <4>1. Constructed(d)' <=> Wanted(d) BY <1>3, <3>1 DEF Constructed
      <4>2. Grouped(d)' <=> Wanted(d) BY <1>3, <3>1 DEF Grouped
      <4>3. Wanted(d) => d[2] <= cpu /\ d[2] <= last_online BY <3>2 DEF Wanted
      <4>4. d[2] \in Nat /\ cpu \in Nat /\ last_online \in Nat BY <1>1, <1>2, <1>5, <3>2
      <4>5. Grouped(d)' <=> Grouped(d) \/ d = tmp_sd BY <1>1, <2>1, <4>2, <4>3, <4>4
      <4>6. ~(d[1] < 1) BY <1>5, <1>7
      <4>7. Wanted(d) => ~(d[2] > last_online) BY <4>3, <4>4
      <4>8. <<1, last_online>>[1] = 1 BY <1>2, <1>8, <3>2
      <4>9. Wanted(d) => ~Weighed(d)' BY <3>1, <4>6, <4>7, <4>8 DEF Weighed
      <4> QED BY <4>1, <4>5, <4>9
    <3> QED BY <3>1, <3>3, <3>4
  <2> QED BY <2>2, <2>3
<1> QED BY <1>9, <1>10

LEMMA OnwardDown ==
    ASSUME IInv, phase = "capacity", machine' = machine,
           Onward(CpuBefore(cpu), "attach", first_online)
    PROVE  /\ Stands' /\ phase' \in {"capacity", "attach"}
           /\ \A d \in Domain :
                 /\ Constructed(d)' <=> Wanted(d)
                 /\ Grouped(d)' <=> Wanted(d)
                 /\ Wanted(d) => (Weighed(d)' <=> Weighed(d) \/ d = tmp_sd)
<1> DEFINE l == tmp_sd[1]
<1>1. /\ tmp_sd \in Domain /\ l \in Level /\ tmp_sd[2] = cpu /\ Wanted(tmp_sd)
      /\ tmp_sd # NULL /\ MachineIs /\ cpu \in machine.online /\ cpu \in CPU
      /\ sd[tmp_sd].parent # NULL =>
            sd[tmp_sd].parent = Up(tmp_sd) /\ Up(tmp_sd) \in Domain /\ Wanted(Up(tmp_sd))
      /\ sd[tmp_sd].parent = NULL => \A d \in Domain : Wanted(d) /\ d[2] = cpu => d[1] <= l
  BY StandsAt
<1>2. machine.online \subseteq CPU /\ CPU \subseteq Nat /\ Level \subseteq Nat
  BY <1>1, NrCpuAssumption DEF MachineIs, Mask, CPU, Level
<1>3. \A d : Wanted(d)' <=> Wanted(d) BY DEF Wanted
<1>4. \A d \in Domain : Weighed(d) <=> d[2] > cpu \/ (d[2] = cpu /\ d[1] < l)
  BY phase = "capacity" DEF Weighed
<1>5. \A d \in Domain : d[1] \in Level /\ d[2] \in CPU /\ (d[2] = cpu /\ d[1] = l => d = tmp_sd)
  BY <1>1, Pairs
<1>6. machine \in Machines BY DEF IInv, Stands
<1>7. 1 \in Level /\ \A k \in Level : ~(k < 1) BY DEF Level, NrLevel
<1>8. \A c \in CPU : /\ <<1, c>> \in Domain /\ <<1, c>>[1] = 1 /\ <<1, c>>[2] = c
                     /\ c \in machine.online => Wanted(<<1, c>>)
  BY <1>7, Pairs DEF Wanted, HasDomain
<1>9. phase' \in {"capacity", "attach"}
  BY phase = "capacity" DEF Onward
<1>10. \A d : (Constructed(d)' <=> Wanted(d)) /\ (Grouped(d)' <=> Wanted(d))
  BY <1>3, <1>9 DEF Constructed, Grouped
<1>11. CASE sd[tmp_sd].parent # NULL
  <2>1. tmp_sd' = Up(tmp_sd) /\ phase' = "capacity" /\ cpu' = cpu
    BY <1>11, <1>1, phase = "capacity" DEF Onward
  <2>2. Up(tmp_sd)[1] = l + 1 /\ Up(tmp_sd)[2] = cpu BY <1>1 DEF Up
  <2>3. Stands' BY <1>1, <1>3, <1>6, <1>11, <2>1, <2>2 DEF Stands, AtDomain
  <2>4. ASSUME NEW d \in Domain, Wanted(d)
        PROVE  Weighed(d)' <=> Weighed(d) \/ d = tmp_sd
    <3>1. Weighed(d)' <=> d[2] > cpu \/ (d[2] = cpu /\ d[1] < l + 1)
      BY <2>1, <2>2 DEF Weighed
    <3>2. d[1] \in Nat /\ l \in Nat BY <1>1, <1>2, <1>5
    <3> HIDE DEF l
    <3>3. d[1] < l + 1 <=> d[1] < l \/ d[1] = l BY <3>2
    <3> QED BY <1>1, <1>4, <1>5, <3>1, <3>3 DEF l
  <2> QED BY <1>9, <1>10, <2>3, <2>4
<1>12. CASE sd[tmp_sd].parent = NULL
  <2>1. ASSUME NEW d \in Domain, Wanted(d)
        PROVE  d[2] > cpu \/ d[2] = cpu <=> Weighed(d) \/ d = tmp_sd
    <3>1. d[1] \in Nat /\ l \in Nat BY <1>1, <1>2, <1>5
    <3>2. d[2] = cpu => d[1] <= l BY <1>1, <1>12, <2>1
    <3> HIDE DEF l
    <3>3. d[1] <= l <=> d[1] < l \/ d[1] = l BY <3>1
    <3> QED BY <1>1, <1>4, <1>5, <3>2, <3>3 DEF l
  <2>2. CASE CpuBefore(cpu) # NoCpu
    <3>1. tmp_sd' = <<1, CpuBefore(cpu)>> /\ phase' = "capacity" /\ cpu' = CpuBefore(cpu)
      BY <1>12, <2>2, phase = "capacity" DEF Onward
    <3>2. /\ cpu' \in machine.online
          /\ \A x \in machine.online : x > cpu' <=> x >= cpu
      BY <1>1, <2>2, <3>1, CpuOrder DEF MachineIs
    <3>3. Stands' BY <1>2, <1>3, <1>6, <1>8, <3>1, <3>2 DEF Stands, AtDomain
    <3>4. ASSUME NEW d \in Domain, Wanted(d)
          PROVE  Weighed(d)' <=> Weighed(d) \/ d = tmp_sd
      <4>1. Weighed(d)' <=> d[2] > cpu'
        BY <1>2, <1>5, <1>7, <1>8, <3>1, <3>2 DEF Weighed
      <4>2. d[2] \in Nat /\ cpu \in Nat BY <1>1, <1>2, <1>5
      <4>3. d[2] >= cpu <=> d[2] > cpu \/ d[2] = cpu BY <4>2
      <4> QED BY <2>1, <3>2, <3>4, <4>1, <4>3 DEF Wanted
    <3> QED BY <1>9, <1>10, <3>3, <3>4
  <2>3. CASE CpuBefore(cpu) = NoCpu
    <3>1. tmp_sd' = <<1, first_online>> /\ phase' = "attach" /\ cpu' = first_online
      BY <1>12, <2>3 DEF Onward
    <3>2. first_online \in machine.online /\ \A x \in machine.online : x >= cpu
      BY <1>1, <2>3, CpuOrder DEF MachineIs
    <3>3. Stands' BY <1>6, <3>1, <3>2 DEF Stands
    <3>4. ASSUME NEW d \in Domain, Wanted(d)
          PROVE  Weighed(d)' <=> Weighed(d) \/ d = tmp_sd
      <4>1. Weighed(d)' BY <3>1 DEF Weighed
      <4>2. d[2] >= cpu /\ d[2] \in Nat /\ cpu \in Nat BY <1>1, <1>2, <1>5, <3>2, <3>4 DEF Wanted
      <4>3. d[2] > cpu \/ d[2] = cpu BY <4>2
      <4> QED BY <2>1, <3>4, <4>1, <4>3
    <3> QED BY <1>9, <1>10, <3>3, <3>4
  <2> QED BY <2>2, <2>3
<1> QED BY <1>11, <1>12

-----------------------------------------------------------------------------
(* The rings.                                                              *)

LEMMA GetGroup ==
    ASSUME IInv, phase = "groups", NEW x \in Span(machine, tmp_sd[1], cpu)
    PROVE  LET g == GroupSpan(machine, tmp_sd[1], x)
           IN  /\ get_group(tmp_sd[1], x) = [sgc |-> SgcOf(tmp_sd[1], g), span |-> g]
               /\ g \in Groups(machine, tmp_sd[1], cpu)
<1> DEFINE l == tmp_sd[1]
           g == GroupSpan(machine, l, x)
           d == <<l, x>>
<1>1. /\ IsMachine(machine) /\ l \in Level /\ cpu \in machine.online
      /\ machine.online \subseteq CPU /\ HasDomain(machine, l, cpu)
  BY StandsAt
<1>2. x \in machine.online /\ x \in CPU /\ HasDomain(machine, l, x) BY <1>1, SiblingHasDomain
<1>3. g \in Groups(machine, l, cpu) BY DEF Groups
<1>4. \A k \in Level : HasDomain(machine, k, x) =>
         /\ <<k, x>> \in Domain /\ Shaped(<<k, x>>)
         /\ sd[<<k, x>>].span = Span(machine, k, x) /\ sd[<<k, x>>].child = ChildOf(<<k, x>>)
  <2> SUFFICES ASSUME NEW k \in Level, HasDomain(machine, k, x)
               PROVE  <<k, x>> \in Domain /\ Shaped(<<k, x>>)
    BY DEF Shaped
  <2>1. <<k, x>> \in Domain BY <1>2 DEF Domain
  <2>2. Constructed(<<k, x>>) BY <1>2, phase = "groups" DEF Constructed, Wanted
  <2> QED BY <2>1, <2>2 DEF IInv, Shapes
<1>5. CASE l = 1
  <2>1. sd[d].child = NULL BY <1>1, <1>2, <1>4, <1>5 DEF ChildOf
  <2>2. g = {x} BY <1>5 DEF GroupSpan
  <2>3. Min({x}) = x
    <3>1. {x} \in SUBSET Nat /\ {x} # {} BY <1>2, NrCpuAssumption DEF CPU
    <3> QED BY <3>1, MinNat
  <2> QED BY <1>3, <2>1, <2>2, <2>3 DEF get_group, SgcOf
<1>6. CASE l # 1
  <2>1. l - 1 \in Level /\ HasDomain(machine, l - 1, x) BY <1>1, <1>2, <1>6, ChildHasDomain
  <2>2. sd[d].child = <<l - 1, x>> /\ <<l - 1, x>> # NULL
    BY <1>1, <1>2, <1>4, <1>6, <2>1, Pairs DEF ChildOf
  <2>3. sd[<<l - 1, x>>].span = g BY <1>4, <1>6, <2>1 DEF GroupSpan
  <2>4. find_first_bit(g) = Min(g) BY <1>1, <1>3, GroupKey
  <2> QED BY <1>3, <2>2, <2>3, <2>4 DEF get_group, SgcOf
<1> QED BY <1>5, <1>6

\* The first k groups of the ring of the domain the loop stands at.
Prefix(k) == [covered |-> UNION {RingAt(tmp_sd)[n] : n \in 1 .. k},
              ring |-> [n \in 1 .. k |-> Entry(tmp_sd[1], RingAt(tmp_sd)[n], 0)]]

\* A round adds the group of its CPU, if that is the CPU by which the group is
\* nearest, and no group comes before.
LEMMA RoundAdds ==
    ASSUME IInv, phase = "groups", NEW at \in Span(machine, tmp_sd[1], cpu),
           NEW K \in {0} \cup DOMAIN RingAt(tmp_sd),
           \A n \in DOMAIN RingAt(tmp_sd) :
              n <= K <=> Distance(cpu, RingAt(tmp_sd)[n]) < Away(cpu, at),
           built = Prefix(K)
    PROVE  \E L \in DOMAIN RingAt(tmp_sd) :
              /\ \A n \in DOMAIN RingAt(tmp_sd) :
                    n <= L <=> Distance(cpu, RingAt(tmp_sd)[n]) <= Away(cpu, at)
              /\ AddGroup(tmp_sd[1], at) = Prefix(L)
              /\ IF at \in built.covered THEN L = K
                 ELSE L = K + 1 /\ RingAt(tmp_sd)[L] = GroupSpan(machine, tmp_sd[1], at)
<1> DEFINE l == tmp_sd[1]
           R == RingAt(tmp_sd)
           S == Span(machine, l, cpu)
           A == Away(cpu, at)
           D(n) == Distance(cpu, R[n])
           g == GroupSpan(machine, l, at)
<1>1. /\ IsMachine(machine) /\ l \in Level /\ cpu \in machine.online /\ cpu \in CPU
      /\ machine.online \subseteq CPU /\ tmp_sd[2] = cpu
  BY StandsAt
<1>2. S \subseteq CPU BY <1>1, SpanOf
<1>3. PICK size \in Nat \ {0} :
         /\ DOMAIN R = 1 .. size
         /\ \A n \in 1 .. size : R[n] \in Groups(machine, l, cpu) /\ R[n] \subseteq S /\ D(n) \in Nat
         /\ \A x \in S : \E n \in 1 .. size : R[n] = GroupSpan(machine, l, x) /\ x \in R[n]
         /\ \A n, k \in 1 .. size : n # k => R[n] \cap R[k] = {}
         /\ \A n, k \in 1 .. size : n < k => D(n) < D(k)
  BY <1>1, RingSplits DEF RingAt
<1>4. get_group(l, at) = [sgc |-> SgcOf(l, g), span |-> g] BY GetGroup
<1> HIDE DEF R, S, A, D, g
<1>5. PICK j \in 1 .. size : R[j] = g /\ at \in R[j] BY <1>3 DEF g, S
<1>6. A \in Nat BY <1>1, <1>2, AwayIs DEF A, S
<1>7. \A n \in 1 .. size : D(n) = A => n = j
  <2> SUFFICES ASSUME NEW n \in 1 .. size, D(n) = A PROVE n = j
    OBVIOUS
  <2>0. R[n] \in Groups(machine, l, cpu) BY <1>3
  <2>1. R[n] \in SUBSET CPU /\ R[n] # {} BY <1>1, <2>0, GroupKey
  <2>2. PICK x \in R[n] : D(n) = Away(cpu, x) BY <1>1, <2>1, NearestOfGroup DEF D
  <2>3. x \in CPU /\ at \in CPU /\ Away(cpu, x) = Away(cpu, at) BY <1>2, <2>1, <2>2 DEF A, S
  <2>4. \A y \in CPU : Away(cpu, y) = IF y >= cpu THEN y - cpu ELSE y - cpu + NR_CPU
    BY <1>1, AwayIs
  <2>5. x = at BY <1>1, <2>3, <2>4, NrCpuAssumption DEF CPU
  <2> QED BY <1>3, <1>5, <2>2, <2>5
<1>8. D(j) <= A
  <2>0. R[j] \in Groups(machine, l, cpu) BY <1>3
  <2>1. R[j] \in SUBSET CPU /\ R[j] # {} BY <1>1, <2>0, GroupKey
  <2> QED BY <1>1, <1>5, <2>1, NearestOfGroup DEF D, A
<1>9. K \in 0 .. size /\ \A n \in 1 .. size : n <= K <=> D(n) < A BY <1>3 DEF R, D, A
<1>10. /\ built.covered = UNION {R[n] : n \in 1 .. K}
       /\ built.ring = [n \in 1 .. K |-> Entry(l, R[n], 0)]
  BY built = Prefix(K) DEF Prefix, R
<1>11. at \in built.covered <=> j <= K
  <2>1. ASSUME NEW n \in 1 .. K, at \in R[n] PROVE n = j
    <3>1. n \in 1 .. size BY <1>9
    <3> QED BY <1>3, <1>5, <2>1, <3>1
  <2>2. j <= K => j \in 1 .. K BY <1>5
  <2>3. at \in built.covered <=> \E n \in 1 .. K : at \in R[n] BY <1>10
  <2> QED BY <1>5, <1>9, <2>1, <2>2, <2>3
<1>12. CASE j <= K
  <2>1. K \in 1 .. size BY <1>5, <1>9, <1>12
  <2>2. \A n \in 1 .. size : n <= K <=> D(n) <= A
    <3> SUFFICES ASSUME NEW n \in 1 .. size PROVE n <= K <=> D(n) <= A
      OBVIOUS
    <3>1. D(n) \in Nat BY <1>3
    <3>2. D(n) <= A <=> D(n) < A \/ D(n) = A BY <1>6, <3>1
    <3> QED BY <1>7, <1>9, <1>12, <3>2
  <2>3. AddGroup(l, at) = Prefix(K) BY <1>11, <1>12, built = Prefix(K) DEF AddGroup
  <2> QED BY <1>3, <1>11, <1>12, <2>1, <2>2, <2>3 DEF R, D, A
<1>13. CASE j > K
  <2>1. D(j) = A /\ j \in Nat /\ K \in Nat BY <1>3, <1>5, <1>6, <1>8, <1>9, <1>13
  <2>2. j = K + 1
    <3> SUFFICES ASSUME K + 1 < j PROVE FALSE
      BY <1>13, <2>1
    <3>1. K + 1 \in 1 .. size BY <1>5, <1>9
    <3>2. D(K + 1) < A BY <1>3, <1>5, <2>1, <3>1
    <3>3. K + 1 <= K BY <1>9, <3>1, <3>2
    <3> QED BY <2>1, <3>3
  <2>3. \A n \in 1 .. size : n <= j <=> D(n) <= A
    <3> SUFFICES ASSUME NEW n \in 1 .. size PROVE n <= j <=> D(n) <= A
      OBVIOUS
    <3>1. D(n) \in Nat BY <1>3
    <3>2. D(n) <= A <=> D(n) < A \/ D(n) = A BY <1>6, <3>1
    <3>3. n <= j <=> n <= K \/ n = j BY <2>1, <2>2
    <3> QED BY <1>7, <1>9, <2>1, <3>2, <3>3
  <2>4. AddGroup(l, at) = Prefix(j)
    <3>1. at \notin built.covered BY <1>11, <1>13, <2>1
    <3>2. AddGroup(l, at) = [covered |-> built.covered \cup g,
                             ring |-> Append(built.ring, Entry(l, g, 0))]
      BY <1>4, <3>1 DEF AddGroup, Entry
    <3>3. 1 .. j = (1 .. K) \cup {j} BY <2>1, <2>2
    <3>4. built.covered \cup g = UNION {R[n] : n \in 1 .. j} BY <1>5, <1>10, <3>3
    <3>5. Append(built.ring, Entry(l, g, 0)) = [n \in 1 .. j |-> Entry(l, R[n], 0)]
      <4> DEFINE T == {Entry(l, R[n], 0) : n \in 1 .. j}
                 q == [n \in 1 .. K |-> Entry(l, R[n], 0)]
                 r == [n \in 1 .. j |-> Entry(l, R[n], 0)]
                 e == Entry(l, g, 0)
      <4>1. q \in [1 .. K -> T] /\ r \in [1 .. j -> T] /\ e \in T
        BY <1>5, <3>3
      <4>2. /\ \A n \in 1 .. K : n \in 1 .. j /\ r[n] = q[n]
            /\ r[j] = e
        BY <1>5, <3>3
      <4> HIDE DEF T, q, r, e
      <4>3. q \in Seq(T) /\ Len(q) = K /\ r \in Seq(T) /\ Len(r) = j BY <2>1, <4>1
      <4>4. Append(q, e) = r
        <5>1. /\ Append(q, e) \in Seq(T) /\ Len(Append(q, e)) = j
              /\ \A n \in 1 .. K : Append(q, e)[n] = q[n]
              /\ Append(q, e)[j] = e
          BY <2>1, <2>2, <4>1, <4>3, AppendProperties
        <5>2. \A n \in 1 .. j : Append(q, e)[n] = r[n] BY <3>3, <4>2, <5>1
        <5> QED BY <4>3, <5>1, <5>2, SeqEqual
      <4> QED BY <1>10, <4>4 DEF q, r, e
    <3> QED BY <3>2, <3>4, <3>5 DEF Prefix, R
  <2>5. ~(j <= K) /\ j \in 1 .. size BY <1>5, <1>13, <2>1
  <2> QED BY <1>3, <1>5, <1>11, <2>2, <2>3, <2>4, <2>5 DEF R, D, A, g
<1>14. j <= K \/ j > K BY <1>5, <1>9
<1> QED BY <1>12, <1>13, <1>14

\* Where the loop variable is in a round, and what has been made before it.
LEMMA RoundAt ==
    ASSUME IInv, phase = "groups"
    PROVE  LET span == sd[tmp_sd].span
               start == find_next_bit(span, cpu - 1)
               at == IF i = NoCpu THEN start ELSE i
           IN  /\ span = Span(machine, tmp_sd[1], cpu) /\ span \in Mask /\ cpu \in span
               /\ start = cpu /\ at \in span
               /\ \E K \in {0} \cup DOMAIN RingAt(tmp_sd) :
                     /\ built = Prefix(K)
                     /\ \A n \in DOMAIN RingAt(tmp_sd) :
                           n <= K <=> Distance(cpu, RingAt(tmp_sd)[n]) < Away(cpu, at)
                     /\ \A n \in 1 .. K : Recorded(tmp_sd[1], RingAt(tmp_sd)[n])
<1> DEFINE l == tmp_sd[1]
           span == sd[tmp_sd].span
           start == find_next_bit(span, cpu - 1)
           at == IF i = NoCpu THEN start ELSE i
           R == RingAt(tmp_sd)
<1>1. /\ IsMachine(machine) /\ l \in Level /\ cpu \in machine.online /\ cpu \in CPU
      /\ machine.online \subseteq CPU /\ tmp_sd[2] = cpu
      /\ span = Span(machine, l, cpu)
  BY StandsAt DEF Shaped
<1>2. cpu \in span /\ span \in Mask BY <1>1, SpanOf DEF Mask
<1>3. start = cpu BY <1>2, WalkOrder
<1>4. CASE i = NoCpu /\ built = NoGroups
  <2>1. at = cpu BY <1>3, <1>4
  <2>2. Away(cpu, at) = 0 BY <1>1, <2>1, AwayIs
  <2>3. ASSUME NEW n \in DOMAIN R
        PROVE  n <= 0 <=> Distance(cpu, R[n]) < Away(cpu, at)
    <3>1. PICK size \in Nat \ {0} :
             /\ DOMAIN R = 1 .. size
             /\ \A k \in 1 .. size : Distance(cpu, R[k]) \in Nat
      BY <1>1, RingSplits DEF RingAt
    <3> HIDE DEF R, at
    <3>2. n \in 1 .. size /\ Distance(cpu, R[n]) \in Nat BY <2>3, <3>1
    <3> QED BY <2>2, <3>2
  <2>4. built = Prefix(0)
    <3>1. 1 .. 0 = {} OBVIOUS
    <3>2. [n \in {} |-> Entry(tmp_sd[1], RingAt(tmp_sd)[n], 0)] = <<>>
      OBVIOUS
    <3> QED BY <1>4, <3>1, <3>2 DEF Prefix, NoGroups
  <2>5. \A n \in 1 .. 0 : FALSE OBVIOUS
  <2> HIDE DEF R
  <2>6. \E K \in {0} \cup DOMAIN R :
           /\ built = Prefix(K)
           /\ \A n \in DOMAIN R : n <= K <=> Distance(cpu, R[n]) < Away(cpu, at)
           /\ \A n \in 1 .. K : Recorded(l, R[n])
    BY <2>3, <2>4, <2>5
  <2> QED BY <1>1, <1>2, <1>3, <2>1, <2>6 DEF R
<1>5. CASE ~(i = NoCpu /\ built = NoGroups)
  <2>1. /\ i \in span
        /\ \E k \in DOMAIN R :
              /\ \A n \in DOMAIN R : n <= k <=> Distance(cpu, R[n]) < Away(cpu, i)
              /\ built = Prefix(k)
              /\ \A n \in 1 .. k : Recorded(l, R[n])
    BY <1>1, <1>5 DEF IInv, HalfRing, Prefix
  <2>2. i # NoCpu BY <1>2, <2>1, NrCpuAssumption DEF Mask, CPU, NoCpu
  <2>3. at = i BY <2>2
  <2> QED BY <1>1, <1>2, <1>3, <2>1, <2>3
<1> QED BY <1>4, <1>5

LEMMA GroupsKeeps == IInv /\ build_sched_groups => IInv'
<1> SUFFICES ASSUME IInv, build_sched_groups PROVE IInv'
  OBVIOUS
<1> DEFINE l == tmp_sd[1]
           span == sd[tmp_sd].span
           start == find_next_bit(span, cpu - 1)
           at == IF i = NoCpu THEN start ELSE i
           next == find_next_bit(span, at)
           g == get_group(l, at)
           more == AddGroup(l, at)
           R == RingAt(tmp_sd)
           D(n) == Distance(cpu, R[n])
           Stays(k, h) == sgc'[SgcOf(k, h)].span = h /\ sgc'[SgcOf(k, h)].capacity = Capacity(h)
<1>1. phase = "groups" /\ machine' = machine BY DEF build_sched_groups
<1>2. /\ sgc' = IF at \in built.covered THEN sgc ELSE [sgc EXCEPT ![g.sgc] = FreshSgc(g)]
      /\ next \in {start, NoCpu} =>
            /\ sd' = [sd EXCEPT ![tmp_sd].groups = more.ring]
            /\ i' = NoCpu /\ built' = NoGroups
            /\ Onward(CpuAfter(cpu), "capacity", last_online)
      /\ next \notin {start, NoCpu} =>
            i' = next /\ built' = more /\ phase' = phase /\ cpu' = cpu /\ tmp_sd' = tmp_sd /\ sd' = sd
  BY DEF build_sched_groups
<1>3. /\ tmp_sd \in Domain /\ l \in Level /\ tmp_sd[2] = cpu /\ Wanted(tmp_sd)
      /\ IsMachine(machine) /\ cpu \in machine.online /\ cpu \in CPU
      /\ machine.online \subseteq CPU /\ Shaped(tmp_sd)
  BY <1>1, StandsAt
<1>4. /\ span = Span(machine, l, cpu) /\ span \in Mask /\ cpu \in span
      /\ start = cpu /\ at \in span
      /\ \E K \in {0} \cup DOMAIN R :
            /\ built = Prefix(K)
            /\ \A n \in DOMAIN R : n <= K <=> D(n) < Away(cpu, at)
            /\ \A n \in 1 .. K : Recorded(l, R[n])
  BY <1>1, RoundAt
<1>5. PICK K \in {0} \cup DOMAIN R :
            /\ built = Prefix(K)
            /\ \A n \in DOMAIN R : n <= K <=> D(n) < Away(cpu, at)
            /\ \A n \in 1 .. K : Recorded(l, R[n])
  BY <1>4
<1>6. /\ g = [sgc |-> SgcOf(l, GroupSpan(machine, l, at)), span |-> GroupSpan(machine, l, at)]
      /\ GroupSpan(machine, l, at) \in Groups(machine, l, cpu)
  BY <1>1, <1>4, GetGroup
<1>7. /\ next \in {start, NoCpu} => \A y \in span : Away(cpu, y) <= Away(cpu, at)
      /\ next \notin {start, NoCpu} =>
            /\ next \in span
            /\ \A y \in span : Away(cpu, y) < Away(cpu, next) <=> Away(cpu, y) <= Away(cpu, at)
  BY <1>4, WalkOrder
<1> DEFINE Reached(L) ==
              /\ L \in DOMAIN R
              /\ \A n \in DOMAIN R : n <= L <=> D(n) <= Away(cpu, at)
              /\ more = Prefix(L)
              /\ IF at \in built.covered THEN L = K
                 ELSE L = K + 1 /\ R[L] = GroupSpan(machine, l, at)
<1>8. PICK L \in DOMAIN R : Reached(L)
  <2>1. at \in Span(machine, l, cpu) BY <1>4
  <2> HIDE DEF at
  <2> QED BY <1>1, <1>5, <2>1, RoundAdds
<1>9. PICK size \in Nat \ {0} :
         /\ DOMAIN R = 1 .. size
         /\ \A n \in 1 .. size : R[n] \in Groups(machine, l, cpu) /\ R[n] \subseteq span /\ D(n) \in Nat
  BY <1>3, <1>4, RingSplits DEF RingAt
<1>10. ASSUME NEW k \in Level, NEW x \in machine.online, NEW h \in Groups(machine, k, x),
              Recorded(k, h)
       PROVE  Stays(k, h)
  <2> DEFINE h0 == GroupSpan(machine, l, at)
  <2>1. SgcOf(k, h) \in Domain BY <1>3, GroupKey
  <2>2. CASE SgcOf(k, h) = SgcOf(l, h0)
    <3>1. k = l /\ h = h0 BY <1>3, <1>6, <2>2, SameKey
    <3>2. sgc'[SgcOf(k, h)].span = h /\ sgc'[SgcOf(k, h)].capacity = Capacity(h)
      <4>1. CASE at \in built.covered BY <1>2, <1>10, <4>1 DEF Recorded
      <4>2. CASE at \notin built.covered
        <5>1. sgc'[SgcOf(k, h)] = FreshSgc(g)
          BY <1>2, <1>6, <2>1, <2>2, <4>2 DEF IInv, Records
        <5>2. g.span = h BY <1>6, <3>1
        <5> QED BY <5>1, <5>2 DEF FreshSgc, Capacity, cpumask_weight
      <4> QED BY <4>1, <4>2
    <3> QED BY <3>2
  <2>3. CASE SgcOf(k, h) # SgcOf(l, h0)
    <3>1. sgc'[SgcOf(k, h)] = sgc[SgcOf(k, h)]
      BY <1>2, <1>6, <2>1, <2>3 DEF IInv, Records
    <3> QED BY <1>10, <3>1 DEF Recorded
  <2> QED BY <2>2, <2>3
<1>11. \A n \in 1 .. L : Stays(l, R[n])
  <2> SUFFICES ASSUME NEW n \in 1 .. L PROVE Stays(l, R[n])
    OBVIOUS
  <2>1. n \in 1 .. size /\ R[n] \in Groups(machine, l, cpu) BY <1>8, <1>9
  <2>2. CASE n \in 1 .. K BY <1>3, <1>5, <1>10, <2>1, <2>2
  <2>3. CASE n \notin 1 .. K
    <3>1. at \notin built.covered /\ R[n] = GroupSpan(machine, l, at)
      BY <1>5, <1>8, <1>9, <2>1, <2>3
    <3>2. SgcOf(l, R[n]) \in Domain BY <1>3, <2>1, GroupKey
    <3>3. sgc'[SgcOf(l, R[n])] = FreshSgc(g) /\ g.span = R[n]
      BY <1>2, <1>6, <3>1, <3>2 DEF IInv, Records
    <3> QED BY <3>3 DEF FreshSgc, Capacity, cpumask_weight
  <2> QED BY <2>2, <2>3
<1>12. DOMAIN sgc' = Domain /\ \A d \in Domain : {"capacity", "min_capacity", "span"} \subseteq DOMAIN sgc'[d]
  BY <1>2, <1>6 DEF IInv, Records, FreshSgc
<1>13. \A d \in Domain : Wanted(d) => \A n \in DOMAIN RingAt(d) :
          RingAt(d)[n] \in Groups(machine, d[1], d[2])
  <2> SUFFICES ASSUME NEW d \in Domain, Wanted(d), NEW n \in DOMAIN RingAt(d)
               PROVE  RingAt(d)[n] \in Groups(machine, d[1], d[2])
    OBVIOUS
  <2>1. d[1] \in Level /\ d[2] \in machine.online BY Pairs DEF Wanted
  <2> QED BY <1>3, <2>1, RingSplits DEF RingAt
<1>14. \A d \in Domain : Grouped(d) => \A n \in DOMAIN RingAt(d) : Stays(d[1], RingAt(d)[n])
  <2> SUFFICES ASSUME NEW d \in Domain, Grouped(d), NEW n \in DOMAIN RingAt(d)
               PROVE  Stays(d[1], RingAt(d)[n])
    OBVIOUS
  <2>1. d[1] \in Level /\ d[2] \in machine.online /\ Wanted(d) BY Pairs DEF Grouped, Wanted
  <2>2. Recorded(d[1], RingAt(d)[n]) BY DEF IInv, Records
  <2>3. RingAt(d)[n] \in Groups(machine, d[1], d[2]) BY <1>13, <2>1
  <2> QED BY <1>10, <2>1, <2>2, <2>3
<1>15. \A d : RingAt(d)' = RingAt(d) BY <1>1 DEF RingAt
<1>16. CASE next \in {start, NoCpu}
  <2>1. /\ sd' = [sd EXCEPT ![tmp_sd].groups = more.ring]
        /\ i' = NoCpu /\ built' = NoGroups
        /\ Onward(CpuAfter(cpu), "capacity", last_online)
    BY <1>2, <1>16
  <2>2. /\ Stands' /\ phase' \in {"groups", "capacity"}
        /\ \A d \in Domain :
              /\ Constructed(d)' <=> Wanted(d)
              /\ Grouped(d)' <=> Grouped(d) \/ d = tmp_sd
              /\ Wanted(d) => ~Weighed(d)'
    BY <1>1, <2>1, OnwardUp
  <2>3. L = size
    <3> DEFINE h == R[size]
    <3>1. h \in Groups(machine, l, cpu) /\ h \subseteq span BY <1>9
    <3>2. h \in SUBSET CPU /\ h # {} BY <1>3, <3>1, GroupKey
    <3>3. PICK x \in h : D(size) = Away(cpu, x) BY <1>3, <3>2, NearestOfGroup
    <3>4. D(size) <= Away(cpu, at) BY <1>7, <1>16, <3>1, <3>3
    <3>5. size <= L BY <1>8, <1>9, <3>4
    <3> QED BY <1>8, <1>9, <3>5
  <2>4. more.ring = [n \in 1 .. size |-> Entry(l, R[n], 0)] BY <1>8, <2>3 DEF Prefix
  <2>5. Records'
    <3> SUFFICES ASSUME NEW d \in Domain, Grouped(d)', NEW n \in DOMAIN RingAt(d)
                 PROVE  Stays(d[1], RingAt(d)[n])
      BY <1>12, <1>15 DEF Records, Recorded
    <3>1. CASE d = tmp_sd
      <4>1. n \in 1 .. L BY <1>9, <2>3, <3>1
      <4> QED BY <1>11, <3>1, <4>1
    <3>2. CASE d # tmp_sd BY <1>14, <2>2, <3>2
    <3> QED BY <3>1, <3>2
  <2>6. Shapes'
    <3>1. DOMAIN sd' = Domain BY <2>1 DEF IInv, Shapes
    <3>2. ASSUME NEW d \in Domain
          PROVE  IF Constructed(d)' THEN Shaped(d)' ELSE sd'[d] = Unbuilt
      <4>1. Constructed(d)' <=> Constructed(d)
        BY <1>1, <2>2 DEF Constructed
      <4>2. IF Constructed(d) THEN Shaped(d) ELSE sd[d] = Unbuilt BY DEF IInv, Shapes
      <4>3. d[1] < NrLevel => (Constructed(Up(d))' <=> Constructed(Up(d)))
        <5>1. d[1] < NrLevel => Up(d) \in Domain
          BY Pairs DEF Up, Domain, Level, NrLevel
        <5> QED BY <1>1, <2>2, <5>1 DEF Constructed
      <4>4. CASE d = tmp_sd
        <5>1. /\ Constructed(d)' /\ Grouped(d)' /\ ~Weighed(d)' /\ Shaped(d)
          BY <1>3, <2>2, <4>4
        <5>2. RingAs(d)' = [n \in 1 .. size |-> Entry(l, R[n], 0)]
          BY <1>9, <1>15, <4>4, <5>1 DEF RingAs, Entry
        <5>3. /\ sd'[d].span = sd[d].span /\ sd'[d].child = sd[d].child
              /\ sd'[d].parent = sd[d].parent /\ sd'[d].groups = more.ring
              /\ DOMAIN sd'[d] = DOMAIN sd[d]
          BY <2>1, <4>4, <5>1 DEF IInv, Shapes, Shaped
        <5> QED BY <1>1, <2>4, <4>3, <5>1, <5>2, <5>3 DEF Shaped, ChildOf, Up
      <4>5. CASE d # tmp_sd
        <5>1. sd'[d] = sd[d] BY <2>1, <4>5 DEF IInv, Shapes
        <5>2. Grouped(d)' <=> Grouped(d) BY <2>2, <4>5
        <5>3. Grouped(d) => RingAs(d)' = RingAs(d)
          <6> SUFFICES ASSUME Grouped(d) PROVE RingAs(d)' = RingAs(d)
            OBVIOUS
          <6>1. ~Weighed(d) /\ ~Weighed(d)'
            BY <1>1, <2>2 DEF Grouped, Weighed
          <6> QED BY <1>15, <6>1 DEF RingAs, Entry
        <5>4. Constructed(d) => Shaped(d)'
          <6> SUFFICES ASSUME Constructed(d) PROVE Shaped(d)'
            OBVIOUS
          <6>1. Shaped(d) BY <4>2
          <6> QED BY <1>1, <4>3, <5>1, <5>2, <5>3, <6>1 DEF Shaped, ChildOf, Up
        <5> QED BY <4>1, <4>2, <5>1, <5>4
      <4> QED BY <4>4, <4>5
    <3> QED BY <3>1, <3>2 DEF Shapes
  <2>7. HalfRing' BY <2>1 DEF HalfRing, NoGroups
  <2> QED BY <2>2, <2>5, <2>6, <2>7 DEF IInv
<1>17. CASE next \notin {start, NoCpu}
  <2>1. i' = next /\ built' = more /\ phase' = phase /\ cpu' = cpu /\ tmp_sd' = tmp_sd /\ sd' = sd
    BY <1>2, <1>17
  <2>2. Stands' BY <1>1, <2>1 DEF IInv, Stands, AtDomain, Wanted
  <2>3. \A d : Grouped(d)' <=> Grouped(d) BY <1>1, <2>1 DEF Grouped, Wanted, Before
  <2>4. Records' BY <1>12, <1>14, <1>15, <2>3 DEF Records, Recorded
  <2>5. \A d : (Constructed(d)' <=> Constructed(d)) /\ (Weighed(d)' <=> Weighed(d))
    BY <1>1, <2>1 DEF Constructed, Wanted, Before, Weighed
  <2>6. Shapes'
    <3>1. \A d : RingAs(d)' = RingAs(d) BY <1>1, <1>15, <2>5 DEF RingAs, Entry
    <3>2. \A d \in Domain : Shaped(d)' <=> Shaped(d)
      BY <1>1, <2>1, <2>3, <2>5, <3>1 DEF Shaped, ChildOf, Up
    <3> QED BY <2>1, <2>5, <3>2 DEF IInv, Shapes
  <2>7. \A n \in DOMAIN R : n <= L <=> D(n) < Away(cpu, next)
    <3> SUFFICES ASSUME NEW n \in DOMAIN R PROVE n <= L <=> D(n) < Away(cpu, next)
      OBVIOUS
    <3>1. R[n] \in Groups(machine, l, cpu) /\ R[n] \subseteq span BY <1>9
    <3>2. R[n] \in SUBSET CPU /\ R[n] # {} BY <1>3, <3>1, GroupKey
    <3>3. PICK x \in R[n] : D(n) = Away(cpu, x) BY <1>3, <3>2, NearestOfGroup
    <3> QED BY <1>7, <1>8, <1>17, <3>1, <3>3
  <2>8. HalfRing'
    <3>1. i' \in Span(machine, l, cpu) BY <1>4, <1>7, <1>17, <2>1
    <3>2. R' = R BY <1>15, <2>1 DEF RingAt
    <3>3. built' = Prefix(L) BY <1>8, <2>1
    <3>4. Prefix(L)' = Prefix(L) BY <2>1, <3>2 DEF Prefix, Entry
    <3>5. \A n \in 1 .. L : Recorded(tmp_sd[1], R[n])'
      BY <1>11, <2>1, <3>2 DEF Recorded
    <3>6. \A n \in DOMAIN R' : n <= L <=> Distance(cpu', R'[n]) < Away(cpu', i')
      BY <2>1, <2>7, <3>2
    <3>7. L \in DOMAIN R' BY <1>8, <3>2
    <3>8. (/\ phase = "groups" /\ i \in Span(machine, tmp_sd[1], cpu)
           /\ \E k \in DOMAIN RingAt(tmp_sd) :
                 /\ \A n \in DOMAIN RingAt(tmp_sd) :
                       n <= k <=> Distance(cpu, RingAt(tmp_sd)[n]) < Away(cpu, i)
                 /\ built = Prefix(k)
                 /\ \A n \in 1 .. k : Recorded(tmp_sd[1], RingAt(tmp_sd)[n]))'
      BY <1>1, <2>1, <3>1, <3>3, <3>4, <3>5, <3>6, <3>7
    <3> QED BY <3>8 DEF HalfRing, Prefix
  <2> QED BY <2>2, <2>4, <2>6, <2>8 DEF IInv
<1> QED BY <1>16, <1>17

-----------------------------------------------------------------------------
(* The capacities.                                                         *)

\* What a domain is known by once the rings are built.
LEMMA RingKnown ==
    ASSUME IInv, phase \in {"capacity", "attach", "done"}, NEW d \in Domain, Wanted(d)
    PROVE  /\ sd[d].child = ChildOf(d) /\ sd[d].groups = RingAs(d)
           /\ \E size \in Nat \ {0} :
                 /\ DOMAIN RingAt(d) = 1 .. size
                 /\ RingAt(d)[1] = GroupSpan(machine, d[1], d[2])
                 /\ UNION {RingAt(d)[n] : n \in 1 .. size} = Span(machine, d[1], d[2])
                 /\ \A n, k \in 1 .. size : n # k => RingAt(d)[n] \cap RingAt(d)[k] = {}
                 /\ \A n \in 1 .. size :
                       /\ RingAt(d)[n] \in Groups(machine, d[1], d[2])
                       /\ Recorded(d[1], RingAt(d)[n])
<1>1. IsMachine(machine) /\ d[1] \in Level /\ d[2] \in machine.online
  BY MachineOK, Pairs DEF Wanted, IInv, MachineIs
<1>2. Constructed(d) /\ Grouped(d)
  BY phase \in {"capacity", "attach", "done"} DEF Constructed, Grouped
<1>3. Shaped(d) BY <1>2 DEF IInv, Shapes
<1>4. PICK size \in Nat \ {0} :
         /\ DOMAIN RingAt(d) = 1 .. size
         /\ RingAt(d)[1] = GroupSpan(machine, d[1], d[2])
         /\ \A n \in 1 .. size :
               /\ RingAt(d)[n] \in Groups(machine, d[1], d[2])
               /\ RingAt(d)[n] \subseteq Span(machine, d[1], d[2])
         /\ \A x \in Span(machine, d[1], d[2]) : \E n \in 1 .. size : x \in RingAt(d)[n]
         /\ \A n, k \in 1 .. size : n # k => RingAt(d)[n] \cap RingAt(d)[k] = {}
  <2> DEFINE R == RingAt(d)
             S == Span(machine, d[1], d[2])
  <2>1. \E size \in Nat \ {0} :
           /\ DOMAIN R = 1 .. size /\ R[1] = GroupSpan(machine, d[1], d[2])
           /\ \A n \in 1 .. size : R[n] \in Groups(machine, d[1], d[2]) /\ R[n] \subseteq S
           /\ \A x \in S : \E n \in 1 .. size : x \in R[n]
           /\ \A n, k \in 1 .. size : n # k => R[n] \cap R[k] = {}
    BY <1>1, RingSplits DEF RingAt
  <2> QED BY <2>1
<1>5. UNION {RingAt(d)[n] : n \in 1 .. size} = Span(machine, d[1], d[2])
  BY <1>4
<1>6. \A n \in 1 .. size : Recorded(d[1], RingAt(d)[n]) BY <1>2, <1>4 DEF IInv, Records
<1> QED BY <1>2, <1>3, <1>4, <1>5, <1>6 DEF Shaped

\* The capacity that the first CPU of the local group works out.
LEMMA CapacityOfLocal ==
    ASSUME IInv, phase = "capacity"
    PROVE  LET h == GroupSpan(machine, tmp_sd[1], cpu)
               own == sgc[SgcOf(tmp_sd[1], h)]
               new == update_group_capacity(tmp_sd)
           IN  /\ sd[tmp_sd].groups[1].sgc = SgcOf(tmp_sd[1], h)
               /\ new.span = own.span /\ DOMAIN new = DOMAIN own
               /\ new.capacity = Capacity(h)
<1> DEFINE l == tmp_sd[1]
           h == GroupSpan(machine, l, cpu)
           own == sgc[SgcOf(l, h)]
           new == update_group_capacity(tmp_sd)
           child == sd[tmp_sd].child
           down == <<l - 1, cpu>>
           R == RingAt(down)
<1>1. /\ tmp_sd \in Domain /\ l \in Level /\ tmp_sd[2] = cpu /\ Wanted(tmp_sd)
      /\ tmp_sd = <<l, cpu>> /\ HasDomain(machine, l, cpu)
      /\ IsMachine(machine) /\ cpu \in machine.online /\ cpu \in CPU
  BY StandsAt, phase = "capacity"
<1>2. /\ child = ChildOf(tmp_sd) /\ sd[tmp_sd].groups = RingAs(tmp_sd)
      /\ 1 \in DOMAIN RingAt(tmp_sd) /\ RingAt(tmp_sd)[1] = h
      /\ h \in Groups(machine, l, cpu)
  <2>1. PICK size \in Nat \ {0} :
           /\ DOMAIN RingAt(tmp_sd) = 1 .. size /\ RingAt(tmp_sd)[1] = h
           /\ \A n \in 1 .. size : RingAt(tmp_sd)[n] \in Groups(machine, l, cpu)
    BY <1>1, RingKnown, phase = "capacity"
  <2>2. 1 \in 1 .. size OBVIOUS
  <2> QED BY <1>1, <2>1, <2>2, RingKnown, phase = "capacity"
<1>3. sd[tmp_sd].groups[1].sgc = SgcOf(l, h) BY <1>2 DEF RingAs, Entry
<1>4. SgcOf(l, h) \in Domain BY <1>1, <1>2, GroupKey
<1>5. {"capacity", "min_capacity", "span"} \subseteq DOMAIN own BY <1>4 DEF IInv, Records
<1>6. CASE l = 1
  <2>1. child = NULL BY <1>2, <1>6 DEF ChildOf
  <2>2. h = {cpu} BY <1>6 DEF GroupSpan
  <2>3. Cardinality(h) = 1 BY <2>2, FS_Singleton
  <2>4. new = [own EXCEPT !.capacity = SCHED_CAPACITY_SCALE, !.min_capacity = SCHED_CAPACITY_SCALE]
    BY <1>3, <2>1 DEF update_group_capacity
  <2>5. Capacity(h) = SCHED_CAPACITY_SCALE BY <2>3 DEF Capacity, SCHED_CAPACITY_SCALE
  <2> HIDE DEF own, new, h
  <2>6. new.span = own.span /\ DOMAIN new = DOMAIN own /\ new.capacity = SCHED_CAPACITY_SCALE
    BY <1>5, <2>4
  <2> QED BY <1>3, <2>5, <2>6 DEF own, new, h
<1>7. CASE l # 1
  <2>1. l - 1 \in Level /\ HasDomain(machine, l - 1, cpu) /\ cpu \in Span(machine, l, cpu)
    BY <1>1, <1>7, ChildHasDomain, SpanOf
  <2>2. /\ down \in Domain /\ Wanted(down) /\ down[1] = l - 1 /\ down[2] = cpu
        /\ child = down /\ child # NULL
    BY <1>1, <1>2, <1>7, <2>1, Pairs DEF Wanted, ChildOf
  <2>3. h = Span(machine, l - 1, cpu) BY <1>7 DEF GroupSpan
  <2>4. sd[down].groups = RingAs(down) BY <2>2, RingKnown, phase = "capacity"
  <2>5. PICK size \in Nat \ {0} :
           /\ DOMAIN R = 1 .. size
           /\ UNION {R[n] : n \in 1 .. size} = h
           /\ \A n, k \in 1 .. size : n # k => R[n] \cap R[k] = {}
           /\ \A n \in 1 .. size : Recorded(l - 1, R[n])
    BY <2>2, <2>3, RingKnown, phase = "capacity"
  <2> DEFINE groups == sd[down].groups
             capacities == [n \in DOMAIN groups |-> sgc[groups[n].sgc].capacity]
  <2>6. new = [own EXCEPT !.capacity = SumFunction(capacities),
                          !.min_capacity = Min(ToSet(capacities))]
    BY <1>3, <2>2 DEF update_group_capacity
  <2>7. capacities = [n \in 1 .. size |-> Capacity(R[n])]
    <3>1. DOMAIN groups = 1 .. size BY <2>4, <2>5 DEF RingAs
    <3>2. ASSUME NEW n \in 1 .. size PROVE sgc[groups[n].sgc].capacity = Capacity(R[n])
      <4>1. groups[n].sgc = SgcOf(l - 1, R[n]) BY <2>2, <2>4, <2>5 DEF RingAs, Entry
      <4> QED BY <2>5, <4>1 DEF Recorded
    <3> HIDE DEF groups, R
    <3> QED BY <3>1, <3>2
  <2>8. SumFunction(capacities) = Capacity(h)
    <3>1. IsFiniteSet(1 .. size) BY FS_Interval
    <3>2. IsFiniteSet(h)
      <4>1. h \subseteq CPU BY <1>1, <1>2, GroupKey
      <4>2. IsFiniteSet(CPU) BY NrCpuAssumption, FS_Interval DEF CPU
      <4> QED BY <4>1, <4>2, FS_Subset
    <3>3. DOMAIN capacities = 1 .. size BY <2>7
    <3>4. SumFunction(capacities) = SumFunctionOnSet([n \in 1 .. size |-> Capacity(R[n])], 1 .. size)
      BY <2>7, <3>3 DEF SumFunction
    <3>5. \A n \in 1 .. size : R[n] \subseteq h BY <2>5
    <3> HIDE DEF R, h, capacities
    <3> QED BY <2>5, <3>1, <3>2, <3>4, <3>5, CapacityAdds
  <2> DEFINE total == SumFunction(capacities)
             least == Min(ToSet(capacities))
  <2> HIDE DEF own, new, h, total, least
  <2>9. new = [own EXCEPT !.capacity = total, !.min_capacity = least] BY <2>6 DEF total, least
  <2>10. new.span = own.span /\ DOMAIN new = DOMAIN own /\ new.capacity = total
    BY <1>5, <2>9
  <2> QED BY <1>3, <2>8, <2>10 DEF own, new, h, total
<1> QED BY <1>6, <1>7

LEMMA CapacityKeeps == IInv /\ init_sched_groups_capacity => IInv'
<1> SUFFICES ASSUME IInv, init_sched_groups_capacity PROVE IInv'
  OBVIOUS
<1> DEFINE l == tmp_sd[1]
           h == GroupSpan(machine, l, cpu)
           groups == sd[tmp_sd].groups
           local == groups[1].sgc
           R == RingAt(tmp_sd)
           weighed == [n \in DOMAIN groups |->
                         [groups[n] EXCEPT !.group_weight = cpumask_weight(groups[n].span)]]
           fills == FillsIn(cpu, sgc[local].span)
<1>1. phase = "capacity" /\ machine' = machine /\ i' = i /\ built' = built
  BY DEF init_sched_groups_capacity
<1>2. /\ IF fills
         THEN /\ sd' = [sd EXCEPT ![tmp_sd].groups = weighed]
              /\ sgc' = [sgc EXCEPT ![local] = update_group_capacity(tmp_sd)]
         ELSE sd' = sd /\ sgc' = sgc
      /\ Onward(CpuBefore(cpu), "attach", first_online)
  BY DEF init_sched_groups_capacity
<1>3. /\ tmp_sd \in Domain /\ l \in Level /\ tmp_sd[2] = cpu /\ Wanted(tmp_sd)
      /\ tmp_sd = <<l, cpu>> /\ Constructed(tmp_sd) /\ Shaped(tmp_sd)
      /\ IsMachine(machine) /\ cpu \in machine.online /\ cpu \in CPU
  BY <1>1, StandsAt
<1>4. /\ Stands' /\ phase' \in {"capacity", "attach"}
      /\ \A d \in Domain :
            /\ Constructed(d)' <=> Wanted(d)
            /\ Grouped(d)' <=> Wanted(d)
            /\ Wanted(d) => (Weighed(d)' <=> Weighed(d) \/ d = tmp_sd)
  BY <1>1, <1>2, OnwardDown
<1>5. \A d \in Domain : (Constructed(d) <=> Wanted(d)) /\ (Grouped(d) <=> Wanted(d))
  BY <1>1 DEF Constructed, Grouped
<1>6. /\ groups = RingAs(tmp_sd)
      /\ \E size \in Nat \ {0} :
            /\ DOMAIN R = 1 .. size /\ R[1] = h
            /\ \A n \in 1 .. size : R[n] \in Groups(machine, l, cpu) /\ Recorded(l, R[n])
  BY <1>1, <1>3, RingKnown
<1>7. PICK size \in Nat \ {0} :
            /\ DOMAIN R = 1 .. size /\ R[1] = h
            /\ \A n \in 1 .. size : R[n] \in Groups(machine, l, cpu) /\ Recorded(l, R[n])
  BY <1>6
<1>8. /\ local = SgcOf(l, h) /\ h \in Groups(machine, l, cpu) /\ Recorded(l, h)
      /\ update_group_capacity(tmp_sd).span = sgc[local].span
      /\ DOMAIN update_group_capacity(tmp_sd) = DOMAIN sgc[local]
      /\ update_group_capacity(tmp_sd).capacity = Capacity(h)
  <2>1. 1 \in 1 .. size BY <1>7
  <2> QED BY <1>1, <1>7, <2>1, CapacityOfLocal
<1>9. fills <=> cpu = Min(h)
  BY <1>3, <1>8, GroupKey DEF FillsIn, Recorded
<1>10. ~Weighed(tmp_sd)
  <2>1. ~(l < l) /\ ~(cpu > cpu) BY <1>3, NrCpuAssumption DEF Level, CPU
  <2> QED BY <1>1, <1>3, <2>1 DEF Weighed
<1>11. \A d : RingAt(d)' = RingAt(d) BY <1>1 DEF RingAt
<1>12. groups = [n \in 1 .. size |-> Entry(l, R[n], 0)]
  BY <1>6, <1>7, <1>10 DEF RingAs, Entry
<1>13. DOMAIN sgc' = Domain
       /\ \A d \in Domain : {"capacity", "min_capacity", "span"} \subseteq DOMAIN sgc'[d]
  BY <1>2, <1>8 DEF IInv, Records
<1>14. ASSUME NEW k \in Level, NEW x \in machine.online, NEW g \in Groups(machine, k, x),
              Recorded(k, g)
       PROVE  Recorded(k, g)'
  <2>1. SgcOf(k, g) \in Domain BY <1>3, GroupKey
  <2>2. CASE ~fills BY <1>2, <1>14, <2>2 DEF Recorded
  <2>3. CASE fills /\ SgcOf(k, g) = local
    <3>1. k = l /\ g = h BY <1>3, <1>8, <2>3, SameKey
    <3>2. sgc'[SgcOf(k, g)] = update_group_capacity(tmp_sd)
      BY <1>2, <2>1, <2>3 DEF IInv, Records
    <3> QED BY <1>8, <3>1, <3>2 DEF Recorded
  <2>4. CASE fills /\ SgcOf(k, g) # local
    <3>1. sgc'[SgcOf(k, g)] = sgc[SgcOf(k, g)] BY <1>2, <2>1, <2>4 DEF IInv, Records
    <3> QED BY <1>14, <3>1 DEF Recorded
  <2> QED BY <2>2, <2>3, <2>4
<1>15. Records'
  <2> SUFFICES ASSUME NEW d \in Domain, Wanted(d), NEW n \in DOMAIN RingAt(d)
               PROVE  Recorded(d[1], RingAt(d)[n])'
    BY <1>4, <1>11, <1>13 DEF Records
  <2> DEFINE g == RingAt(d)[n]
  <2>1. d[1] \in Level /\ d[2] \in machine.online BY Pairs DEF Wanted
  <2>2. Recorded(d[1], g) /\ g \in Groups(machine, d[1], d[2]) BY <1>1, RingKnown
  <2>3. g' = g BY <1>11
  <2> HIDE DEF g
  <2>4. /\ sgc'[SgcOf(d[1], g)].span = g
        /\ sgc'[SgcOf(d[1], g)].capacity = Capacity(g)
    BY <1>14, <2>1, <2>2 DEF Recorded
  <2>5. Recorded(d[1], g)' BY <2>3, <2>4 DEF Recorded
  <2> QED BY <2>5 DEF g
<1>16. Shapes'
  <2>1. DOMAIN sd' = Domain BY <1>2 DEF IInv, Shapes
  <2>2. ASSUME NEW d \in Domain
        PROVE  IF Constructed(d)' THEN Shaped(d)' ELSE sd'[d] = Unbuilt
    <3>1. Constructed(d)' <=> Constructed(d) BY <1>4, <1>5
    <3>2. IF Constructed(d) THEN Shaped(d) ELSE sd[d] = Unbuilt BY DEF IInv, Shapes
    <3>3. d[1] < NrLevel => (Constructed(Up(d))' <=> Constructed(Up(d)))
      <4>1. d[1] < NrLevel => Up(d) \in Domain BY Pairs DEF Up, Domain, Level, NrLevel
      <4> QED BY <1>4, <1>5, <4>1
    <3>4. CASE d = tmp_sd
      <4>1. Constructed(d)' /\ Grouped(d)' /\ Weighed(d)' /\ Shaped(d) BY <1>3, <1>4, <3>4
      <4>2. RingAs(d)' = [n \in 1 .. size |-> Entry(l, R[n], GroupWeight(machine, l, cpu, R[n]))]
        BY <1>1, <1>3, <1>7, <1>11, <3>4, <4>1 DEF RingAs, Entry
      <4>3. sd'[d].groups = [n \in 1 .. size |-> Entry(l, R[n], GroupWeight(machine, l, cpu, R[n]))]
        <5>1. CASE fills
          <6>1. \A g : GroupWeight(machine, l, cpu, g) = Cardinality(g)
            BY <1>9, <5>1 DEF GroupWeight
          <6>2. sd'[d].groups = weighed BY <1>2, <3>4, <4>1, <5>1 DEF IInv, Shapes, Shaped
          <6>3. DOMAIN groups = 1 .. size /\ \A n \in 1 .. size : groups[n] = Entry(l, R[n], 0)
            BY <1>12
          <6>4. \A n \in 1 .. size :
                   [groups[n] EXCEPT !.group_weight = cpumask_weight(groups[n].span)]
                     = Entry(l, R[n], Cardinality(R[n]))
            <7> SUFFICES ASSUME NEW n \in 1 .. size
                         PROVE  [groups[n] EXCEPT !.group_weight = cpumask_weight(groups[n].span)]
                                  = Entry(l, R[n], Cardinality(R[n]))
              OBVIOUS
            <7>1. groups[n] = Entry(l, R[n], 0) BY <6>3
            <7>2. \A a, b, c : [Entry(a, b, 0) EXCEPT !.group_weight = c] = Entry(a, b, c)
                               /\ Entry(a, b, 0).span = b
              BY DEF Entry
            <7> HIDE DEF groups, R, l
            <7> QED BY <7>1, <7>2 DEF cpumask_weight
          <6>5. weighed = [n \in 1 .. size |-> Entry(l, R[n], Cardinality(R[n]))]
            BY <6>3, <6>4
          <6> QED BY <6>1, <6>2, <6>5
        <5>2. CASE ~fills
          <6>1. \A g : GroupWeight(machine, l, cpu, g) = 0 BY <1>9, <5>2 DEF GroupWeight
          <6> QED BY <1>2, <1>12, <3>4, <5>2, <6>1
        <5> QED BY <5>1, <5>2
      <4>4. /\ sd'[d].span = sd[d].span /\ sd'[d].child = sd[d].child
            /\ sd'[d].parent = sd[d].parent /\ DOMAIN sd'[d] = DOMAIN sd[d]
        BY <1>2, <3>4, <4>1 DEF IInv, Shapes, Shaped
      <4> QED BY <1>1, <3>3, <4>1, <4>2, <4>3, <4>4 DEF Shaped, ChildOf, Up
    <3>5. CASE d # tmp_sd
      <4>1. sd'[d] = sd[d] BY <1>2, <3>5 DEF IInv, Shapes
      <4>2. Constructed(d) => Shaped(d)'
        <5> SUFFICES ASSUME Constructed(d) PROVE Shaped(d)'
          OBVIOUS
        <5>1. Shaped(d) /\ Wanted(d) /\ Grouped(d) /\ Grouped(d)' BY <1>4, <1>5, <3>2
        <5>2. Weighed(d)' <=> Weighed(d) BY <1>4, <3>5, <5>1
        <5>3. RingAs(d)' = RingAs(d) BY <1>1, <1>11, <5>2 DEF RingAs, Entry
        <5> QED BY <1>1, <3>3, <4>1, <5>1, <5>3 DEF Shaped, ChildOf, Up
      <4> QED BY <3>1, <3>2, <4>1, <4>2
    <3> QED BY <3>4, <3>5
  <2> QED BY <2>1, <2>2 DEF Shapes
<1>17. HalfRing' BY <1>1 DEF IInv, HalfRing
<1> QED BY <1>4, <1>15, <1>16, <1>17 DEF IInv

LEMMA AttachKeeps == IInv /\ cpu_attach_domain => IInv'
<1> SUFFICES ASSUME IInv, cpu_attach_domain PROVE IInv'
  OBVIOUS
<1>1. /\ phase = "attach" /\ machine' = machine /\ sd' = sd /\ sgc' = sgc
      /\ i' = i /\ built' = built
      /\ \/ CpuAfter(cpu) # NoCpu /\ cpu' = CpuAfter(cpu) /\ phase' = phase
         \/ phase' = "done" /\ cpu' = cpu
  BY DEF cpu_attach_domain
<1>2. MachineIs /\ cpu \in CPU BY MachineOK DEF IInv, Stands, MachineIs, Mask
<1>3. cpu' \in machine.online
  BY <1>1, <1>2, CpuOrder DEF MachineIs, IInv, Stands
<1>4. Stands' BY <1>1, <1>3 DEF IInv, Stands
<1>5. \A d : /\ Constructed(d)' <=> Constructed(d)
             /\ Grouped(d)' <=> Grouped(d)
             /\ Weighed(d)' <=> Weighed(d)
             /\ RingAt(d)' = RingAt(d)
  BY <1>1 DEF Constructed, Grouped, Weighed, Wanted, RingAt
<1>6. \A d : RingAs(d)' = RingAs(d) BY <1>1, <1>5 DEF RingAs, Entry
<1>7. \A d \in Domain : Shaped(d)' <=> Shaped(d) BY <1>1, <1>5, <1>6 DEF Shaped, ChildOf, Up
<1>8. Shapes' BY <1>1, <1>5, <1>7 DEF IInv, Shapes
<1>9. Records' BY <1>1, <1>5 DEF IInv, Records, Recorded
<1>10. HalfRing' BY <1>1 DEF IInv, HalfRing
<1> QED BY <1>4, <1>8, <1>9, <1>10 DEF IInv

LEMMA InvNext == IInv /\ [Next]_vars => IInv'
<1> SUFFICES ASSUME IInv, [Next]_vars PROVE IInv'
  OBVIOUS
<1>1. CASE construct_domain BY <1>1, ConstructKeeps
<1>2. CASE build_sched_groups BY <1>2, GroupsKeeps
<1>3. CASE init_sched_groups_capacity BY <1>3, CapacityKeeps
<1>4. CASE cpu_attach_domain BY <1>4, AttachKeeps
<1>5. CASE UNCHANGED vars
  <2>1. /\ machine' = machine /\ phase' = phase /\ cpu' = cpu /\ tmp_sd' = tmp_sd
        /\ i' = i /\ built' = built /\ sd' = sd /\ sgc' = sgc
    BY <1>5 DEF vars
  <2>2. Stands' BY <2>1 DEF IInv, Stands, AtDomain, Wanted
  <2>3. \A d : /\ Constructed(d)' <=> Constructed(d)
               /\ Grouped(d)' <=> Grouped(d)
               /\ Weighed(d)' <=> Weighed(d)
               /\ RingAt(d)' = RingAt(d)
    BY <2>1 DEF Constructed, Grouped, Weighed, Wanted, Before, RingAt
  <2>4. \A d : RingAs(d)' = RingAs(d) BY <2>1, <2>3 DEF RingAs, Entry
  <2>5. \A d \in Domain : Shaped(d)' <=> Shaped(d) BY <2>1, <2>3, <2>4 DEF Shaped, ChildOf, Up
  <2>6. Shapes' BY <2>1, <2>3, <2>5 DEF IInv, Shapes
  <2>7. Records' BY <2>1, <2>3 DEF IInv, Records, Recorded
  <2>8. HalfRing'
    <3>1. CASE i = NoCpu /\ built = NoGroups BY <2>1, <3>1 DEF HalfRing
    <3>2. CASE ~(i = NoCpu /\ built = NoGroups)
      <4>1. PICK k \in DOMAIN RingAt(tmp_sd) :
               /\ phase = "groups" /\ i \in Span(machine, tmp_sd[1], cpu)
               /\ \A n \in DOMAIN RingAt(tmp_sd) :
                     n <= k <=> Distance(cpu, RingAt(tmp_sd)[n]) < Away(cpu, i)
               /\ built = Prefix(k)
               /\ \A n \in 1 .. k : Recorded(tmp_sd[1], RingAt(tmp_sd)[n])
        BY <3>2 DEF IInv, HalfRing, Prefix
      <4>2. RingAt(tmp_sd)' = RingAt(tmp_sd) BY <2>1 DEF RingAt
      <4>3. Prefix(k)' = Prefix(k) BY <2>1, <4>2 DEF Prefix, Entry
      <4>4. \A n \in 1 .. k : Recorded(tmp_sd[1], RingAt(tmp_sd)[n])'
        BY <2>1, <4>1, <4>2 DEF Recorded
      <4>5. (/\ phase = "groups" /\ i \in Span(machine, tmp_sd[1], cpu)
             /\ \E n \in DOMAIN RingAt(tmp_sd) : n = k
             /\ \A n \in DOMAIN RingAt(tmp_sd) :
                   n <= k <=> Distance(cpu, RingAt(tmp_sd)[n]) < Away(cpu, i)
             /\ built = Prefix(k))'
        BY <2>1, <4>1, <4>2, <4>3
      <4> QED BY <4>4, <4>5 DEF HalfRing, Prefix
    <3> QED BY <3>1, <3>2
  <2> QED BY <2>2, <2>6, <2>7, <2>8 DEF IInv
<1> QED BY <1>1, <1>2, <1>3, <1>4, <1>5 DEF Next

LEMMA Invariant == Spec => []IInv
<1>1. Init => IInv BY InitHolds
<1>2. IInv /\ [Next]_vars => IInv' BY InvNext
<1> QED BY <1>1, <1>2, PTL DEF Spec

-----------------------------------------------------------------------------
(* What is built.                                                          *)

\* Once the rings are built, the domains with a span are those there should be.
LEMMA BuiltIs ==
    ASSUME IInv, phase \in {"capacity", "attach", "done"}, NEW d \in Domain
    PROVE  /\ Built(d) <=> Wanted(d)
           /\ Built(d) => /\ IsMachine(machine) /\ d[1] \in Level /\ d[2] \in machine.online
                          /\ HasDomain(machine, d[1], d[2]) /\ Shaped(d)
                          /\ sd[d].span = Span(machine, d[1], d[2])
<1>1. Constructed(d) <=> Wanted(d)
  BY phase \in {"capacity", "attach", "done"} DEF Constructed
<1>2. IF Constructed(d) THEN Shaped(d) ELSE sd[d] = Unbuilt BY DEF IInv, Shapes
<1>3. IsMachine(machine) BY MachineOK DEF IInv, MachineIs
<1>4. CASE Wanted(d)
  <2>1. sd[d].span = Span(machine, d[1], d[2]) /\ Shaped(d) BY <1>1, <1>2, <1>4 DEF Shaped
  <2>2. d[1] \in Level /\ d[2] \in machine.online BY <1>4, Pairs DEF Wanted
  <2>3. d[2] \in sd[d].span BY <1>3, <2>1, <2>2, SpanOf
  <2> QED BY <1>3, <1>4, <2>1, <2>2, <2>3 DEF Built, Wanted
<1>5. CASE ~Wanted(d) BY <1>1, <1>2, <1>5 DEF Built, Unbuilt
<1> QED BY <1>4, <1>5

\* The groups of a domain: those of the ring, with their records and weights.
LEMMA GroupsAre ==
    ASSUME IInv, phase \in {"capacity", "attach", "done"}, NEW d \in Domain, Wanted(d)
    PROVE  \E size \in Nat \ {0} :
              /\ DOMAIN sd[d].groups = 1 .. size /\ DOMAIN RingAt(d) = 1 .. size
              /\ UNION {RingAt(d)[n] : n \in 1 .. size} = Span(machine, d[1], d[2])
              /\ \A n, k \in 1 .. size : n # k => RingAt(d)[n] \cap RingAt(d)[k] = {}
              /\ RingAt(d)[1] = GroupSpan(machine, d[1], d[2])
              /\ \A n \in 1 .. size :
                    /\ RingAt(d)[n] \in Groups(machine, d[1], d[2])
                    /\ sd[d].groups[n].span = RingAt(d)[n]
                    /\ sd[d].groups[n].sgc = SgcOf(d[1], RingAt(d)[n])
                    /\ Weighed(d) => sd[d].groups[n].group_weight
                                       = GroupWeight(machine, d[1], d[2], RingAt(d)[n])
                    /\ Recorded(d[1], RingAt(d)[n])
<1>1. sd[d].groups = RingAs(d) BY RingKnown
<1>2. \A n \in DOMAIN RingAt(d) :
         /\ sd[d].groups[n].span = RingAt(d)[n]
         /\ sd[d].groups[n].sgc = SgcOf(d[1], RingAt(d)[n])
         /\ Weighed(d) => sd[d].groups[n].group_weight
                            = GroupWeight(machine, d[1], d[2], RingAt(d)[n])
  BY <1>1 DEF RingAs, Entry
<1>3. DOMAIN sd[d].groups = DOMAIN RingAt(d) BY <1>1 DEF RingAs
<1>4. PICK size \in Nat \ {0} :
         /\ DOMAIN RingAt(d) = 1 .. size
         /\ RingAt(d)[1] = GroupSpan(machine, d[1], d[2])
         /\ UNION {RingAt(d)[n] : n \in 1 .. size} = Span(machine, d[1], d[2])
         /\ \A n, k \in 1 .. size : n # k => RingAt(d)[n] \cap RingAt(d)[k] = {}
         /\ \A n \in 1 .. size :
               /\ RingAt(d)[n] \in Groups(machine, d[1], d[2])
               /\ Recorded(d[1], RingAt(d)[n])
  BY RingKnown
<1> QED BY <1>2, <1>3, <1>4

\* The rings that build_sched_groups makes (sched.hpp) split the span of their
\* domain, for every machine: no group is made twice because a CPU was not
\* remembered, none is left out, and the owner is in the first.
THEOREM RingsSplitSpans == Spec => []GroupsSplitSpan
<1>1. IInv => GroupsSplitSpan
  <2> SUFFICES ASSUME IInv, phase \in {"capacity", "attach", "done"},
                      NEW d \in Domain, Built(d)
               PROVE  LET groups == sd[d].groups IN
                      /\ d[2] \in groups[1].span
                      /\ sd[d].span = UNION {g.span : g \in ToSet(groups)}
                      /\ \A n, k \in DOMAIN groups :
                            n # k => groups[n].span \cap groups[k].span = {}
    BY DEF GroupsSplitSpan
  <2> DEFINE groups == sd[d].groups
             R == RingAt(d)
  <2>1. /\ Wanted(d) /\ IsMachine(machine) /\ d[1] \in Level /\ d[2] \in machine.online
        /\ sd[d].span = Span(machine, d[1], d[2])
    BY BuiltIs
  <2>2. PICK size \in Nat \ {0} :
           /\ DOMAIN groups = 1 .. size
           /\ UNION {R[n] : n \in 1 .. size} = Span(machine, d[1], d[2])
           /\ \A n, k \in 1 .. size : n # k => R[n] \cap R[k] = {}
           /\ R[1] = GroupSpan(machine, d[1], d[2])
           /\ \A n \in 1 .. size : groups[n].span = R[n]
    BY <2>1, GroupsAre
  <2>3. d[2] \in R[1]
    <3>1. d[2] \in Span(machine, d[1], d[2]) BY <2>1, SpanOf
    <3> QED BY <2>1, <2>2, <3>1, GroupOf
  <2> HIDE DEF groups, R
  <2>4. {g.span : g \in ToSet(groups)} = {R[n] : n \in 1 .. size} BY <2>2 DEF ToSet
  <2>5. 1 \in 1 .. size OBVIOUS
  <2>6. d[2] \in groups[1].span BY <2>2, <2>3, <2>5
  <2>7. sd[d].span = UNION {g.span : g \in ToSet(groups)} BY <2>1, <2>2, <2>4
  <2>8. \A n, k \in DOMAIN groups : n # k => groups[n].span \cap groups[k].span = {}
    BY <2>2
  <2> QED BY <2>6, <2>7, <2>8 DEF groups
<1> QED BY <1>1, Invariant, PTL

\* What sched_init_domains leaves behind is what SchedDomains describes, which
\* the balancer and the CPU selection are modelled and proved over: the same
\* domains, with the same rings, records, weights and capacities, and with
\* pointers to parent and child that agree.
THEOREM DomainsBuilt == Spec => []BuiltAsDescribed
<1>1. IInv => BuiltAsDescribed
  <2> SUFFICES ASSUME IInv, phase = "done", NEW c \in CPU, NEW l \in Level
               PROVE  LET d == <<l, c>> IN
                      /\ Built(d) <=> c \in machine.online /\ HasDomain(machine, l, c)
                      /\ Built(d) =>
                           /\ sd[d].span = Span(machine, l, c)
                           /\ \A up \in {sd[d].parent} \ {NULL} :
                                 sd[up].child = d /\ sd[d].span \subseteq sd[up].span
                           /\ \A down \in {sd[d].child} \ {NULL} : sd[down].parent = d
                           /\ [n \in DOMAIN sd[d].groups |-> sd[d].groups[n].span]
                                = Ring(machine, l, c)
                           /\ \A g \in ToSet(sd[d].groups) :
                                 /\ g.sgc = SgcOf(l, g.span)
                                 /\ g.group_weight = GroupWeight(machine, l, c, g.span)
                                 /\ sgc[g.sgc].capacity = Capacity(g.span)
                                 /\ sgc[g.sgc].span = g.span
    BY DEF BuiltAsDescribed
  <2> DEFINE d == <<l, c>>
             groups == sd[d].groups
             R == Ring(machine, l, c)
  <2>1. d \in Domain /\ d[1] = l /\ d[2] = c BY Pairs
  <2>2. Built(d) <=> c \in machine.online /\ HasDomain(machine, l, c)
    BY <2>1, BuiltIs DEF Wanted
  <2> SUFFICES ASSUME Built(d)
               PROVE  /\ sd[d].span = Span(machine, l, c)
                      /\ \A up \in {sd[d].parent} \ {NULL} :
                            sd[up].child = d /\ sd[d].span \subseteq sd[up].span
                      /\ \A down \in {sd[d].child} \ {NULL} : sd[down].parent = d
                      /\ [n \in DOMAIN groups |-> groups[n].span] = R
                      /\ \A g \in ToSet(groups) :
                            /\ g.sgc = SgcOf(l, g.span)
                            /\ g.group_weight = GroupWeight(machine, l, c, g.span)
                            /\ sgc[g.sgc].capacity = Capacity(g.span)
                            /\ sgc[g.sgc].span = g.span
    BY <2>2
  <2>3. /\ Wanted(d) /\ IsMachine(machine) /\ c \in machine.online /\ HasDomain(machine, l, c)
        /\ Shaped(d) /\ sd[d].span = Span(machine, l, c)
    BY <2>1, BuiltIs
  <2> HIDE DEF d
  <2>4. \A x : Constructed(x) <=> Wanted(x) BY DEF Constructed
  <2>5. ASSUME NEW up \in {sd[d].parent} \ {NULL}
        PROVE  sd[up].child = d /\ sd[d].span \subseteq sd[up].span
    <3>1. up = Up(d) /\ l < NrLevel /\ Wanted(up) BY <2>1, <2>3, <2>4, <2>5 DEF Shaped
    <3>2. l + 1 \in Level /\ (l + 1) - 1 = l /\ l + 1 # 1 BY <3>1 DEF Level, NrLevel
    <3>3. up \in Domain /\ up = <<l + 1, c>> BY <2>1, <3>1, <3>2, Pairs DEF Up
    <3>4. up[1] = l + 1 /\ up[2] = c BY <3>3
    <3>5. Shaped(up) BY <2>4, <3>1, <3>3 DEF IInv, Shapes
    <3>6. sd[up].child = d BY <3>2, <3>4, <3>5 DEF Shaped, ChildOf, d
    <3>7. sd[up].span = Span(machine, l + 1, c) BY <3>4, <3>5 DEF Shaped
    <3>8. HasDomain(machine, l + 1, c) BY <3>1, <3>4 DEF Wanted
    <3>9. Span(machine, l, c) \subseteq Span(machine, l + 1, c)
      BY <2>3, <3>2, <3>8, ChildHasDomain
    <3> QED BY <2>3, <3>6, <3>7, <3>9
  <2>6. ASSUME NEW down \in {sd[d].child} \ {NULL}
        PROVE  sd[down].parent = d
    <3>1. down = <<l - 1, c>> /\ l # 1 BY <2>1, <2>3, <2>6 DEF Shaped, ChildOf
    <3>2. l - 1 \in Level /\ HasDomain(machine, l - 1, c) BY <2>3, <3>1, ChildHasDomain
    <3>3. down \in Domain /\ Wanted(down) /\ down[1] = l - 1 /\ down[2] = c
      BY <2>3, <3>1, <3>2, Pairs DEF Wanted
    <3>4. Shaped(down) BY <2>4, <3>3 DEF IInv, Shapes
    <3>5. Up(down) = d /\ down[1] < NrLevel BY <3>2, <3>3 DEF Up, d, Level, NrLevel
    <3> QED BY <2>3, <2>4, <3>4, <3>5 DEF Shaped
  <2>7. PICK size \in Nat \ {0} :
           /\ DOMAIN groups = 1 .. size /\ DOMAIN R = 1 .. size
           /\ \A n \in 1 .. size :
                 /\ groups[n].span = R[n] /\ groups[n].sgc = SgcOf(l, R[n])
                 /\ Weighed(d) => groups[n].group_weight = GroupWeight(machine, l, c, R[n])
                 /\ Recorded(l, R[n])
    BY <2>1, <2>3, GroupsAre DEF RingAt
  <2>8. Weighed(d) BY DEF Weighed
  <2>9. [n \in DOMAIN groups |-> groups[n].span] = R
    <3>1. R = [n \in DOMAIN R |-> R[n]] BY DEF Ring
    <3> HIDE DEF R, groups
    <3> QED BY <2>7, <3>1
  <2>10. ASSUME NEW g \in ToSet(groups)
         PROVE  /\ g.sgc = SgcOf(l, g.span)
                /\ g.group_weight = GroupWeight(machine, l, c, g.span)
                /\ sgc[g.sgc].capacity = Capacity(g.span)
                /\ sgc[g.sgc].span = g.span
    <3>1. PICK n \in 1 .. size : g = groups[n] BY <2>7, <2>10 DEF ToSet
    <3> QED BY <2>7, <2>8, <3>1 DEF Recorded
  <2> QED BY <2>3, <2>5, <2>6, <2>9, <2>10
<1> QED BY <1>1, Invariant, PTL
=============================================================================
