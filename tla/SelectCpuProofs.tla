--------------------------- MODULE SelectCpuProofs ---------------------------
(***************************************************************************)
(* Theorems about SelectCpu, for any machines, affinities and states of    *)
(* the run queues, and whatever the uninitialised memory holds.            *)
(*                                                                         *)
(* The walk keeps, of the groups weighed so far in the domain it searches, *)
(* that idlest.min_runnable is within the slack of the least of their      *)
(* loads on one side, and of the load of the chosen group on the other,    *)
(* although the two need not be the same group's (Compared).  That a CPU   *)
(* of the chosen group stands for the whole group again in the domain      *)
(* below rests on the groups of a domain being disjoint, and that no group *)
(* has been missed on the ring holding all of them.                        *)
(***************************************************************************)
EXTENDS SelectCpu, CommonLemmas

\* Where the walk is, and what it does not change.
Stands ==
    /\ machine \in Machines /\ queue \in [machine.online -> QueueState]
    /\ allowed \in SUBSET machine.online /\ allowed # {}
    /\ cur_cpu \in machine.online /\ cpu \in machine.online /\ new_cpu \in machine.online
    /\ sd \in 0 .. NrLevel
    /\ sd # 0 => HasDomain(machine, sd, cpu) /\ next \in 0 .. Len(groups)

\* The group that is the idlest so far was weighed, and is not the local one.
IdlestWeighed ==
    idlest.group # {} =>
        /\ \E i \in 1 .. next : idlest.group = groups[i]
        /\ Considered(idlest.group) /\ cpu \notin idlest.group
        /\ runnable_load(idlest.group) < idlest.min_runnable + imbalance

\* What idlest and this say of the groups that were weighed.
Compared ==
    sd # 0 =>
        /\ idlest = [min_runnable |-> idlest.min_runnable, min_avg |-> idlest.min_avg,
                     group |-> idlest.group]
        /\ idlest.min_runnable \in Int
        /\ IdlestWeighed
        /\ \A i \in 1 .. next : Considered(groups[i]) =>
              IF cpu \in groups[i]
              THEN this.runnable = {runnable_load(groups[i])}
              ELSE idlest.min_runnable <= runnable_load(groups[i]) + imbalance

Rests == sd = 0 => idlest.group = {}

IInv == Stands /\ Compared /\ Rests /\ this.runnable # {} /\ this.runnable \subseteq Int

-----------------------------------------------------------------------------
(* The domain that is searched.                                            *)

LEMMA RingIs ==
    ASSUME machine \in Machines, sd \in Level, cpu \in machine.online
    PROVE  groups = Ring(machine, sd, cpu)
<1> DEFINE rings == [l \in Level |-> [c \in machine.online |-> Ring(machine, l, c)]]
<1>1. RingOf[machine] = rings BY DEF RingOf
<1>2. rings[sd][cpu] = Ring(machine, sd, cpu) OBVIOUS
<1> QED BY <1>1, <1>2 DEF groups

LEMMA RingIsNext ==
    (machine \in Machines /\ sd \in Level /\ cpu \in machine.online
        => groups = Ring(machine, sd, cpu))'
<1>1. machine \in Machines /\ sd \in Level /\ cpu \in machine.online
        => groups = Ring(machine, sd, cpu)
  BY RingIs
<1> QED BY <1>1, PTL

\* Its groups, and what is known of its ring.
LEMMA SearchedRing ==
    ASSUME Stands, sd # 0
    PROVE  /\ IsMachine(machine) /\ sd \in Level
           /\ groups \in Seq(Groups(machine, sd, cpu))
           /\ \A g \in Groups(machine, sd, cpu) : \E i \in 1 .. Len(groups) : groups[i] = g
<1>1. IsMachine(machine) BY InputAssumption DEF Stands
<1>2. sd \in Level /\ cpu \in machine.online BY DEF Stands, Level, NrLevel
<1>3. groups = Ring(machine, sd, cpu) BY <1>2, RingIs DEF Stands
<1> DEFINE n == Cardinality(Groups(machine, sd, cpu))
<1>4. /\ n \in Nat /\ groups \in [1 .. n -> Groups(machine, sd, cpu)]
      /\ \A g \in Groups(machine, sd, cpu) : \E i \in 1 .. n : groups[i] = g
  BY <1>1, <1>2, <1>3, RingPlaces
<1> HIDE DEF n
<1>5. groups \in Seq(Groups(machine, sd, cpu)) /\ Len(groups) = n BY <1>4
<1> QED BY <1>1, <1>2, <1>4, <1>5

\* A group of the domain is a set of CPUs, not empty, and the group of each.
LEMMA SearchedGroup ==
    ASSUME Stands, sd # 0, NEW g \in Groups(machine, sd, cpu)
    PROVE  /\ g \subseteq machine.online /\ machine.online \subseteq CPU
           /\ g # {} /\ IsFiniteSet(g) /\ CPU \subseteq Nat
           /\ \A x \in g : GroupSpan(machine, sd, x) = g
<1>1. IsMachine(machine) /\ sd \in Level BY SearchedRing
<1>2. cpu \in machine.online BY DEF Stands
<1>3. PICK x \in Span(machine, sd, cpu) : g = GroupSpan(machine, sd, x) BY DEF Groups
<1>4. /\ x \in g /\ g \subseteq Span(machine, sd, cpu)
      /\ \A y \in g : GroupSpan(machine, sd, y) = g
  BY <1>1, <1>2, <1>3, GroupOf
<1>5. Span(machine, sd, cpu) \subseteq machine.online /\ machine.online \subseteq CPU
  BY <1>1, <1>2, SpanOf
<1>6. IsFiniteSet(CPU) /\ CPU \subseteq Nat BY NrCpuAssumption, FS_Interval DEF CPU
<1>7. IsFiniteSet(g) BY <1>4, <1>5, <1>6, FS_Subset
<1> QED BY <1>4, <1>5, <1>6, <1>7

\* The mean load of a group is a number.
LEMMA LoadOfGroup ==
    ASSUME Stands, sd # 0, NEW g \in Groups(machine, sd, cpu)
    PROVE  runnable_load(g) \in Int
<1> DEFINE load == [c \in g |-> queue[c].runnable]
           sum  == SumFunctionOnSet(load, g)
<1>1. /\ g \subseteq machine.online /\ g # {} /\ IsFiniteSet(g) BY SearchedGroup
<1>2. \A c \in g : load[c] \in Int BY <1>1, InputAssumption DEF Stands
<1> HIDE DEF load
<1>3. sum \in Int BY <1>1, <1>2, SumType
<1>4. Cardinality(g) \in Nat /\ Cardinality(g) # 0
  BY <1>1, FS_CardinalityType, FS_EmptySet
<1> DEFINE capacity == Capacity(g)
<1>5. capacity \in Nat \ {0} BY <1>4 DEF Capacity, SCHED_CAPACITY_SCALE
<1>6. runnable_load(g) = (sum * SCHED_CAPACITY_SCALE) \div capacity
  BY DEF runnable_load, MeanOver, load
<1>7. SCHED_CAPACITY_SCALE \in Int BY DEF SCHED_CAPACITY_SCALE
<1> HIDE DEF sum, capacity
<1>8. sum * SCHED_CAPACITY_SCALE \in Int BY <1>3, <1>7
<1> QED BY <1>5, <1>6, <1>8

\* The first CPU of a set, and the highest level of some.
LEMMA FirstBit ==
    ASSUME NEW s \in SUBSET Nat, s # {}
    PROVE  find_first_bit(s) \in s
BY MinNat DEF find_first_bit

LEMMA HighestLevel ==
    ASSUME NEW s \in SUBSET Level
    PROVE  Max({0} \cup s) \in {0} \cup s
<1> DEFINE t == {0} \cup s
<1>1. t \subseteq {0, 1, 2, 3} /\ 0 \in t BY DEF Level, NrLevel
<1> HIDE DEF t
<1>2. \E x \in t : \A y \in t : x >= y
  <2>1. CASE 3 \in t BY <1>1, <2>1
  <2>2. CASE 3 \notin t /\ 2 \in t BY <1>1, <2>2
  <2>3. CASE 3 \notin t /\ 2 \notin t /\ 1 \in t BY <1>1, <2>3
  <2>4. CASE 3 \notin t /\ 2 \notin t /\ 1 \notin t BY <1>1, <2>4
  <2> QED BY <2>1, <2>2, <2>3, <2>4
<1>3. Max(t) \in t BY <1>2 DEF Max
<1> QED BY <1>3 DEF t

\* Every CPU has a highest domain.
LEMMA HighestDomain ==
    ASSUME NEW m, NEW c
    PROVE  TopLevel(m, c) \in Level /\ HasDomain(m, TopLevel(m, c), c)
<1> DEFINE Top(l) == HasDomain(m, l, c) /\ (l < NrLevel => ~HasDomain(m, l + 1, c))
<1>1. HasDomain(m, 1, c) BY DEF HasDomain
<1>2. \E l \in Level : Top(l)
  <2>1. CASE HasDomain(m, 3, c) BY <2>1 DEF Level, NrLevel
  <2>2. CASE ~HasDomain(m, 3, c) /\ HasDomain(m, 2, c)
    <3>1. 2 \in Level /\ 2 + 1 = 3 BY DEF Level, NrLevel
    <3> QED BY <2>2, <3>1
  <2>3. CASE ~HasDomain(m, 2, c)
    <3>1. 1 \in Level /\ 1 + 1 = 2 BY DEF Level, NrLevel
    <3> QED BY <1>1, <2>3, <3>1
  <2> QED BY <2>1, <2>2, <2>3
<1>3. TopLevel(m, c) = CHOOSE l \in Level : Top(l) BY DEF TopLevel
<1> QED BY <1>2, <1>3

-----------------------------------------------------------------------------
(* The initial states.                                                     *)

LEMMA StartsWell == Init => IInv /\ StaysAllowed
<1> SUFFICES ASSUME Init PROVE IInv /\ StaysAllowed
  OBVIOUS
<1>1. /\ machine \in Machines /\ queue \in [machine.online -> QueueState]
      /\ allowed \in SUBSET machine.online /\ allowed # {} /\ cur_cpu \in machine.online
      /\ cpu = cur_cpu /\ next = 0 /\ idlest = NoGroup /\ this = NotSeen
  <2>1. allowed \in (SUBSET machine.online) \ {{}} BY DEF Init
  <2> QED BY <2>1 DEF Init
<1>2. IsMachine(machine) BY <1>1, InputAssumption
<1>3. allowed \in SUBSET Nat BY <1>1, <1>2 DEF IsMachine, Mask, CPU
<1>4. /\ new_cpu = cur_cpu \/ new_cpu \in allowed
      /\ sd = 0 \/ (sd \in Level /\ HasDomain(machine, sd, cpu))
  BY <1>1, <1>3, FirstBit, HighestDomain DEF Init
<1>5. sd \in 0 .. NrLevel BY <1>4 DEF Level, NrLevel
<1>6. sd # 0 => Len(groups) \in Nat
  <2> SUFFICES ASSUME sd # 0 PROVE Len(groups) \in Nat
    OBVIOUS
  <2>1. sd \in Level BY <1>4
  <2>2. groups = Ring(machine, sd, cpu) BY <1>1, <2>1, RingIs
  <2> DEFINE n == Cardinality(Groups(machine, sd, cpu))
  <2>3. n \in Nat /\ groups \in [1 .. n -> Groups(machine, sd, cpu)]
    BY <1>1, <1>2, <2>1, <2>2, RingPlaces
  <2> HIDE DEF n
  <2> QED BY <2>3
<1>7. Stands BY <1>1, <1>4, <1>5, <1>6 DEF Stands
<1>8. Compared /\ Rests
  BY <1>1, InputAssumption DEF Compared, Rests, IdlestWeighed, NoGroup
<1>9. this.runnable # {} /\ this.runnable \subseteq Int
  BY <1>1, InputAssumption DEF NotSeen
<1> QED BY <1>4, <1>7, <1>8, <1>9 DEF IInv, StaysAllowed

-----------------------------------------------------------------------------
(* A group is weighed.                                                     *)

LEMMA WeighKeeps == IInv /\ WeighGroup => IInv' /\ UNCHANGED <<input, sd, cpu, new_cpu>>
<1> SUFFICES ASSUME IInv, WeighGroup
             PROVE  IInv' /\ UNCHANGED <<input, sd, cpu, new_cpu>>
  OBVIOUS
<1> USE DEF IInv
<1> DEFINE g == groups[next + 1]
<1>1. /\ sd # 0 /\ next < Len(groups) /\ next' = next + 1
      /\ UNCHANGED <<machine, queue, allowed, cur_cpu, sd, cpu, new_cpu>>
  BY DEF WeighGroup, input
<1>2. /\ groups \in Seq(Groups(machine, sd, cpu)) /\ next \in Nat
      /\ next + 1 \in 1 .. Len(groups)
  BY <1>1, SearchedRing DEF Stands
<1>3. g \in Groups(machine, sd, cpu) BY <1>2
<1>4. UNCHANGED groups /\ \A h : UNCHANGED <<Considered(h), runnable_load(h)>>
  BY <1>1 DEF groups, Considered, runnable_load, MeanOver
<1>5. Stands' BY <1>1, <1>2, <1>4 DEF Stands
<1>6. runnable_load(g) \in Int BY <1>1, <1>3, LoadOfGroup
<1>7. 1 .. next' = (1 .. next) \cup {next + 1} BY <1>1, <1>2
<1>8. /\ idlest = [min_runnable |-> idlest.min_runnable, min_avg |-> idlest.min_avg,
                   group |-> idlest.group]
      /\ idlest.min_runnable \in Int
      /\ IdlestWeighed
      /\ \A i \in 1 .. next : Considered(groups[i]) =>
            IF cpu \in groups[i]
            THEN this.runnable = {runnable_load(groups[i])}
            ELSE idlest.min_runnable <= runnable_load(groups[i]) + imbalance
  BY <1>1 DEF Compared
<1>9. \A i \in 1 .. next : groups[i] \in Groups(machine, sd, cpu) BY <1>2
<1> HIDE DEF g
<1>10. Compared' /\ this'.runnable # {} /\ this'.runnable \subseteq Int
  <2>1. CASE ~Considered(g)
    <3>1. UNCHANGED <<idlest, this>> BY <2>1 DEF WeighGroup, g
    <3>2. IdlestWeighed' BY <1>1, <1>4, <1>7, <1>8, <3>1 DEF IdlestWeighed
    <3> QED BY <1>1, <1>4, <1>7, <1>8, <2>1, <3>1, <3>2 DEF Compared, g
  <2>2. CASE Considered(g) /\ cpu \in g
    <3>1. this'.runnable = {runnable_load(g)} /\ UNCHANGED idlest
      BY <2>2 DEF WeighGroup, g
    <3>2. IdlestWeighed' BY <1>1, <1>4, <1>7, <1>8, <3>1 DEF IdlestWeighed
    <3>3. \A i \in 1 .. next : cpu \in groups[i] => groups[i] = g
      BY <1>1, <1>3, <1>9, <2>2, SearchedGroup
    <3>4. \A i \in 1 .. next' : Considered(groups[i]) =>
             IF cpu \in groups[i]
             THEN this'.runnable = {runnable_load(groups[i])}
             ELSE idlest.min_runnable <= runnable_load(groups[i]) + imbalance
      BY <1>7, <1>8, <2>2, <3>1, <3>3 DEF g
    <3> QED BY <1>1, <1>4, <1>6, <1>8, <3>1, <3>2, <3>4 DEF Compared
  <2>3. CASE Considered(g) /\ cpu \notin g
    <3> DEFINE r == runnable_load(g)
               m == idlest.min_runnable
    <3>1. Weigh(g, r, avg_load(g)) /\ UNCHANGED this BY <2>3 DEF WeighGroup, g
    <3>2. /\ idlest' = [min_runnable |-> idlest'.min_runnable, min_avg |-> idlest'.min_avg,
                        group |-> idlest'.group]
          /\ idlest'.min_runnable \in Int /\ idlest'.min_runnable <= m
          /\ idlest'.min_runnable <= r + imbalance
          /\ \/ idlest'.group = g /\ r < idlest'.min_runnable + imbalance
             \/ idlest'.group = idlest.group /\ idlest'.min_runnable = m
      <4> DEFINE avg == avg_load(g)
      <4>1. r \in Int /\ m \in Int BY <1>6, <1>8
      <4>2. Weigh(g, r, avg) BY <3>1
      <4>3. idlest = [min_runnable |-> m, min_avg |-> idlest.min_avg, group |-> idlest.group]
        BY <1>8
      <4> HIDE DEF r, m, avg
      <4>4. CASE m > r + imbalance
        <5>1. idlest' = [min_runnable |-> r, min_avg |-> avg, group |-> g]
          BY <4>2, <4>4 DEF Weigh, m
        <5> QED BY <4>1, <4>4, <5>1 DEF imbalance
      <4>5. CASE ~(m > r + imbalance) /\ r < m + imbalance
                 /\ 100 * idlest.min_avg > imbalance_scale * avg
        <5>1. idlest' = [min_runnable |-> m, min_avg |-> avg, group |-> g]
          BY <4>2, <4>5 DEF Weigh, m
        <5> QED BY <4>1, <4>5, <5>1 DEF imbalance
      <4>6. CASE ~(m > r + imbalance) /\ ~(r < m + imbalance
                 /\ 100 * idlest.min_avg > imbalance_scale * avg)
        <5>1. idlest' = idlest BY <4>2, <4>6 DEF Weigh, m
        <5> QED BY <4>1, <4>3, <4>6, <5>1 DEF imbalance, m
      <4> QED BY <4>4, <4>5, <4>6
    <3>3. IdlestWeighed'
      <4>1. CASE idlest'.group = g /\ r < idlest'.min_runnable + imbalance
        <5>1. \E i \in 1 .. next' : groups[i] = g BY <1>7 DEF g
        <5> QED BY <1>1, <1>4, <2>3, <4>1, <5>1 DEF IdlestWeighed
      <4>2. CASE idlest'.group = idlest.group /\ idlest'.min_runnable = m
        BY <1>1, <1>4, <1>7, <1>8, <4>2 DEF IdlestWeighed
      <4> QED BY <3>2, <4>1, <4>2
    <3>4. \A i \in 1 .. next' : Considered(groups[i]) =>
             IF cpu \in groups[i]
             THEN this.runnable = {runnable_load(groups[i])}
             ELSE idlest'.min_runnable <= runnable_load(groups[i]) + imbalance
      <4> SUFFICES ASSUME NEW i \in 1 .. next', Considered(groups[i])
                   PROVE  IF cpu \in groups[i]
                          THEN this.runnable = {runnable_load(groups[i])}
                          ELSE idlest'.min_runnable <= runnable_load(groups[i]) + imbalance
        OBVIOUS
      <4>1. CASE i = next + 1 BY <2>3, <3>2, <4>1 DEF g
      <4>2. CASE i \in 1 .. next
        <5>1. runnable_load(groups[i]) \in Int BY <1>1, <1>9, <4>2, LoadOfGroup
        <5>2. idlest'.min_runnable \in Int /\ idlest'.min_runnable <= m /\ m \in Int
          BY <1>8, <3>2
        <5> HIDE DEF m
        <5>3. cpu \notin groups[i] => m <= runnable_load(groups[i]) + imbalance
          BY <1>8, <4>2 DEF m
        <5>4. cpu \in groups[i] => this.runnable = {runnable_load(groups[i])}
          BY <1>8, <4>2
        <5> QED BY <5>1, <5>2, <5>3, <5>4 DEF imbalance
      <4> QED BY <1>7, <4>1, <4>2
    <3> QED BY <1>1, <1>4, <3>1, <3>2, <3>3, <3>4 DEF Compared
  <2> QED BY <2>1, <2>2, <2>3
<1>11. Rests' BY <1>1 DEF Rests
<1> QED BY <1>1, <1>5, <1>10, <1>11 DEF input

-----------------------------------------------------------------------------
(* The walk goes on to a CPU, or down.                                     *)

\* The CPU of the chosen group is one of its allowed ones, and idle if one of
\* them is.
LEMMA BestOfGroup ==
    ASSUME IInv, sd # 0, next = Len(groups), idlest.group # {},
           NEW weight, weight = GroupWeight(machine, sd, cpu, idlest.group)
    PROVE  LET best == find_idlest_group_cpu(idlest.group, weight)
               candidates == idlest.group \cap allowed
           IN  /\ idlest.group \in Groups(machine, sd, cpu)
               /\ best \in candidates
               /\ (\E c \in candidates : queue[c].idle) => queue[best].idle
<1> DEFINE g == idlest.group
           candidates == g \cap allowed
           idle == {c \in candidates : queue[c].idle}
           least == {c \in candidates : \A x \in candidates :
                                           queue[c].runnable <= queue[x].runnable}
           best == find_idlest_group_cpu(g, weight)
<1>1. /\ \E i \in 1 .. next : g = groups[i]
      /\ candidates # {} /\ cpu \notin g
  BY DEF IInv, Compared, IdlestWeighed, Considered, cpumask_intersects
<1>2. Stands BY DEF IInv
<1>3. g \in Groups(machine, sd, cpu) BY <1>1, <1>2, SearchedRing
<1>4. /\ g \subseteq machine.online /\ g # {} /\ IsFiniteSet(g)
      /\ g \subseteq Nat /\ candidates \subseteq Nat
  BY <1>2, <1>3, SearchedGroup
<1>5. \A c \in candidates : queue[c].runnable \in Nat
  BY <1>2, <1>4, InputAssumption DEF Stands
<1>6. best = IF weight = 1 THEN find_first_bit(g)
             ELSE IF idle # {} THEN find_first_bit(idle)
             ELSE IF cpu \in least THEN cpu
             ELSE find_first_bit(least)
  BY DEF find_idlest_group_cpu
<1>7. weight = 1 => candidates = g /\ \E c \in g : g = {c}
  <2> SUFFICES ASSUME weight = 1 PROVE candidates = g /\ \E c \in g : g = {c}
    OBVIOUS
  <2>1. Cardinality(g) = 1 BY DEF GroupWeight
  <2>2. \E c : g = {c} BY <1>4, <2>1, FS_Singleton
  <2> QED BY <1>1, <2>2
<1>8. least # {}
  <2> DEFINE loads == {queue[c].runnable : c \in candidates}
  <2>1. loads \subseteq Nat /\ loads # {} BY <1>1, <1>5
  <2> HIDE DEF loads
  <2>2. Min(loads) \in loads /\ \A r \in loads : Min(loads) <= r BY <2>1, MinNat
  <2> USE DEF loads
  <2>3. PICK c \in candidates : queue[c].runnable = Min(loads) BY <2>2
  <2>4. \A x \in candidates : queue[x].runnable \in loads OBVIOUS
  <2> HIDE DEF loads
  <2> QED BY <2>2, <2>3, <2>4
<1> HIDE DEF g, candidates, best
<1>9. best \in candidates /\ (idle # {} => queue[best].idle)
  <2>1. CASE weight = 1
    <3>1. best \in g BY <1>4, <1>6, <2>1, FirstBit
    <3> QED BY <1>7, <2>1, <3>1
  <2>2. CASE weight # 1 /\ idle # {}
    <3>1. idle \subseteq Nat BY <1>4
    <3> HIDE DEF idle
    <3>2. best \in idle BY <1>6, <2>2, <3>1, FirstBit
    <3> QED BY <3>2 DEF idle
  <2>3. CASE weight # 1 /\ idle = {}
    <3>1. least \subseteq candidates /\ least \subseteq Nat /\ cpu \notin least
      BY <1>1, <1>4 DEF candidates
    <3> HIDE DEF idle, least
    <3>2. best \in least BY <1>6, <1>8, <2>3, <3>1, FirstBit
    <3> QED BY <2>3, <3>1, <3>2
  <2> QED BY <2>1, <2>2, <2>3
<1> QED BY <1>3, <1>9 DEF g, candidates, best

\* What a step to another CPU does: it goes to the best CPU of the chosen
\* group, and on in a domain of that CPU that is smaller than the one it was in.
Moves ==
    /\ sd # 0 /\ next = Len(groups) /\ idlest.group # {}
    /\ cpu' = find_idlest_group_cpu(idlest.group,
                                    GroupWeight(machine, sd, cpu, idlest.group))
    /\ \E this_runnable \in this.runnable : idlest.min_runnable <= this_runnable + imbalance
    /\ sd' = DomainBelow(cpu', sd)

\* The domain below is one of that CPU's, and smaller; or there is none.
LEMMA SmallerDomain ==
    ASSUME IInv, sd # 0, NEW c \in machine.online, NEW l, l = DomainBelow(c, sd)
    PROVE  /\ l \in 0 .. NrLevel
           /\ l # 0 => /\ HasDomain(machine, l, c)
                       /\ cpumask_weight(Span(machine, l, c))
                            < cpumask_weight(Span(machine, sd, cpu))
<1> DEFINE smaller(k) == /\ HasDomain(machine, k, c)
                         /\ cpumask_weight(Span(machine, k, c))
                              < cpumask_weight(Span(machine, sd, cpu))
           S == {k \in Level : \A j \in 1 .. k : smaller(j)}
<1>1. l = Max({0} \cup S) BY DEF DomainBelow
<1>2. S \in SUBSET Level OBVIOUS
<1>3. \A k \in S : k \in 1 .. k BY DEF Level, NrLevel
<1>4. \A k \in S : smaller(k) BY <1>3
<1> HIDE DEF S, smaller
<1>5. l = 0 \/ l \in S BY <1>1, <1>2, HighestLevel
<1>6. l # 0 => smaller(l) /\ l \in Level BY <1>4, <1>5, <1>2
<1>7. l \in 0 .. NrLevel BY <1>6 DEF Level, NrLevel
<1> QED BY <1>6, <1>7 DEF smaller

\* The level below has a domain, too, and one that is not larger.
LEMMA LevelBelow ==
    ASSUME IInv, sd # 0
    PROVE  /\ sd - 1 \in 0 .. NrLevel
           /\ HasDomain(machine, sd - 1, cpu)
           /\ sd - 1 # 0 => cpumask_weight(Span(machine, sd - 1, cpu))
                              <= cpumask_weight(Span(machine, sd, cpu))
<1>1. Stands BY DEF IInv
<1>2. IsMachine(machine) /\ sd \in Level BY <1>1, SearchedRing
<1>3. cpu \in machine.online BY <1>1 DEF Stands
<1>4. sd - 1 \in 0 .. NrLevel BY <1>2 DEF Level, NrLevel
<1>5. HasDomain(machine, sd - 1, cpu)
  <2>1. HasDomain(machine, sd, cpu) BY <1>1 DEF Stands
  <2>2. 1 .. (sd - 1) - 1 \subseteq 1 .. sd - 1 BY <1>2 DEF Level, NrLevel
  <2> QED BY <2>1, <2>2 DEF HasDomain
<1>6. ASSUME sd - 1 # 0
      PROVE  cpumask_weight(Span(machine, sd - 1, cpu)) <= cpumask_weight(Span(machine, sd, cpu))
  <2>1. sd > 1 BY <1>2, <1>6 DEF Level, NrLevel
  <2>2. /\ cpu \in Span(machine, sd, cpu)
        /\ Span(machine, sd, cpu) \subseteq machine.online /\ machine.online \subseteq CPU
    BY <1>2, <1>3, SpanOf
  <2>3. Span(machine, sd - 1, cpu) \subseteq Span(machine, sd, cpu)
    BY <1>2, <1>3, <2>1, <2>2, SpanOf
  <2>4. IsFiniteSet(CPU) BY NrCpuAssumption, FS_Interval DEF CPU
  <2>5. IsFiniteSet(Span(machine, sd, cpu)) BY <2>2, <2>4, FS_Subset
  <2> QED BY <2>3, <2>5, FS_Subset DEF cpumask_weight
<1> QED BY <1>4, <1>5, <1>6

\* The rest of a round: into the chosen group, or down on the same CPU.
LEMMA DescendCases ==
    ASSUME IInv, Descend
    PROVE  /\ sd # 0 /\ next = Len(groups)
           /\ UNCHANGED <<machine, queue, allowed, cur_cpu>>
           /\ next' = 0 /\ idlest' = NoGroup /\ this' = NotSeen
           /\ new_cpu' = new_cpu \/ new_cpu' \in idlest.group \cap allowed
           /\ \/ sd' = sd - 1 /\ cpu' = cpu
              \/ Moves
<1>1. /\ sd # 0 /\ next = Len(groups) /\ UNCHANGED <<machine, queue, allowed, cur_cpu>>
      /\ next' = 0 /\ idlest' = NoGroup /\ this' = NotSeen
  BY DEF Descend, input
<1> DEFINE best == find_idlest_group_cpu(idlest.group,
                                         GroupWeight(machine, sd, cpu, idlest.group))
<1>2. PICK this_runnable \in this.runnable :
        IF Stays(this_runnable)
        THEN sd' = sd - 1 /\ UNCHANGED <<cpu, new_cpu>>
        ELSE /\ new_cpu' = best
             /\ IF best = cpu THEN sd' = sd - 1 /\ UNCHANGED cpu
                ELSE cpu' = best /\ sd' = DomainBelow(best, sd)
  BY DEF Descend
<1>3. CASE Stays(this_runnable) BY <1>1, <1>2, <1>3
<1>4. CASE ~Stays(this_runnable)
  <2>1. idlest.group # {} /\ ~(idlest.min_runnable > this_runnable + imbalance)
    BY <1>4 DEF Stays
  <2>2. best \in idlest.group \cap allowed BY <1>1, <2>1, BestOfGroup
  <2>3. idlest.min_runnable <= this_runnable + imbalance
    <3>1. idlest.min_runnable \in Int /\ this_runnable \in Int BY <1>1 DEF IInv, Compared
    <3> QED BY <2>1, <3>1 DEF imbalance
  <2> HIDE DEF best
  <2>4. new_cpu' \in idlest.group \cap allowed BY <1>2, <1>4, <2>2
  <2>5. CASE best = cpu BY <1>1, <1>2, <1>4, <2>4, <2>5
  <2>6. CASE best # cpu
    <3>1. cpu' = best /\ sd' = DomainBelow(cpu', sd) BY <1>2, <1>4, <2>6
    <3>2. Moves BY <1>1, <2>1, <2>3, <3>1 DEF Moves, best
    <3> QED BY <1>1, <2>4, <3>2
  <2> QED BY <2>5, <2>6
<1> QED BY <1>3, <1>4

LEMMA DescendKeeps == IInv /\ StaysAllowed /\ Descend => IInv' /\ StaysAllowed'
<1> SUFFICES ASSUME IInv, StaysAllowed, Descend PROVE IInv' /\ StaysAllowed'
  OBVIOUS
<1>1. /\ sd # 0 /\ next = Len(groups)
      /\ UNCHANGED <<machine, queue, allowed, cur_cpu>>
      /\ next' = 0 /\ idlest' = NoGroup /\ this' = NotSeen
      /\ new_cpu' = new_cpu \/ new_cpu' \in idlest.group \cap allowed
      /\ (sd' = sd - 1 /\ cpu' = cpu) \/ Moves
  BY DescendCases
<1>2. Stands BY DEF IInv
<1>3. /\ machine' \in Machines /\ queue' \in [machine'.online -> QueueState]
      /\ allowed' \in SUBSET machine'.online /\ allowed' # {} /\ cur_cpu' \in machine'.online
      /\ new_cpu' \in machine'.online
  BY <1>1, <1>2 DEF Stands
<1>4. cpu' \in machine.online /\ sd' \in 0 .. NrLevel
      /\ (sd' # 0 => HasDomain(machine, sd', cpu'))
  <2>1. CASE sd' = sd - 1 /\ cpu' = cpu BY <1>1, <1>2, <2>1, LevelBelow DEF Stands
  <2>2. CASE Moves
    <3>1. cpu' \in allowed BY <2>2, BestOfGroup DEF Moves
    <3>2. cpu' \in machine.online BY <1>2, <3>1 DEF Stands
    <3> QED BY <1>1, <2>2, <3>2, SmallerDomain DEF Moves
  <2> QED BY <1>1, <2>1, <2>2
<1>5. ASSUME sd' # 0 PROVE Len(groups)' \in Nat
  <2> DEFINE n == Cardinality(Groups(machine, sd', cpu'))
             ring == Ring(machine, sd', cpu')
  <2>1. sd' \in Level /\ IsMachine(machine)
    BY <1>2, <1>4, <1>5, InputAssumption DEF Level, NrLevel, Stands
  <2>2. groups' = ring
    <3>1. machine' \in Machines /\ sd' \in Level /\ cpu' \in machine'.online
      BY <1>1, <1>3, <1>4, <2>1
    <3> QED BY <1>1, <3>1, RingIsNext
  <2>3. n \in Nat /\ ring \in [1 .. n -> Groups(machine, sd', cpu')]
    BY <1>4, <2>1, RingPlaces
  <2> HIDE DEF n, ring
  <2>4. Len(ring) \in Nat BY <2>3
  <2> QED BY <2>2, <2>4
<1>6. Stands' BY <1>1, <1>3, <1>4, <1>5 DEF Stands
<1>7. (Compared /\ Rests)'
  BY <1>1, InputAssumption DEF Compared, Rests, IdlestWeighed, NoGroup
<1>8. this'.runnable # {} /\ this'.runnable \subseteq Int
  BY <1>1, InputAssumption DEF NotSeen
<1>9. StaysAllowed' BY <1>1 DEF StaysAllowed
<1> QED BY <1>6, <1>7, <1>8, <1>9 DEF IInv

LEMMA InvAlways == Spec => [](IInv /\ StaysAllowed)
<1>1. IInv /\ StaysAllowed /\ [Next]_vars => IInv' /\ StaysAllowed'
  <2> SUFFICES ASSUME IInv, StaysAllowed, [Next]_vars PROVE IInv' /\ StaysAllowed'
    OBVIOUS
  <2>1. CASE WeighGroup BY <2>1, WeighKeeps DEF StaysAllowed, input
  <2>2. CASE Descend BY <2>2, DescendKeeps
  <2>3. CASE UNCHANGED vars
    BY <2>3 DEF IInv, Stands, Compared, IdlestWeighed, Rests, StaysAllowed, Considered,
                groups, runnable_load, MeanOver, vars, input
  <2> QED BY <2>1, <2>2, <2>3 DEF Next
<1> QED BY <1>1, StartsWell, PTL DEF Spec

-----------------------------------------------------------------------------
(* The theorems.                                                           *)

\* The domain that is searched is one of cpu's, the ring is not overrun, and
\* the idlest group is one the task may run in other than the local one.
THEOREM TypeCorrect == Spec => []TypeOK
<1>1. IInv => TypeOK
  BY DEF IInv, Stands, Compared, Rests, IdlestWeighed, TypeOK
<1> QED BY <1>1, InvAlways, PTL

\* The answer is the CPU that wakes the task up, or one the task may run on
\* (find_idlest_group skips the groups without an allowed CPU,
\* find_idlest_group_cpu the CPUs that are not allowed, except in a group that
\* is known to have a single CPU).
THEOREM AnswerAllowed == Spec => []StaysAllowed
BY InvAlways, PTL

\* A step to another CPU is a move into the group that was chosen.
LEMMA StepMoves ==
    ASSUME IInv, [Next]_vars, cpu' # cpu
    PROVE  /\ Moves
           /\ idlest.group \in Groups(machine, sd, cpu)
           /\ cpu' \in idlest.group
           /\ GroupSpan(machine, sd, cpu') = idlest.group
<1>1. CASE WeighGroup BY <1>1, WeighKeeps
<1>2. CASE UNCHANGED vars BY <1>2 DEF vars
<1>3. CASE Descend
  <2>1. Moves BY <1>3, DescendCases
  <2>2. Stands BY DEF IInv
  <2>3. idlest.group \in Groups(machine, sd, cpu) /\ cpu' \in idlest.group
    BY <2>1, BestOfGroup DEF Moves
  <2>4. GroupSpan(machine, sd, cpu') = idlest.group
    BY <2>1, <2>2, <2>3, SearchedGroup DEF Moves
  <2> QED BY <2>1, <2>3, <2>4
<1> QED BY <1>1, <1>2, <1>3 DEF Next

\* Whatever the order of the ring, the slack of one comparison and that of
\* another do not add up beyond twice: the walk goes to a group that carries
\* less than 512 more than any other the task may run in.
THEOREM LightGroupChosen == Spec => MovesToLightGroup
<1> DEFINE Light ==
      cpu' # cpu =>
         LET chosen == GroupSpan(machine, sd, cpu')
             others == {GroupSpan(machine, sd, i) : i \in Span(machine, sd, cpu)}
         IN  \A g \in others : Considered(g) =>
                 runnable_load(chosen) < runnable_load(g) + 2 * imbalance
<1>1. IInv /\ [Next]_vars => Light
  <2> SUFFICES ASSUME IInv, [Next]_vars, cpu' # cpu,
                      NEW h \in Groups(machine, sd, cpu), Considered(h)
               PROVE  runnable_load(GroupSpan(machine, sd, cpu'))
                        < runnable_load(h) + 2 * imbalance
    BY DEF Groups
  <2> DEFINE g == idlest.group
             m == idlest.min_runnable
  <2>1. /\ Moves /\ GroupSpan(machine, sd, cpu') = g
        /\ g \in Groups(machine, sd, cpu)
    BY StepMoves
  <2>2. Stands /\ sd # 0 /\ g # {} /\ next = Len(groups) BY <2>1 DEF IInv, Moves
  <2>3. runnable_load(g) \in Int /\ runnable_load(h) \in Int BY <2>1, <2>2, LoadOfGroup
  <2>4. m \in Int /\ runnable_load(g) < m + imbalance
    BY <2>2 DEF IInv, Compared, IdlestWeighed
  <2>5. PICK i \in 1 .. next : groups[i] = h BY <2>2, SearchedRing
  <2>6. m <= runnable_load(h) + imbalance
    <3>1. IF cpu \in h THEN this.runnable = {runnable_load(h)}
          ELSE m <= runnable_load(h) + imbalance
      BY <2>2, <2>5 DEF IInv, Compared
    <3>2. \E this_runnable \in this.runnable : m <= this_runnable + imbalance
      BY <2>1 DEF Moves
    <3> QED BY <3>1, <3>2
  <2> HIDE DEF g, m
  <2>7. runnable_load(g) < runnable_load(h) + 2 * imbalance
    BY <2>3, <2>4, <2>6 DEF imbalance
  <2> QED BY <2>1, <2>7
<1>2. Spec => [][Light]_vars BY <1>1, InvAlways, PTL DEF Spec
<1> QED BY <1>2, PTL DEF MovesToLightGroup

\* If a CPU of the chosen group that the task may run on is idle, the walk goes
\* to an idle one, also where the group's weight was never filled in.
THEOREM IdleCpuTaken == Spec => TakesIdleCpu
<1> DEFINE Idle ==
      cpu' # cpu =>
         LET candidates == GroupSpan(machine, sd, cpu') \cap allowed
         IN  (\E c \in candidates : queue[c].idle) => queue[cpu'].idle
<1>1. IInv /\ [Next]_vars => Idle
  <2> SUFFICES ASSUME IInv, [Next]_vars, cpu' # cpu,
                      \E c \in GroupSpan(machine, sd, cpu') \cap allowed : queue[c].idle
               PROVE  queue[cpu'].idle
    OBVIOUS
  <2>1. Moves /\ GroupSpan(machine, sd, cpu') = idlest.group BY StepMoves
  <2> QED BY <2>1, BestOfGroup DEF Moves
<1>2. Spec => [][Idle]_vars BY <1>1, InvAlways, PTL DEF Spec
<1> QED BY <1>2 DEF TakesIdleCpu

\* The size of the domain that is searched.
Searched == cpumask_weight(Span(machine, sd, cpu))

\* Every round ends the search, or goes on in a smaller domain, or a level down
\* on the same CPU in one that is not larger: select_task_rq_fair cannot come
\* back to a domain it has searched.
RoundsShrink ==
    [][Descend => \/ sd' = 0
                  \/ Searched' < Searched
                  \/ sd' < sd /\ Searched' <= Searched]_vars

\* Every round searches less than the one before, on any machine.
THEOREM SearchShrinks == Spec => RoundsShrink
<1> DEFINE Less == Descend => \/ sd' = 0
                              \/ Searched' < Searched
                              \/ sd' < sd /\ Searched' <= Searched
<1>1. IInv => Less
  <2> SUFFICES ASSUME IInv, Descend, sd' # 0
               PROVE  Searched' < Searched \/ (sd' < sd /\ Searched' <= Searched)
    OBVIOUS
  <2>1. sd # 0 /\ machine' = machine /\ ((sd' = sd - 1 /\ cpu' = cpu) \/ Moves)
    BY DescendCases
  <2>2. Stands /\ sd \in Int BY DEF IInv, Stands, NrLevel
  <2>3. CASE sd' = sd - 1 /\ cpu' = cpu
    <3>1. Searched' <= Searched BY <2>1, <2>3, LevelBelow DEF Searched
    <3> QED BY <2>2, <2>3, <3>1
  <2>4. CASE Moves
    <3>1. cpu' \in allowed BY <2>4, BestOfGroup DEF Moves
    <3>2. cpu' \in machine.online BY <2>2, <3>1 DEF Stands
    <3>3. sd' = DomainBelow(cpu', sd) BY <2>4 DEF Moves
    <3>4. cpumask_weight(Span(machine, sd', cpu')) < cpumask_weight(Span(machine, sd, cpu))
      BY <2>1, <3>2, <3>3, SmallerDomain
    <3>5. Searched' < Searched BY <2>1, <3>4 DEF Searched
    <3> QED BY <3>5
  <2> QED BY <2>1, <2>3, <2>4
<1>2. Spec => [][Less]_vars BY <1>1, InvAlways, PTL DEF Spec
<1> QED BY <1>2 DEF RoundsShrink
=============================================================================
