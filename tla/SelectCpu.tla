------------------------------ MODULE SelectCpu ------------------------------
(***************************************************************************)
(* The CPU a new task is put on (sched.hpp): select_task_rq_fair walks     *)
(* down from the highest domain of the waking CPU, each time into the      *)
(* idlest group and its idlest CPU.  One group is weighed per step.        *)
(* Nothing else runs meanwhile, so the loads are inputs.                   *)
(***************************************************************************)
EXTENDS SchedDomains

CONSTANTS
    Machines,      \* the machines it runs on
    QueueState,    \* what a run queue may look like: [idle, runnable, load]
    StackWord,     \* what uninitialised memory may hold
    ULONG_MAX_100  \* ULONG_MAX / 100, and ULONG_MAX where it is only compared:
                   \* more than any load times 112

ASSUME InputAssumption ==
    /\ \A m \in Machines : IsMachine(m)
    /\ StackWord \subseteq Nat /\ StackWord # {} /\ ULONG_MAX_100 \in Nat
    /\ \A q \in QueueState : /\ q.idle \in BOOLEAN
                             /\ q.runnable \in Nat /\ q.load \in Nat
                             /\ NR_CPU * 112 * q.runnable < ULONG_MAX_100
                             /\ NR_CPU * 112 * q.load < ULONG_MAX_100

VARIABLES
    machine,
    queue,         \* the state of every run queue
    allowed,       \* p->cpus_allowed
    cur_cpu,       \* the CPU that wakes the task up
    sd,            \* the level of the domain that is searched; 0: none is left
    cpu,           \* the CPU the domain is that of
    new_cpu,       \* the answer so far
    next,          \* how many groups of the domain have been weighed
    idlest,        \* the idlest of them, and the loads it is compared by
    this           \* the loads of the local group

input == <<machine, queue, allowed, cur_cpu>>
vars == <<machine, queue, allowed, cur_cpu, sd, cpu, new_cpu, next, idlest, this>>

\* imbalance_pct is 125 in every domain.
imbalance       == 256
imbalance_scale == 112

NoGroup == [min_runnable |-> ULONG_MAX_100, min_avg |-> ULONG_MAX_100, group |-> {}]

\* this_runnable_load is only written when the local group is weighed: until
\* then it is any of the words the stack may hold.
NotSeen == [runnable |-> StackWord, avg |-> ULONG_MAX_100]

\* select_task_rq_fair; a task that is allowed on one CPU gets that one.
Init ==
    /\ machine \in Machines
    /\ queue \in [machine.online -> QueueState]
    /\ allowed \in (SUBSET machine.online) \ {{}}
    /\ cur_cpu \in machine.online
    /\ cpu = cur_cpu
    /\ IF cpumask_weight(allowed) > 1
       THEN sd = TopLevel(machine, cur_cpu) /\ new_cpu = cur_cpu
       ELSE sd = 0 /\ new_cpu = find_first_bit(allowed)
    /\ next = 0 /\ idlest = NoGroup /\ this = NotSeen

-----------------------------------------------------------------------------
\* The mean per CPU of a group of the loads of its queues.
MeanOver(g, load) == (SumFunctionOnSet(load, g) * SCHED_CAPACITY_SCALE) \div Capacity(g)

runnable_load(g) == MeanOver(g, [c \in g |-> queue[c].runnable])
avg_load(g)      == MeanOver(g, [c \in g |-> queue[c].load])

\* The rings of all domains, so that TLC sorts them once.
RingOf == [m \in Machines |-> [l \in Level |-> [c \in m.online |-> Ring(m, l, c)]]]

groups == RingOf[machine][sd][cpu]

\* Mutant: only the load of the queued tasks is compared, without the slack.
Weigh_strictly(g, runnable, avg) ==
    idlest' = IF avg < idlest.min_avg
              THEN [min_runnable |-> runnable, min_avg |-> avg, group |-> g] ELSE idlest

\* A group that is not the local one: it is the idlest so far if its load is
\* significantly smaller, or if it is close and its average load smaller.
Weigh(g, runnable, avg) ==
    idlest' =
      IF idlest.min_runnable > runnable + imbalance
      THEN [min_runnable |-> runnable, min_avg |-> avg, group |-> g]
      ELSE IF /\ runnable < idlest.min_runnable + imbalance
              /\ 100 * idlest.min_avg > imbalance_scale * avg
      THEN [min_runnable |-> idlest.min_runnable, min_avg |-> avg, group |-> g]
      ELSE idlest

\* Mutant: groups the task may not run in are not left out.
Considered_all(g) == TRUE

Considered(g) == cpumask_intersects(g, allowed)

\* One round of the loop of find_idlest_group.
WeighGroup ==
    /\ sd # 0 /\ next < Len(groups)
    /\ next' = next + 1
    /\ LET g == groups[next + 1]
       IN  IF ~Considered(g) THEN UNCHANGED <<idlest, this>>
           ELSE IF cpu \in g
           THEN /\ this' = [runnable |-> {runnable_load(g)}, avg |-> avg_load(g)]
                /\ UNCHANGED idlest
           ELSE /\ Weigh(g, runnable_load(g), avg_load(g))
                /\ UNCHANGED this
    /\ UNCHANGED <<input, sd, cpu, new_cpu>>

\* find_idlest_group returns NULL, given the load of the local group.
Stays(this_runnable) ==
    \/ idlest.group = {}
    \/ idlest.min_runnable > this_runnable + imbalance
    \/ /\ this_runnable < idlest.min_runnable + imbalance
       /\ 100 * this.avg < imbalance_scale * idlest.min_avg

\* Mutant: an idle CPU is only found by its load.
find_idlest_group_cpu_average(g, weight) ==
    find_first_bit({c \in g \cap allowed : \A x \in g \cap allowed :
                        queue[c].load <= queue[x].load})

\* The CPU of group g: its only one, if the group is known to have one; else
\* the first idle one, or the least loaded.
find_idlest_group_cpu(g, weight) ==
    LET candidates == g \cap allowed
        idle == {c \in candidates : queue[c].idle}
        least == {c \in candidates : \A x \in candidates :
                                        queue[c].runnable <= queue[x].runnable}
    IN  IF weight = 1 THEN find_first_bit(g)
        ELSE IF idle # {} THEN find_first_bit(idle)
        ELSE IF cpu \in least THEN cpu
        ELSE find_first_bit(least)

\* Mutant: the walk may go on in a domain as large as the one it has searched.
DomainBelow_same(c, l) == l

\* The highest domain of c that is smaller than the one at level l of cpu.
DomainBelow(c, l) ==
    LET weight == cpumask_weight(Span(machine, l, cpu))
        smaller(k) == HasDomain(machine, k, c) /\ cpumask_weight(Span(machine, k, c)) < weight
    IN  Max({0} \cup {k \in Level : \A j \in 1 .. k : smaller(j)})

\* The rest of a round of find_idlest_cpu: into the idlest group, or down.
Descend ==
    /\ sd # 0 /\ next = Len(groups)
    /\ \E this_runnable \in this.runnable :
         LET best == find_idlest_group_cpu(idlest.group,
                                           GroupWeight(machine, sd, cpu, idlest.group))
         IN  IF Stays(this_runnable)
             THEN sd' = sd - 1 /\ UNCHANGED <<cpu, new_cpu>>
             ELSE /\ new_cpu' = best
                  /\ IF best = cpu THEN sd' = sd - 1 /\ UNCHANGED cpu
                     ELSE cpu' = best /\ sd' = DomainBelow(best, sd)
    /\ next' = 0 /\ idlest' = NoGroup /\ this' = NotSeen
    /\ UNCHANGED input

Next == WeighGroup \/ Descend

Spec == Init /\ [][Next]_vars

\* The search is plain code: it goes on while there is a domain.
FairSpec == Spec /\ WF_vars(Next)

-----------------------------------------------------------------------------
Done == sd = 0

\* Types; the domain that is searched is one of cpu's.
TypeOK ==
    /\ machine \in Machines /\ allowed \subseteq machine.online
    /\ {cur_cpu, cpu, new_cpu} \subseteq machine.online
    /\ sd \in 0 .. NrLevel
    /\ sd # 0 => HasDomain(machine, sd, cpu) /\ next \in 0 .. Len(groups)
    /\ idlest.group # {} => Considered(idlest.group) /\ cpu \notin idlest.group
    /\ this.runnable # {}

\* The walk only ever leaves a CPU for one the task may run on, and so never
\* leads out of the allowed CPUs once it is there.
StaysAllowed == new_cpu = cur_cpu \/ new_cpu \in allowed

\* The search ends: every round searches a smaller domain.
SearchEnds == <>Done

\* A step to another CPU goes to a group that carries less than 512 more than
\* any other group the task may run in, the one it comes from included: the
\* 256 of slack in choosing cannot add up over a ring of groups.
MovesToLightGroup ==
    [][cpu' # cpu =>
         LET chosen == GroupSpan(machine, sd, cpu')
             others == {GroupSpan(machine, sd, i) : i \in Span(machine, sd, cpu)}
         IN  \A g \in others : Considered(g) =>
                 runnable_load(chosen) < runnable_load(g) + 2 * imbalance]_vars

\* Within the group it has chosen, the walk goes to an idle CPU if there is one.
TakesIdleCpu ==
    [][cpu' # cpu =>
         LET candidates == GroupSpan(machine, sd, cpu') \cap allowed
         IN  (\E c \in candidates : queue[c].idle) => queue[cpu'].idle]_vars

-----------------------------------------------------------------------------
(* What the source says of itself and does not keep.                       *)

\* sched.hpp:506-508: "When waking up a new task, select_task_rq_fair will
\* choose the idlest rq from idlest sched_group"; groups without an allowed
\* CPU are not among those it chooses from.
ChoosesFromGroups ==
    Done /\ allowed \cap Span(machine, TopLevel(machine, cur_cpu), cur_cpu) # {}
    => new_cpu \in allowed
=============================================================================
