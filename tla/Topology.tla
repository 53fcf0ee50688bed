------------------------------- MODULE Topology ------------------------------
(***************************************************************************)
(* sched_init_domains (sched.hpp): the domains of every CPU are            *)
(* constructed level by level, then the rings of groups are built, then    *)
(* the capacities are filled in from the last CPU to the first, and the    *)
(* lowest domain of a CPU is attached to its run queue.  One domain per    *)
(* step, and one CPU of a domain while its ring is built.                  *)
(***************************************************************************)
EXTENDS SchedDomains

CONSTANTS
    Machines,      \* the machines that are built
    Garbage        \* what the memory of a new domain may hold

ASSUME MachinesAssumption == \A m \in Machines : IsMachine(m)

VARIABLES
    machine,
    phase,         \* the loop of sched_init_domains that is running
    cpu,           \* its loop variable
    tmp_sd,        \* the domain visited last, or next; NULL at a CPU's start
    i, built,      \* the loop of build_sched_groups: its variable, NoCpu until
                   \* it starts; the CPUs covered and the groups so far
    sd,            \* topology_level->sd[cpu], by level and CPU
    sgc,           \* topology_level->sgc[cpu]
    rq_sd,         \* runqueues[cpu]->sd
    cpu_capacity   \* runqueues[cpu]->cpu_capacity

vars == <<machine, phase, cpu, tmp_sd, i, built, sd, sgc, rq_sd, cpu_capacity>>

NULL == <<>>
Domain == Level \X CPU
Unbuilt == [span |-> {}]
NoGroups == [covered |-> {}, ring |-> <<>>]

first_online == find_first_bit(machine.online)
last_online  == Max(machine.online)

\* for_each_cpu, and the descending loop over the online CPUs.
CpuAfter(c)  == find_first_bit({x \in machine.online : x > c})
CpuBefore(c) == LET below == {x \in machine.online : x < c}
                IN  IF below = {} THEN NoCpu ELSE Max(below)

Init ==
    /\ machine \in Machines
    /\ phase = "construct" /\ cpu = first_online /\ tmp_sd = NULL
    /\ i = NoCpu /\ built = NoGroups
    /\ sd = [d \in Domain |-> Unbuilt]
    /\ sgc = [d \in Domain |-> [capacity |-> 0, min_capacity |-> 0, span |-> {}]]
    /\ rq_sd = [c \in CPU |-> NULL]
    /\ cpu_capacity = [c \in CPU |-> 0]

-----------------------------------------------------------------------------
\* The constructor of sched_domain, and the pointer it sets in its child.
\* nr_balance_failed and groups are not initialised.
NewDomain(l, c, child, garbage) ==
    LET weight == cpumask_weight(tl_mask(machine, l, c))
    IN  [level |-> IF child = NULL THEN 0 ELSE sd[child].level + 1,
         parent |-> NULL, child |-> child,
         span |-> cpumask_and(machine.online, tl_mask(machine, l, c)).dst,
         min_interval |-> weight, max_interval |-> 2 * weight,
         balance_interval |-> weight, nr_balance_failed |-> garbage,
         groups |-> <<>>]

\* Mutant: the levels go on until the span has all CPUs, online or not.
Covers_all(span) == span = CPU

\* cpumask_equal(cpu_map, span): no level above is needed.
Covers(span) == span = machine.online

construct_domain ==
    /\ phase = "construct"
    /\ LET l == IF tmp_sd = NULL THEN 1 ELSE tmp_sd[1] + 1
       IN  \E garbage \in Garbage :
           LET new == NewDomain(l, cpu, tmp_sd, garbage)
               last == Covers(new.span) \/ l = NrLevel
           IN  /\ sd' = [d \in Domain |->
                           IF d = <<l, cpu>> THEN new
                           ELSE IF d = tmp_sd THEN [sd[d] EXCEPT !.parent = <<l, cpu>>]
                           ELSE sd[d]]
               /\ IF ~last
                  THEN tmp_sd' = <<l, cpu>> /\ UNCHANGED <<phase, cpu>>
                  ELSE IF CpuAfter(cpu) # NoCpu
                  THEN tmp_sd' = NULL /\ cpu' = CpuAfter(cpu) /\ UNCHANGED phase
                  ELSE /\ phase' = "groups" /\ cpu' = first_online
                       /\ tmp_sd' = <<1, first_online>>
    /\ UNCHANGED <<machine, i, built, sgc, rq_sd, cpu_capacity>>

\* sched_domain::get_group: which group CPU x is in, one level below.
get_group(l, x) ==
    LET child == sd[<<l, x>>].child
    IN  IF child = NULL THEN [sgc |-> <<l, x>>, span |-> {x}]
        ELSE [sgc |-> <<l, find_first_bit(sd[child].span)>>, span |-> sd[child].span]

\* Mutant: the CPUs of a group are not remembered.
AddGroup_uncovered(l, x) ==
    [built EXCEPT !.ring = Append(@, [span |-> get_group(l, x).span, group_weight |-> 0,
                                      sgc |-> get_group(l, x).sgc])]

\* The body of the loop of build_sched_groups.
AddGroup(l, x) ==
    LET g == get_group(l, x)
    IN  IF x \in built.covered THEN built
        ELSE [covered |-> built.covered \cup g.span,
              ring |-> Append(built.ring, [span |-> g.span, group_weight |-> 0,
                                           sgc |-> g.sgc])]

\* What get_group writes into the capacity record of the group.
FreshSgc(g) == [capacity |-> SCHED_CAPACITY_SCALE * cpumask_weight(g.span),
                min_capacity |-> SCHED_CAPACITY_SCALE, span |-> g.span]

\* Where a loop over the CPUs that visits the domains of each bottom-up goes
\* after the domain tmp_sd: to its parent, to the next CPU's lowest domain, or
\* to the loop after this one.
Onward(following, next_phase, first) ==
    LET parent == sd[tmp_sd].parent
    IN  IF parent # NULL THEN tmp_sd' = parent /\ UNCHANGED <<phase, cpu>>
        ELSE IF following # NoCpu
        THEN tmp_sd' = <<1, following>> /\ cpu' = following /\ UNCHANGED phase
        ELSE phase' = next_phase /\ cpu' = first /\ tmp_sd' = <<1, first>>

\* A round of for_each_cpu_from(i, span, cpu - 1).
build_sched_groups ==
    /\ phase = "groups"
    /\ LET span  == sd[tmp_sd].span
           start == find_next_bit(span, cpu - 1)
           at    == IF i = NoCpu THEN start ELSE i
           next  == find_next_bit(span, at)
           g     == get_group(tmp_sd[1], at)
           more  == AddGroup(tmp_sd[1], at)
       IN  /\ sgc' = IF at \in built.covered THEN sgc
                     ELSE [sgc EXCEPT ![g.sgc] = FreshSgc(g)]
           /\ IF next \in {start, NoCpu}
              THEN /\ sd' = [sd EXCEPT ![tmp_sd].groups = more.ring]
                   /\ i' = NoCpu /\ built' = NoGroups
                   /\ Onward(CpuAfter(cpu), "capacity", last_online)
              ELSE i' = next /\ built' = more /\ UNCHANGED <<phase, cpu, tmp_sd, sd>>
    /\ UNCHANGED <<machine, rq_sd, cpu_capacity>>

\* The capacity record of the local group of domain d.
update_group_capacity(d) ==
    LET child == sd[d].child
        groups == sd[child].groups
        capacities == [n \in DOMAIN groups |-> sgc[groups[n].sgc].capacity]
        own == sgc[sd[d].groups[1].sgc]
    IN  IF child = NULL
        THEN [own EXCEPT !.capacity = SCHED_CAPACITY_SCALE, !.min_capacity = SCHED_CAPACITY_SCALE]
        ELSE [own EXCEPT !.capacity = SumFunction(capacities),
                         !.min_capacity = Min(ToSet(capacities))]

\* The CPU that fills in a domain: the first of the local group.
FillsIn(c, span) == c = find_first_bit(span)

init_sched_groups_capacity ==
    /\ phase = "capacity"
    /\ LET groups == sd[tmp_sd].groups
           local == groups[1].sgc
           weighed == [n \in DOMAIN groups |->
                         [groups[n] EXCEPT !.group_weight = cpumask_weight(groups[n].span)]]
       IN  IF FillsIn(cpu, sgc[local].span)
           THEN /\ sd' = [sd EXCEPT ![tmp_sd].groups = weighed]
                /\ sgc' = [sgc EXCEPT ![local] = update_group_capacity(tmp_sd)]
                /\ cpu_capacity' = IF sd[tmp_sd].child # NULL THEN cpu_capacity
                                   ELSE [cpu_capacity EXCEPT ![cpu] = SCHED_CAPACITY_SCALE]
           ELSE UNCHANGED <<sd, sgc, cpu_capacity>>
    /\ Onward(CpuBefore(cpu), "attach", first_online)
    /\ UNCHANGED <<machine, i, built, rq_sd>>

cpu_attach_domain ==
    /\ phase = "attach"
    /\ rq_sd' = [rq_sd EXCEPT ![cpu] = <<1, cpu>>]
    /\ IF CpuAfter(cpu) # NoCpu
       THEN cpu' = CpuAfter(cpu) /\ UNCHANGED phase
       ELSE phase' = "done" /\ UNCHANGED cpu
    /\ UNCHANGED <<machine, tmp_sd, i, built, sd, sgc, cpu_capacity>>

Next == construct_domain \/ build_sched_groups \/ init_sched_groups_capacity
        \/ cpu_attach_domain

Spec == Init /\ [][Next]_vars

-----------------------------------------------------------------------------
Built(d) == sd[d].span # {}

\* Every domain has been built that should be, with the ring, the weights and
\* the capacities that SchedDomains describes; parent and child pointers agree,
\* and a domain lies within its parent.
BuiltAsDescribed ==
    phase = "done" =>
        \A c \in CPU, l \in Level :
            LET d == <<l, c>> IN
            /\ Built(d) <=> c \in machine.online /\ HasDomain(machine, l, c)
            /\ Built(d) =>
                 /\ sd[d].span = Span(machine, l, c)
                 /\ \A up \in {sd[d].parent} \ {NULL} :
                       sd[up].child = d /\ sd[d].span \subseteq sd[up].span
                 /\ \A down \in {sd[d].child} \ {NULL} : sd[down].parent = d
                 /\ [n \in DOMAIN sd[d].groups |-> sd[d].groups[n].span] = Ring(machine, l, c)
                 /\ \A g \in ToSet(sd[d].groups) :
                       /\ g.sgc = SgcOf(l, g.span)
                       /\ g.group_weight = GroupWeight(machine, l, c, g.span)
                       /\ sgc[g.sgc].capacity = Capacity(g.span)
                       /\ sgc[g.sgc].span = g.span

\* From the run queue of a CPU one reaches its domains, each with the CPU in
\* its first group, and groups that split the span.
GroupsSplitSpan ==
    phase \in {"capacity", "attach", "done"} =>
        \A d \in {x \in Domain : Built(x)} :
            LET groups == sd[d].groups IN
            /\ d[2] \in groups[1].span
            /\ sd[d].span = UNION {g.span : g \in ToSet(groups)}
            /\ \A n, k \in DOMAIN groups :
                  n # k => groups[n].span \cap groups[k].span = {}

-----------------------------------------------------------------------------
(* What the source says of itself and does not keep.                       *)

\* sched_group.hpp:15: min_capacity is the "Min per-CPU capacity in group".
MinCapacityPerCpu ==
    phase = "done" => \A d \in Domain : sgc[d].span # {} =>
        sgc[d].min_capacity = Min({cpu_capacity[c] : c \in sgc[d].span})

\* sched_domain.hpp:55: nr_balance_failed, "initialise to 0".
FailuresStartAtZero ==
    phase = "done" => \A d \in Domain : Built(d) => sd[d].nr_balance_failed = 0
=============================================================================
