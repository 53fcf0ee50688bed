----------------------------- MODULE SchedDomains ----------------------------
(***************************************************************************)
(* The scheduling domains and groups a machine gets: for every level and   *)
(* CPU the domain's span, the ring of its groups, and what is known of     *)
(* them.  Topology builds them as the code does and is compared with this; *)
(* the balancer and the CPU selection read them.                           *)
(*                                                                         *)
(* A machine is what init_cpus reads from the file: the online CPUs and,   *)
(* for the levels of default_topology (threads of a core, CPUs of a node,  *)
(* CPUs of the neighbour nodes), the siblings of every CPU.                *)
(***************************************************************************)
EXTENDS CpuMask, SequencesExt

SCHED_CAPACITY_SCALE == 1024
NrLevel == 3
Level == 1 .. NrLevel

\* A machine: its online CPUs and the cores, nodes and neighbourhoods as
\* functions from CPUs to masks.
MachineOf(online, core, node, hop) ==
    [online |-> online, mask |-> <<core, node, hop>>]

\* The masks parse.py can produce: a CPU is its own sibling, cores and nodes
\* are disjoint, a core is within a node, and the CPUs of a node have the same
\* neighbours, whole nodes.  There are CPUs that are offline.
IsMachine(m) ==
    /\ m.online \in Mask \ {{}}
    /\ \A l \in Level, c \in CPU :
          LET s == m.mask[l][c] IN
          /\ c \in s
          /\ l # NrLevel => \A x \in s : m.mask[l][x] = s
          /\ l > 1 => \A x \in s : m.mask[l - 1][x] \subseteq s

\* cpu_smt_mask, cpu_coregroup_mask, cpu_one_hop_apart_mask.
tl_mask(m, l, c) == m.mask[l][c] \cap m.online

Span(m, l, c) == m.online \cap tl_mask(m, l, c)

\* The levels a CPU has a domain at: up to the first that spans everything.
HasDomain(m, l, c) == \A k \in 1 .. l - 1 : Span(m, k, c) # m.online

TopLevel(m, c) == CHOOSE l \in Level : /\ HasDomain(m, l, c)
                                       /\ l < NrLevel => ~HasDomain(m, l + 1, c)

\* The CPUs of the group that CPU i belongs to in the domains of level l.
GroupSpan(m, l, i) == IF l = 1 THEN {i} ELSE Span(m, l - 1, i)

\* The groups of the domain of c.
Groups(m, l, c) == {GroupSpan(m, l, i) : i \in Span(m, l, c)}

\* How far it is from c, upwards and round, to the nearest CPU of a group.
Distance(c, g) == Min({(x - c) % NR_CPU : x \in g})

\* The ring: the groups by their distance from c.
Ring(m, l, c) ==
    LET Place(g) == Cardinality({h \in Groups(m, l, c) : Distance(c, h) <= Distance(c, g)})
    IN  [n \in 1 .. Cardinality(Groups(m, l, c)) |->
            CHOOSE g \in Groups(m, l, c) : Place(g) = n]

\* The capacity record a group shares in all domains of its level.
SgcOf(l, g) == <<l, Min(g)>>

Capacity(g) == SCHED_CAPACITY_SCALE * Cardinality(g)

\* sched_group::group_weight as it stands in the domain of c: only the first
\* CPU of the local group fills it in, in the others it stays 0.
GroupWeight(m, l, c, g) ==
    IF c = Min(GroupSpan(m, l, c)) THEN Cardinality(g) ELSE 0
=============================================================================
