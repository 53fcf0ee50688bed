----------------------------- MODULE LoadBalance -----------------------------
(***************************************************************************)
(* The periodic load balancer (sched.hpp): a tick of a CPU walks up its    *)
(* domains, and in each looks for the busiest group and queue and pulls    *)
(* tasks from there.  What it decides is modelled with its arithmetic; of  *)
(* the run queues only the task lists, the running tasks and the loads are *)
(* kept (RunQueue has the rest).                                           *)
(*                                                                         *)
(* One task is looked at per step.  Nothing interleaves with a walk, but   *)
(* tasks are woken and CPUs reschedule between two walks.                  *)
(*                                                                         *)
(* rebalance_domains only passes CPU_IDLE and CPU_NOT_IDLE, loop_max is at *)
(* most loop_break, and continue_balancing is never cleared, because       *)
(* choose_src_rq clears its copy of the pointer: what hangs on             *)
(* CPU_NEWLY_IDLE, LBF_NEED_BREAK and continue_balancing cannot happen.    *)
(***************************************************************************)
EXTENDS SchedDomains

CONSTANTS
    Machine,        \* the machine, as in SchedDomains
    Tasks, NULL,
    Load,           \* Load[t]: se->avg->load_avg of a task that always runs,
                    \* the weight of its nice value
    Affinities,     \* what allowed may be: functions from tasks to masks
    Util,           \* what util_avg of a queue may be
    UninitFailed,   \* what nr_balance_failed may be in a new domain
    UninitCount     \* what h_nr_running may be before it is counted up and down

ASSUME MachineAssumption == IsMachine(Machine)
ASSUME TaskAssumption ==
    /\ NULL \notin Tasks
    /\ \A t \in Tasks : Load[t] \in Nat \ {0}
    /\ Util \subseteq Nat
    /\ UninitFailed \subseteq Nat /\ UninitCount \subseteq Nat
    /\ Affinities \subseteq [Tasks -> SUBSET Machine.online]
    /\ \A a \in Affinities, t \in Tasks : a[t] # {}

Online == Machine.online
Domains == {d \in Level \X Online : HasDomain(Machine, d[1], d[2])}
sysctl_sched_nr_migrate == 32
imbalance_pct == 125

VARIABLES
    allowed,           \* p->cpus_allowed
    queue,             \* rq->cfs_tasks
    curr,              \* rq->curr; NULL is the idle task
    h_start,           \* what h_nr_running was before the first task
    imbalance,         \* sgc->imbalance: the capacity records that have it set
    nr_balance_failed, \* of every domain
    pc,                \* where the balancer is
    this_cpu, sd,      \* the CPU that walks, and the level it is at
    cpu_idle,          \* CPU_IDLE is TRUE
    env,               \* struct lb_env
    sds,               \* struct sd_lb_stats: the groups, the local one first
    ld_moved,          \* the set of values *ld_moved may have
    refused            \* should_we_balance has refused in this walk

vars == <<allowed, queue, curr, h_start, imbalance, nr_balance_failed, pc, this_cpu, sd,
          cpu_idle, env, sds, ld_moved, refused>>
fixed == <<allowed, h_start>>
tasks == <<fixed, queue, curr>>
walk  == <<this_cpu, sd, cpu_idle, refused>>

NoEnv == [dst |-> NoCpu, src |-> NoCpu, cpus |-> {}, new_dst |-> NoCpu,
          imbalance |-> 0, flags |-> {}, loop |-> 0, loop_max |-> 0, tasks |-> << >>]

Init ==
    /\ allowed \in Affinities /\ h_start \in [Online -> UninitCount]
    /\ queue = [c \in Online |-> << >>] /\ curr = [c \in Online |-> NULL]
    /\ imbalance = {}
    /\ nr_balance_failed \in {[d \in Domains |-> f] : f \in UninitFailed}
    /\ pc = "tick" /\ this_cpu = NoCpu /\ sd = 0 /\ cpu_idle = FALSE
    /\ env = NoEnv /\ sds = << >> /\ ld_moved = {0} /\ refused = FALSE

-----------------------------------------------------------------------------
(* Between two walks.                                                      *)

nr_running(c) == Len(queue[c])
h_nr_running(c) == h_start[c] + Len(queue[c])
runnable_load_avg(c) == FoldSeq(LAMBDA t, sum : sum + Load[t], 0, queue[c])
idle_cpu(c) == curr[c] = NULL /\ nr_running(c) = 0
Woken == UNION {ToSet(queue[c]) : c \in Online}

\* A wake-up in the middle of a walk (a mutant).
Wake_midway(t, c) ==
    /\ t \notin Woken /\ c \in allowed[t]
    /\ queue' = [queue EXCEPT ![c] = Cons(t, @)]
    /\ UNCHANGED <<fixed, curr, imbalance, nr_balance_failed, pc, walk, env, ld_moved, sds>>

\* A new task is put on a CPU it may run on.
Wake(t, c) ==
    /\ pc = "tick" /\ t \notin Woken /\ c \in allowed[t]
    /\ queue' = [queue EXCEPT ![c] = Cons(t, @)]
    /\ UNCHANGED <<fixed, curr, imbalance, nr_balance_failed, pc, walk, env, ld_moved, sds>>

\* The CPU picks a task, which moves to the front of the list.
Schedule(c) ==
    /\ pc = "tick"
    /\ \E t \in ToSet(queue[c]) \ {curr[c]} :
         /\ curr' = [curr EXCEPT ![c] = t]
         /\ queue' = [queue EXCEPT ![c] = Cons(t, RemoveFirst(@, t))]
    /\ UNCHANGED <<fixed, imbalance, nr_balance_failed, pc, walk, env, ld_moved, sds>>

-----------------------------------------------------------------------------
(* The walk over the domains.                                              *)

Tick(c) ==
    /\ pc = "tick"
    /\ pc' = "domain" /\ this_cpu' = c /\ sd' = 1 /\ refused' = FALSE
    /\ cpu_idle' = idle_cpu(c)
    /\ UNCHANGED <<tasks, imbalance, nr_balance_failed, env, ld_moved, sds>>

\* The next domain, or the end of the walk.
NextDomain ==
    IF sd < TopLevel(Machine, this_cpu)
    THEN sd' = sd + 1 /\ pc' = "domain"
    ELSE sd' = 0 /\ pc' = "tick"

\* The balancing interval of the domain has not elapsed (BalanceInterval).
NotDue ==
    /\ pc = "domain"
    /\ NextDomain
    /\ IF pc' = "tick" THEN this_cpu' = NoCpu /\ cpu_idle' = FALSE /\ refused' = FALSE
       ELSE UNCHANGED <<this_cpu, cpu_idle, refused>>
    /\ UNCHANGED <<tasks, imbalance, nr_balance_failed, env, ld_moved, sds>>

\* load_balance is called; ld_moved is not initialised.
Due(c, l) ==
    /\ pc = "domain" /\ this_cpu = c /\ sd = l
    /\ pc' = "choose" /\ ld_moved' = {0, 1}
    /\ env' = [NoEnv EXCEPT !.dst = c, !.cpus = Span(Machine, l, c)]
    /\ UNCHANGED <<tasks, imbalance, nr_balance_failed, walk, sds>>

\* load_balance returns: if it says that it moved tasks, the CPU may no longer
\* be idle.
Return(moved) ==
    /\ NextDomain
    /\ env' = NoEnv /\ ld_moved' = {0}
    /\ IF pc' = "tick" THEN this_cpu' = NoCpu /\ cpu_idle' = FALSE
       ELSE /\ UNCHANGED this_cpu
            /\ \E m \in moved : cpu_idle' = IF m = 0 THEN cpu_idle ELSE idle_cpu(this_cpu)

\* do_active_balance and the out_ labels: ld_moved is a pointer there, so the
\* number of failures is always reset, and what it points to is left alone.
Finish == nr_balance_failed' = [nr_balance_failed EXCEPT ![<<sd, this_cpu>>] = 0]

\* The capacity record of the parent's local group; none at the top.
ParentRecord == IF sd < TopLevel(Machine, this_cpu)
                THEN {SgcOf(sd + 1, GroupSpan(Machine, sd + 1, this_cpu))} ELSE {}

-----------------------------------------------------------------------------
(* Choosing what to move, for the domain sd of this_cpu.                   *)

local_group == GroupSpan(Machine, sd, this_cpu)

\* The CPU of the local group that balances this domain: the first idle one of
\* those considered, or else the first.
should_we_balance ==
    LET idle == {c \in local_group \cap env.cpus : idle_cpu(c)}
        balance_cpu == IF idle = {} THEN find_first_bit(local_group) ELSE find_first_bit(idle)
    IN  env.dst \in env.cpus /\ balance_cpu = env.dst

Total(S, f(_)) == FoldSet(LAMBDA c, sum : sum + f(c), 0, S)

\* update_sg_lb_stats.
GroupStats(g, util) ==
    LET cpus == g \cap env.cpus
        load == Total(cpus, runnable_load_avg)
        running == Total(cpus, h_nr_running)
        used == Total(cpus, LAMBDA c : util[c])
        weight == GroupWeight(Machine, sd, this_cpu, g)
    IN  [span |-> g, load |-> load, capacity |-> Capacity(g),
         avg_load |-> (load * SCHED_CAPACITY_SCALE) \div Capacity(g),
         running |-> running,
         idle_cpus |-> Cardinality({c \in cpus : idle_cpu(c)}),
         load_per_task |-> IF running = 0 THEN 0 ELSE load \div running,
         overloaded |-> running > weight /\ Capacity(g) * 100 < used * imbalance_pct,
         has_capacity |-> running < weight \/ Capacity(g) * 100 > used * imbalance_pct,
         imbalanced |-> SgcOf(sd, g) \in imbalance]

\* group_classify: other, imbalanced, overloaded.
group_type(s) == IF s.overloaded THEN 2 ELSE IF s.imbalanced THEN 1 ELSE 0

\* update_sd_lb_stats marks a group of more tasks overloaded if the local one
\* has room.
AgainstLocal(s, local) ==
    [s EXCEPT !.overloaded = @ \/ (local.has_capacity /\ s.running > local.running + 1)]

\* update_sd_pick_busiest over the ring: the greatest type, then the greatest
\* load, the first of these in the ring; {} if it would have neither.
Busiest(others) ==
    LET Heavier(s, t) == \/ group_type(s) > group_type(t)
                         \/ group_type(s) = group_type(t) /\ s.avg_load > t.avg_load
        candidates == {i \in DOMAIN others :
                         /\ group_type(others[i]) > 0 \/ others[i].avg_load > 0
                         /\ \A j \in DOMAIN others : ~Heavier(others[j], others[i])}
    IN  IF candidates = {} THEN {} ELSE {others[Min(candidates)]}

\* fix_small_imbalance.
small_imbalance(local, busiest, computed) ==
    LET imbn == IF local.running # 0 /\ busiest.load_per_task > local.load_per_task THEN 1 ELSE 2
        scaled == (busiest.load_per_task * SCHED_CAPACITY_SCALE) \div busiest.capacity
        Used(capacity, per_task, avg) == capacity * Min({per_task, avg})
        now == (Used(busiest.capacity, busiest.load_per_task, busiest.avg_load)
                + Used(local.capacity, local.load_per_task, local.avg_load))
               \div SCHED_CAPACITY_SCALE
        added == Min({busiest.avg_load * busiest.capacity,
                      busiest.load_per_task * SCHED_CAPACITY_SCALE}) \div local.capacity
        move == ((IF busiest.avg_load > scaled
                  THEN Used(busiest.capacity, busiest.load_per_task, busiest.avg_load - scaled)
                  ELSE 0)
                 + Used(local.capacity, local.load_per_task, local.avg_load + added))
                \div SCHED_CAPACITY_SCALE
    IN  IF \/ busiest.avg_load + scaled >= local.avg_load + scaled * imbn
           \/ move > now
        THEN busiest.load_per_task ELSE computed

\* calculate_imbalance; avg is the mean load of the domain.
imbalance_of(local, found, avg) ==
    LET busiest == IF group_type(found) = 1
                   THEN [found EXCEPT !.load_per_task = Min({@, avg})] ELSE found
        tasks_capacity == busiest.running * SCHED_CAPACITY_SCALE
        above == IF /\ group_type(busiest) = 2 /\ group_type(local) = 2
                    /\ tasks_capacity > busiest.capacity
                 THEN {((tasks_capacity - busiest.capacity) * SCHED_CAPACITY_SCALE)
                         \div busiest.capacity}
                 ELSE {}
        max_pull == Min({busiest.avg_load - avg} \cup above)
        computed == Min({max_pull * busiest.capacity, (avg - local.avg_load) * local.capacity})
                    \div SCHED_CAPACITY_SCALE
    IN  IF busiest.avg_load <= avg \/ local.avg_load >= avg
        THEN small_imbalance(local, busiest, 0)
        ELSE IF computed < busiest.load_per_task
        THEN small_imbalance(local, busiest, computed)
        ELSE computed

\* The domain is balanced, given its busiest group.
Balanced(local, busiest, avg) ==
    /\ group_type(busiest) # 1
    /\ ~(cpu_idle /\ local.has_capacity /\ busiest.overloaded)
    /\ \/ local.avg_load >= busiest.avg_load
       \/ local.avg_load >= avg
       \/ /\ cpu_idle /\ group_type(busiest) # 2
          /\ local.idle_cpus <= busiest.idle_cpus + 1
       \/ ~cpu_idle /\ 100 * busiest.avg_load <= imbalance_pct * local.avg_load

\* The rings of all domains, so that TLC sorts them once.
RingOf == [d \in Domains |-> Ring(Machine, d[1], d[2])]

\* find_busiest_group on the statistics: the group and the imbalance, or nothing.
find_busiest_group ==
    LET local == sds[1]
        others == [i \in DOMAIN Tail(sds) |-> AgainstLocal(sds[i + 1], local)]
        avg == (SCHED_CAPACITY_SCALE * FoldSeq(LAMBDA s, sum : sum + s.load, 0, sds))
               \div FoldSeq(LAMBDA s, sum : sum + s.capacity, 0, sds)
    IN  {[span |-> s.span, imbalance |-> imbalance_of(local, s, avg)] :
            s \in {b \in Busiest(others) : b.running # 0 /\ ~Balanced(local, b, avg)}}

\* find_busiest_queue: the first of those with the greatest load.
find_busiest_queue(span, amount) ==
    LET eligible == {c \in span \cap env.cpus :
                       /\ runnable_load_avg(c) > 0
                       /\ ~(nr_running(c) = 1 /\ runnable_load_avg(c) > amount)}
    IN  find_first_bit({c \in eligible : \A x \in eligible :
                            runnable_load_avg(x) <= runnable_load_avg(c)})

\* choose_src_rq gives up: out_balanced.
OutBalanced ==
    /\ imbalance' = imbalance \ ParentRecord
    /\ Finish /\ Return(ld_moved)
    /\ UNCHANGED tasks

Refuse ==
    /\ pc = "choose" /\ ~should_we_balance
    /\ OutBalanced /\ UNCHANGED sds
    /\ refused' = (pc' # "tick" /\ (refused \/ env.dst = this_cpu))

\* do_migrate leaves a queue with a single task alone.
EnterMigrate(src) == IF nr_running(src) > 1 THEN "detach" ELSE "active"

\* update_sd_lb_stats; util_avg lags behind what the queue does.
UpdateStats ==
    /\ pc = "choose" /\ should_we_balance
    /\ pc' = "busiest"
    /\ \E util \in [Online -> Util] :
         sds' = [i \in DOMAIN RingOf[<<sd, this_cpu>>] |->
                   GroupStats(RingOf[<<sd, this_cpu>>][i], util)]
    /\ UNCHANGED <<tasks, imbalance, nr_balance_failed, walk, env, ld_moved>>

\* The rest of choose_src_rq.
Choose ==
    /\ pc = "busiest" /\ sds' = << >>
    /\ \E found \in {find_busiest_group} :
         \E group \in found \cup {[span |-> {}, imbalance |-> 0]} :
           LET busiest == find_busiest_queue(group.span, group.imbalance)
           IN  /\ found # {} => group \in found
               /\ IF busiest = NoCpu THEN OutBalanced /\ refused' = (refused /\ pc' # "tick")
                  ELSE /\ pc' = EnterMigrate(busiest) /\ ld_moved' = {0}
                       /\ env' = [env EXCEPT !.src = busiest, !.imbalance = group.imbalance,
                                    !.flags = IF nr_running(busiest) > 1
                                              THEN @ \cup {"ALL_PINNED"} ELSE @,
                                    !.loop_max = IF nr_running(busiest) > 1
                                                 THEN Min({sysctl_sched_nr_migrate,
                                                           nr_running(busiest)}) ELSE @]
                       /\ UNCHANGED <<tasks, imbalance, nr_balance_failed, walk>>

-----------------------------------------------------------------------------
(* Moving tasks: detach_tasks, attach_tasks and the rest of do_migrate.    *)

Candidate == Last(queue[env.src])

DetachGoesOn ==
    /\ pc = "detach" /\ nr_running(env.src) > (IF cpu_idle THEN 1 ELSE 0)
    /\ env.imbalance > 0 /\ env.loop < env.loop_max

\* can_migrate_task and what it leaves in env for a task that may not run on
\* the destination: another CPU of the local group that it may run on.
Elsewhere(t) ==
    LET others == GroupSpan(Machine, sd, this_cpu) \cap env.cpus \cap allowed[t]
    IN  IF "DST_PINNED" \in env.flags \/ others = {}
        THEN [env EXCEPT !.flags = @ \cup {"SOME_PINNED"}]
        ELSE [env EXCEPT !.flags = @ \cup {"SOME_PINNED", "DST_PINNED"},
                         !.new_dst = find_first_bit(others)]

\* The wrong queue is asked (mutants).
Pinned_source(t) == env.src \notin allowed[t]
Running_there(t) == t = curr[env.dst]
TooLarge_whole(t) == Load[t] >= env.imbalance

Pinned(t) == env.dst \notin allowed[t]

Running(t) == t = curr[env.src]

TooSmall(t) == Load[t] < 16 /\ nr_balance_failed[<<sd, this_cpu>>] = 0

TooLarge(t) == Load[t] \div 2 > env.imbalance

\* A task that stays is not counted (a mutant).
DetachKeep_uncounted ==
    /\ DetachGoesOn
    /\ LET t == Candidate
           seen == IF Pinned(t) THEN Elsewhere(t)
                   ELSE [env EXCEPT !.flags = @ \ {"ALL_PINNED"}]
       IN  /\ Pinned(t) \/ Running(t) \/ TooSmall(t) \/ TooLarge(t)
           /\ env' = seen
           /\ queue' = [queue EXCEPT ![env.src] = Cons(t, Front(@))]
    /\ UNCHANGED <<fixed, curr, imbalance, nr_balance_failed, pc, walk, ld_moved, sds>>

\* The task stays, at the other end of the list.
DetachKeep ==
    /\ DetachGoesOn
    /\ LET t == Candidate
           seen == IF Pinned(t) THEN Elsewhere(t)
                   ELSE [env EXCEPT !.flags = @ \ {"ALL_PINNED"}]
       IN  /\ Pinned(t) \/ Running(t) \/ TooSmall(t) \/ TooLarge(t)
           /\ env' = [seen EXCEPT !.loop = @ + 1]
           /\ queue' = [queue EXCEPT ![env.src] = Cons(t, Front(@))]
    /\ UNCHANGED <<fixed, curr, imbalance, nr_balance_failed, pc, walk, ld_moved, sds>>

DetachMove ==
    /\ DetachGoesOn
    /\ LET t == Candidate
       IN  /\ ~(Pinned(t) \/ Running(t) \/ TooSmall(t) \/ TooLarge(t))
           /\ env' = [env EXCEPT !.loop = @ + 1, !.flags = @ \ {"ALL_PINNED"},
                                 !.tasks = Cons(t, @), !.imbalance = @ - Load[t]]
           /\ queue' = [queue EXCEPT ![env.src] = Front(@)]
    /\ UNCHANGED <<fixed, curr, imbalance, nr_balance_failed, pc, walk, ld_moved, sds>>

\* The list is not emptied (a mutant).
Attach_again ==
    /\ pc = "detach" /\ ~DetachGoesOn
    /\ pc' = "migrated"
    /\ queue' = [queue EXCEPT ![env.dst] = Reverse(env.tasks) \o @]
    /\ ld_moved' = {m + Len(env.tasks) : m \in ld_moved}
    /\ UNCHANGED <<fixed, curr, imbalance, nr_balance_failed, walk, sds, env>>

\* attach_tasks, in the order of env->tasks, each to the front of the list.
Attach ==
    /\ pc = "detach" /\ ~DetachGoesOn
    /\ pc' = "migrated"
    /\ queue' = [queue EXCEPT ![env.dst] = Reverse(env.tasks) \o @]
    /\ env' = [env EXCEPT !.tasks = << >>]
    /\ ld_moved' = {m + Len(env.tasks) : m \in ld_moved}
    /\ UNCHANGED <<fixed, curr, imbalance, nr_balance_failed, walk, sds>>

\* Another CPU of the local group is to take what this one may not.
MoreBalance ==
    /\ pc = "migrated" /\ "DST_PINNED" \in env.flags /\ env.imbalance > 0
    /\ pc' = EnterMigrate(env.src)
    /\ env' = [env EXCEPT !.cpus = @ \ {env.dst}, !.dst = env.new_dst,
                          !.flags = @ \ {"DST_PINNED"}, !.loop = 0]
    /\ UNCHANGED <<tasks, imbalance, nr_balance_failed, walk, ld_moved, sds>>

\* Some task was pinned: the parent's record of the local group says so.
MarkParent == imbalance' = IF "SOME_PINNED" \in env.flags /\ env.imbalance > 0
                           THEN imbalance \cup ParentRecord ELSE imbalance
NoRetry == pc = "migrated" /\ ~("DST_PINNED" \in env.flags /\ env.imbalance > 0)

\* Every task was pinned: try without the busiest queue, as long as there are
\* other CPUs than those of the local group.
Redo ==
    /\ NoRetry /\ "ALL_PINNED" \in env.flags
    /\ ~cpumask_subset(env.cpus \ {env.src}, local_group)
    /\ pc' = "choose"
    /\ env' = [env EXCEPT !.cpus = @ \ {env.src}, !.loop = 0]
    /\ MarkParent
    /\ UNCHANGED <<tasks, nr_balance_failed, walk, ld_moved, sds>>

\* out_all_pinned or do_active_balance.
EndBalance ==
    /\ \/ /\ NoRetry
          /\ "ALL_PINNED" \in env.flags => cpumask_subset(env.cpus \ {env.src}, local_group)
          /\ MarkParent
       \/ pc = "active" /\ UNCHANGED imbalance
    /\ Finish /\ Return(ld_moved)
    /\ refused' = (refused /\ pc' # "tick")
    /\ UNCHANGED <<tasks, sds>>

Next ==
    \/ \E t \in Tasks, c \in Online : Wake(t, c)
    \/ \E c \in Online : Schedule(c) \/ Tick(c)
    \/ NotDue
    \/ \E d \in Domains : Due(d[2], d[1])
    \/ Refuse \/ UpdateStats \/ Choose \/ DetachKeep \/ DetachMove \/ Attach
    \/ MoreBalance \/ Redo \/ EndBalance

Spec == Init /\ [][Next]_vars

-----------------------------------------------------------------------------
Flag == {"ALL_PINNED", "DST_PINNED", "SOME_PINNED"}

\* Types; a task is in one queue at most, or in the list between two.
TypeOK ==
    /\ pc \in {"tick", "domain", "choose", "busiest", "detach", "migrated", "active"}
    /\ pc # "tick" => <<sd, this_cpu>> \in Domains
    /\ env.flags \subseteq Flag /\ env.cpus \subseteq Online
    /\ env.loop \in 0 .. sysctl_sched_nr_migrate
    /\ \A t \in Tasks :
          Cardinality({p \in Online \X (1 .. Cardinality(Tasks)) :
                         p[2] \in DOMAIN queue[p[1]] /\ queue[p[1]][p[2]] = t})
          + Cardinality({i \in DOMAIN env.tasks : env.tasks[i] = t}) <= 1

\* No sequence of pulls, retries for another CPU and redos without a queue puts
\* a task on a CPU it may not run on.
AllowedPlacement == \A c \in Online : \A t \in ToSet(queue[c]) : c \in allowed[t]

\* The running task is never pulled away.
RunningStays == \A c \in Online : curr[c] # NULL => curr[c] \in ToSet(queue[c])

\* The decisions implement Placement: with retries for another CPU of the group,
\* redos without a queue, and whatever h_nr_running, a task detached from a queue
\* lands on another one, where it may run, before anything else happens.
InQueue(t) == {c \in Online : t \in ToSet(queue[c])}
P == INSTANCE Placement WITH
       CPUs <- Online, Nowhere <- NoCpu, may <- allowed,
       at   <- [t \in Tasks |-> find_first_bit(InQueue(t))],
       from <- [t \in Tasks |-> IF t \in ToSet(env.tasks) THEN env.src ELSE NoCpu]
ImplementsPlacement == P!Spec

\* sched.hpp:499-503: the CPU that is eligible is so "at this and above domains";
\* a CPU that was refused at a level moves nothing at the levels above,
\* although continue_balancing is not cleared.
EligibleAtAndAbove == refused => pc \in {"domain", "choose"}

\* sched.hpp:346-350: a busiest queue with a single task is left alone; "ld_moved
\* simply stays zero, so it is correctly treated as an imbalance", which
\* do_active_balance does by counting a failure.
FailureCounted ==
    [][pc = "active" /\ pc' # "active" =>
         nr_balance_failed'[<<sd, this_cpu>>] = nr_balance_failed[<<sd, this_cpu>>] + 1]_vars
=============================================================================
