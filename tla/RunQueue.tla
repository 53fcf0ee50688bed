------------------------------ MODULE RunQueue ------------------------------
(***************************************************************************)
(* The run queues of the simulator: class rq and class cfs_rq              *)
(* (runqueue.cpp), the scheduling entities they hold (task.hpp, task.cpp), *)
(* and the handlers of class sched that change them: wake_up_new_task,     *)
(* scheduler_tick, schedule (called by resched_all) and the detach and     *)
(* attach loops of the load balancer (sched.hpp).                          *)
(*                                                                         *)
(* Every function of the code that changes a run queue is an operator from *)
(* a memory image s == [rq, cfs, se, tl, fault] to the image it leaves, so *)
(* a handler is the composition of the functions it calls, in their order, *)
(* and an action commits the image its handler ends with.  A handler that  *)
(* dereferences NULL or walks a cyclic list stops the program: fault.      *)
(*                                                                         *)
(* The red-black tree is a parameter (the TL operators).  CPU selection    *)
(* and the balancer's choice of queues and tasks are inputs here; of the   *)
(* load averages only the ledger of attached entities is kept.             *)
(***************************************************************************)
EXTENDS UnsignedLong, FiniteSets, SequencesExt

CONSTANTS
    CPUs,             \* online CPUs
    Tasks,            \* tasks that will be started
    idle,             \* idle[c]: the idle task of CPU c
    NULL,             \* the NULL pointer
    Weight,           \* Weight[t]: se->weight, from nice and nr_thread
    UninitCpu,        \* what p->cpu can hold before it is first written; a
                      \* value outside CPUs is an index runqueues does not have
    UninitCount,      \* what h_nr_running can hold before it is first written
    StartJiffies,     \* jiffies when the first task can be started
    MaxJiffies,       \* bound on time
    MaxPreempt,       \* bound on the preemption counts
    MaxRuntime        \* bound on the run time after which a task can still be
                      \* put back: every pick adds to it, even at one instant

CONSTANTS             \* the task timelines of all CPUs: a value and operators
    TLInit,           \* all timelines empty
    TLInsert(_, _, _, _),   \* (tl, c, e, key): __enqueue_entity's tree work
    TLErase(_, _, _),       \* (tl, c, e): rb_erase_cached
    TLFirst(_, _),          \* (tl, c): rb_first_cached(...)->se, or NULL
    TLWalk(_, _),           \* (tl, c): debug_tasktimeline
    TLMembers(_, _),        \* (tl, c): the entities that can be found in it
    TLFault(_)              \* "none", or what stopped the program in the tree

Entities == Tasks \cup {idle[c] : c \in CPUs}

ASSUME IdleAssumption ==
    /\ \A c \in CPUs : idle[c] \notin Tasks
    /\ \A c, d \in CPUs : idle[c] = idle[d] => c = d
    /\ NULL \notin Entities \cup CPUs

ASSUME WeightAssumption == \A e \in Entities : Weight[e] \in Nat \ {0}

ASSUME BoundAssumption ==
    /\ StartJiffies \in Nat /\ MaxJiffies \in Nat /\ MaxPreempt \in Nat
    /\ MaxRuntime \in Nat
    /\ UninitCount \subseteq Nat

VARIABLES
    jiffies,   \* the clock
    rq,        \* per CPU: class rq
    cfs,       \* per CPU: class cfs_rq
    se,        \* per task and idle task: class task with its sched_entity
    tl,        \* the task timelines
    env,       \* the handler that is running and its struct lb_env
    fault,     \* "none", or how the program stopped
    start      \* history: the CPU a task was started on, and the one that its
               \* p->cpu named then; only properties read it

vars == <<jiffies, rq, cfs, se, tl, env, fault, start>>

-----------------------------------------------------------------------------
(* Time is counted in units of 50000 ns, which divides every constant of   *)
(* the code.  A jiffy is 4 ms.                                             *)
NICE_0_LOAD                     == 1024
sysctl_sched_min_granularity    == 15       \*  750000 ns
sysctl_sched_latency            == 120      \* 6000000 ns
sysctl_sched_wakeup_granularity == 20       \* 1000000 ns
sched_nr_latency                == 8
sysctl_sched_nr_migrate         == 32

jiffies_to_msecs(j) == 4 * j
Now       == jiffies_to_msecs(jiffies) * 20    \* msecs * 1000000 ns
ExecStamp == jiffies_to_msecs(jiffies) * 2     \* msecs * 100000 ns

-----------------------------------------------------------------------------
(* Memory images and their initial value.                                  *)
Image == [rq |-> rq, cfs |-> cfs, se |-> se, tl |-> tl, fault |-> fault]

NewRq(c) ==
    [curr |-> idle[c], nr_running |-> 0, cfs_tasks |-> << >>,
     preempt_count |-> 0, NEED_RESCHED |-> 0, idle_balance |-> 1]

NewCfs(garbage) ==
    [curr |-> NULL, next |-> NULL, nr_running |-> 0, h_nr_running |-> garbage,
     weight |-> 0, runnable_weight |-> 0, min_vruntime |-> 0,
     attached |-> [t \in Tasks |-> 0]]

NewEntity ==
    [on_rq |-> 0, task_on_rq |-> 0, RESCHED |-> 0, cpu |-> NULL,
     vruntime |-> 0, node_vruntime |-> 0, exec_start |-> 0,
     sum_exec_runtime |-> 0, prev_sum_exec_runtime |-> 0, last_update |-> 0]

NotStarted == [on |-> NULL, named |-> NULL]

Stopped(s) == s.fault # "none"

\* Do op unless the program has stopped; note a fault inside the tree.
TreeOp(s, timeline) == [s EXCEPT !.tl = timeline, !.fault = TLFault(timeline)]

-----------------------------------------------------------------------------
(* class cfs_rq                                                            *)

\* sched_entity::update_vruntime keeps the copy in the tree node in step.
update_vruntime(s, e, v) ==
    [s EXCEPT !.se[e].vruntime = v, !.se[e].node_vruntime = v]

\* Mutant: min_vruntime follows whoever runs.
update_min_vruntime_of_curr(s, c) ==
    IF s.cfs[c].curr = NULL THEN s
    ELSE [s EXCEPT !.cfs[c].min_vruntime = s.se[s.cfs[c].curr].vruntime]

update_min_vruntime(s, c) ==
    LET curr == s.cfs[c].curr
        left == TLFirst(s.tl, c)
        runs == curr # NULL /\ s.se[curr].on_rq = 1
        v    == CASE runs /\ left # NULL  -> UMin(s.se[curr].vruntime,
                                                  s.se[left].node_vruntime)
                  [] runs /\ left = NULL  -> s.se[curr].vruntime
                  [] ~runs /\ left # NULL -> s.se[left].node_vruntime
                  [] OTHER                -> s.cfs[c].min_vruntime
    IN  [s EXCEPT !.cfs[c].min_vruntime = UMax(s.cfs[c].min_vruntime, v),
                  !.cfs[c].curr = IF runs THEN curr ELSE NULL]

\* Charge the running entity for the time since its exec_start.
update_curr(s, c) ==
    LET curr  == s.cfs[c].curr
        delta == Now - s.se[curr].exec_start
        s1    == [s EXCEPT !.se[curr].exec_start = Now,
                           !.se[curr].sum_exec_runtime = @ + delta]
        s2    == update_vruntime(s1, curr, s.se[curr].vruntime +
                                    (delta * NICE_0_LOAD) \div Weight[curr])
    IN  IF Stopped(s) \/ curr = NULL \/ delta = 0
        THEN s ELSE update_min_vruntime(s2, c)

\* Load of an entity joins the load of its queue; the entity takes over the
\* queue's last_update_time, which is 0 while no time has passed at all.
attach_entity_load_avg(s, c, e) ==
    [s EXCEPT !.cfs[c].attached[e] = @ + 1,
              !.se[e].last_update = IF jiffies > 0 THEN 1 ELSE 0]

\* update_load_avg(se, UPDATE_TG | DO_ATTACH): attach unless that was done.
update_load_avg(s, c, e) ==
    IF s.se[e].last_update = 0 THEN attach_entity_load_avg(s, c, e) ELSE s

account_entity_enqueue(s, c, e) ==
    [s EXCEPT !.cfs[c].weight = @ + Weight[e],
              !.cfs[c].runnable_weight = @ + Weight[e],
              !.cfs[c].nr_running = @ + 1,
              !.rq[c].cfs_tasks = Cons(e, @)]

\* Mutant: the runnable weight is forgotten.
account_entity_dequeue_partly(s, c, e) ==
    [s EXCEPT !.cfs[c].weight = @ - Weight[e], !.cfs[c].nr_running = @ - 1,
              !.rq[c].cfs_tasks = RemoveFirst(@, e)]

account_entity_dequeue(s, c, e) ==
    [s EXCEPT !.cfs[c].weight = @ - Weight[e],
              !.cfs[c].runnable_weight = @ - Weight[e],
              !.cfs[c].nr_running = @ - 1,
              !.rq[c].cfs_tasks = RemoveFirst(@, e)]

\* Mutant: the task is added to the front and not removed behind it.
move_to_front_cfs_tasks_twice(s, c, e) == [s EXCEPT !.rq[c].cfs_tasks = Cons(e, @)]

move_to_front_cfs_tasks(s, c, e) ==
    [s EXCEPT !.rq[c].cfs_tasks = Cons(e, RemoveFirst(@, e))]

\* Mutant: a buddy is never forgotten.
clear_buddies_never(s, c, e) == s

clear_buddies(s, c, e) ==
    IF s.cfs[c].next = e THEN [s EXCEPT !.cfs[c].next = NULL] ELSE s

\* The search compares se->vruntime with the copies in the nodes of the tree.
__enqueue_entity(s, c, e) ==
    IF Stopped(s) THEN s
    ELSE TreeOp(s, TLInsert(s.tl, c, e,
                            [x \in Entities |-> IF x = e THEN s.se[x].vruntime
                                                ELSE s.se[x].node_vruntime]))

__dequeue_entity(s, c, e) ==
    IF Stopped(s) THEN s ELSE TreeOp(s, TLErase(s.tl, c, e))

debug_tasktimeline(s, c) ==
    IF Stopped(s) THEN s ELSE TreeOp(s, TLWalk(s.tl, c))

\* Both callers pass ENQUEUE_NOCLOCK, so the vruntime is always renormalised:
\* before update_curr if e is the current entity, after it otherwise.
enqueue_entity(s, c, e) ==
    LET if_curr == s.cfs[c].curr = e
        renorm(x) == update_vruntime(x, e, x.se[e].vruntime +
                                               x.cfs[c].min_vruntime)
        s1 == update_curr(IF if_curr THEN renorm(s) ELSE s, c)
        s2 == update_load_avg(IF if_curr THEN s1 ELSE renorm(s1), c, e)
        s3 == account_entity_enqueue(s2, c, e)
        s4 == IF if_curr THEN s3 ELSE __enqueue_entity(s3, c, e)
    IN  debug_tasktimeline([s4 EXCEPT !.se[e].on_rq = 1], c)

\* dequeue_entity with DEQUEUE_NOCLOCK only: the vruntime becomes relative
\* to the queue's min_vruntime; the copy in the tree node is not changed.
dequeue_entity(s, c, e) ==
    LET s1 == clear_buddies(update_curr(s, c), c, e)
        s2 == IF e # s1.cfs[c].curr THEN __dequeue_entity(s1, c, e) ELSE s1
        s3 == account_entity_dequeue([s2 EXCEPT !.se[e].on_rq = 0], c, e)
        s4 == [s3 EXCEPT !.se[e].vruntime = @ - s3.cfs[c].min_vruntime]
    IN  debug_tasktimeline(s4, c)

put_prev_entity(s, c, prev) ==
    LET s1 == IF s.se[prev].on_rq = 1
              THEN __enqueue_entity(update_curr(s, c), c, prev) ELSE s
    IN  debug_tasktimeline([s1 EXCEPT !.cfs[c].curr = NULL], c)

\* -1, 0 or 1: entity a against entity b.
wake_up_preempt_entity(s, a, b) ==
    LET vdiff == s.se[a].vruntime - s.se[b].vruntime
    IN  CASE vdiff <= 0                              -> -1
          [] vdiff > sysctl_sched_wakeup_granularity -> 1
          [] OTHER                                   -> 0

\* Mutant: the buddy is picked however far it is ahead.
pick_next_entity_unfair(s, c) ==
    IF s.cfs[c].next # NULL THEN s.cfs[c].next ELSE TLFirst(s.tl, c)

\* pick_next_entity(NULL).  Nothing sets last or skip.  NULL also stands for
\* the pick that dereferences NULL: a buddy, but nobody in the timeline.
pick_next_entity(s, c) ==
    LET left == TLFirst(s.tl, c)
        next == s.cfs[c].next
    IN  IF /\ next # NULL /\ left # NULL
           /\ wake_up_preempt_entity(s, next, left) < 1
        THEN next ELSE left

\* Mutant: the picked entity stays in the timeline.
set_next_entity_kept(s, c, e) ==
    [s EXCEPT !.se[e].exec_start = ExecStamp,
              !.se[e].prev_sum_exec_runtime = s.se[e].sum_exec_runtime,
              !.cfs[c].curr = e]

set_next_entity(s, c, e) ==
    LET s1 == IF s.se[e].on_rq = 1 THEN __dequeue_entity(s, c, e) ELSE s
        s2 == [s1 EXCEPT !.se[e].exec_start = ExecStamp,
                         !.se[e].prev_sum_exec_runtime = s1.se[e].sum_exec_runtime,
                         !.cfs[c].curr = e]
    IN  debug_tasktimeline(s2, c)

\* An entity that is not queued is first added to the weight of the queue.
sched_slice(s, c, e) ==
    LET queued == s.se[e].on_rq = 1
        nr     == s.cfs[c].nr_running + (IF queued THEN 0 ELSE 1)
        total  == s.cfs[c].weight + (IF queued THEN 0 ELSE Weight[e])
        period == IF nr > sched_nr_latency
                  THEN nr * sysctl_sched_min_granularity
                  ELSE sysctl_sched_latency
    IN  [image |-> [s EXCEPT !.cfs[c].weight = total],
         slice |-> (period * Weight[e]) \div total]

-----------------------------------------------------------------------------
(* class rq                                                                *)

Crash(s) == IF Stopped(s) THEN s ELSE [s EXCEPT !.fault = "crash"]

activate_task(s, c, t) ==
    LET s1 == enqueue_entity(s, c, t)
    IN  [s1 EXCEPT !.cfs[c].h_nr_running = @ + 1, !.rq[c].nr_running = @ + 1]

\* Mutant: h_nr_running is not counted down.
deactivate_task_partly(s, c, t) ==
    LET s1 == dequeue_entity(s, c, t) IN [s1 EXCEPT !.rq[c].nr_running = @ - 1]

deactivate_task(s, c, t) ==
    LET s1 == dequeue_entity(s, c, t)
    IN  [s1 EXCEPT !.cfs[c].h_nr_running = @ - 1, !.rq[c].nr_running = @ - 1]

need_resched(s, c) == s.se[s.rq[c].curr].RESCHED = 1

\* Mutant: the run queue is not told.
resched_curr_quietly(s, c) == [s EXCEPT !.se[s.rq[c].curr].RESCHED = 1]

resched_curr(s, c) ==
    IF need_resched(s, c) THEN s
    ELSE [s EXCEPT !.se[s.rq[c].curr].RESCHED = 1, !.rq[c].NEED_RESCHED = 1]

preempt_disable(s, c) == [s EXCEPT !.rq[c].preempt_count = @ + 1]

\* preempt_count_sub(1) refuses to go below zero.
preempt_count_dec(s, c) ==
    IF 1 > s.rq[c].preempt_count THEN s
    ELSE [s EXCEPT !.rq[c].preempt_count = @ - 1]

idle_cpu(s, c) == s.rq[c].curr = idle[c] /\ s.rq[c].nr_running = 0

\* check_preempt_wakeup: shall the new task p take the CPU?  The idle task is
\* marked at once and nothing else is looked at; the running task is compared
\* with p, as pse->wake_up_preempt_entity(se).
check_preempt_wakeup(s, c, p) ==
    LET curr == s.rq[c].curr
        s1   == update_curr(s, c)
    IN  IF Stopped(s) THEN s
        ELSE IF curr = idle[c] THEN resched_curr(s, c)
        ELSE IF curr = p \/ need_resched(s, c) THEN s
        ELSE IF wake_up_preempt_entity(s1, p, curr) = 1
             THEN resched_curr([s1 EXCEPT !.cfs[c].next = p], c)
             ELSE s1

\* Has the entity the tick found running used up its slice, or fallen more
\* than a slice behind the first waiting one?
check_preempt_tick(s, c, curr) ==
    LET sl    == sched_slice(s, c, curr)
        s1    == sl.image
        delta == s.se[curr].sum_exec_runtime - s.se[curr].prev_sum_exec_runtime
        first == TLFirst(s.tl, c)
        ahead == s.se[curr].vruntime - s.se[first].vruntime
    IN  IF delta > sl.slice THEN clear_buddies(resched_curr(s1, c), c, curr)
        ELSE IF delta < sysctl_sched_min_granularity THEN s1
        ELSE IF first = NULL THEN Crash(s1)
        ELSE IF ahead > sl.slice THEN resched_curr(s1, c)
        ELSE s1

task_tick_fair(s, c, curr) ==
    LET s1 == update_curr(s, c)
    IN  IF s1.cfs[c].nr_running > 1 THEN check_preempt_tick(s1, c, curr) ELSE s1

\* put_prev_task, pick_next_entity, clear_buddies, set_next_entity and
\* move_to_front_cfs_tasks; the next task is then cfs[c].curr.
pick_next_task_fair(s, c, prev) ==
    LET s1 == put_prev_entity(s, c, prev)
        e  == pick_next_entity(s1, c)
        s2 == set_next_entity(clear_buddies(s1, c, e), c, e)
    IN  IF Stopped(s1) THEN s1
        ELSE IF e = NULL THEN Crash(s1)
        ELSE move_to_front_cfs_tasks(s2, c, e)

\* Mutant: clear_tsk_need_resched is forgotten.
__schedule_keeps_mark(s, c) ==
    LET prev == s.rq[c].curr
        some == s.rq[c].nr_running # 0
        switch(s1) ==
            IF Stopped(s1) THEN s1
            ELSE [s1 EXCEPT !.rq[c].NEED_RESCHED = 0,
                            !.rq[c].curr = IF some THEN s1.cfs[c].curr ELSE idle[c]]
    IN  switch(IF some THEN pick_next_task_fair(s, c, prev) ELSE s)

\* Every task is TASK_RUNNING, so prev stays queued.
__schedule(s, c) ==
    LET prev == s.rq[c].curr
        some == s.rq[c].nr_running # 0
        switch(s1) ==
            IF Stopped(s1) THEN s1
            ELSE [s1 EXCEPT !.se[prev].RESCHED = 0, !.rq[c].NEED_RESCHED = 0,
                            !.rq[c].curr = IF some THEN s1.cfs[c].curr ELSE idle[c]]
    IN  switch(IF some THEN pick_next_task_fair(s, c, prev) ELSE s)

\* do { ... } while (need_resched()).  A second round is only taken if the
\* picked task is marked itself; MarkedIsRunning rules that out, and
\* ScheduleDrains that the loop would go on after it.
schedule(s, c) ==
    LET round(x) == IF Stopped(x) THEN x ELSE __schedule(x, c)
        again(s1) == IF ~Stopped(s1) /\ need_resched(s1, c) THEN round(s1) ELSE s1
    IN  again(round(s))

\* preempt_count_dec_and_test(), then preempt_schedule() if nothing else
\* forbids preemption and the current task is marked.
preempt_enable(s, c) ==
    LET s1 == preempt_count_dec(s, c)
        s2 == schedule(preempt_disable(s1, c), c)
    IN  IF Stopped(s) THEN s
        ELSE IF s1.rq[c].preempt_count = 0 /\ need_resched(s1, c)
        THEN preempt_count_dec(s2, c) ELSE s1

\* Mutant: last_update_time is kept.
migrate_task_rq_kept(s, t) ==
    [s EXCEPT !.cfs[s.se[t].cpu].attached[t] = @ - 1, !.se[t].exec_start = 0]

\* migrate_task_rq: the load leaves the queue of the CPU p->cpu names.
migrate_task_rq(s, t) ==
    [s EXCEPT !.cfs[s.se[t].cpu].attached[t] = @ - 1,
              !.se[t].last_update = 0, !.se[t].exec_start = 0]

set_task_cpu(s, t, new_cpu) ==
    LET old == s.se[t].cpu
        s1  == IF old = new_cpu \/ Stopped(s) THEN s
               ELSE IF old \notin CPUs THEN Crash(s) ELSE migrate_task_rq(s, t)
    IN  [s1 EXCEPT !.se[t].cpu = new_cpu]

detach_task(s, t, src, dst) ==
    LET s1 == deactivate_task([s EXCEPT !.se[t].task_on_rq = 2], src, t)
    IN  set_task_cpu(s1, t, dst)

\* Mutants: nobody looks whether the task may preempt; the task stays marked as
\* migrating.
attach_task_only(s, t, dst) ==
    LET s1 == activate_task(s, dst, t) IN [s1 EXCEPT !.se[t].task_on_rq = 1]
attach_task_migrating(s, t, dst) ==
    LET s1 == activate_task(s, dst, t) IN check_preempt_wakeup(s1, dst, t)

\* attach_task never schedules.
attach_task(s, t, dst) ==
    LET s1 == activate_task(s, dst, t)
    IN  check_preempt_wakeup([s1 EXCEPT !.se[t].task_on_rq = 1], dst, t)

\* wake_up_new_task after CPU c has been selected.  Its last statement prints
\* cfs_runqueue->curr->container_task->pid.
wake_up_new_task(s, t, c) ==
    LET s1 == attach_entity_load_avg(preempt_disable(s, c), c, t)
        s2 == [activate_task(s1, c, t) EXCEPT !.se[t].task_on_rq = 1]
        print(s3) == IF s3.cfs[c].curr = NULL THEN Crash(s3) ELSE s3
    IN  print(preempt_enable(check_preempt_wakeup(s2, c, t), c))

\* scheduler_tick before it looks at the balancer; no preempt_enable.
scheduler_tick(s, c) ==
    LET s1 == preempt_disable(s, c)
        s2 == task_tick_fair(s1, c, s1.rq[c].curr)
    IN  [s2 EXCEPT !.rq[c].idle_balance = IF idle_cpu(s2, c) THEN 1 ELSE 0]

-----------------------------------------------------------------------------
(* The handlers.  The simulator has one thread: a handler runs to its end  *)
(* before the next one starts.  The balancer's loops are split into their  *)
(* iterations; env says which loop is running.                             *)
NoEnv == [phase |-> "none", this |-> NULL, dst |-> NULL, src |-> NULL,
          loop |-> 0, loop_max |-> 0, cpu_idle |-> 0, tasks |-> << >>]

Commit(s) ==
    \E final \in {s} :
        /\ fault' = final.fault
        /\ IF Stopped(final) THEN UNCHANGED <<rq, cfs, se, tl>>
           ELSE rq' = final.rq /\ cfs' = final.cfs /\ se' = final.se /\ tl' = final.tl

Init ==
    /\ jiffies = StartJiffies
    /\ rq = [c \in CPUs |-> NewRq(c)]
    /\ \E garbage \in [CPUs -> UninitCount] :
          cfs = [c \in CPUs |-> NewCfs(garbage[c])]
    /\ se = [e \in Entities |-> NewEntity]
    /\ tl = TLInit
    /\ env = NoEnv
    /\ fault = "none"
    /\ start = [t \in Tasks |-> NotStarted]

Running(phase) == fault = "none" /\ env.phase = phase

\* The caller moves the clock between its calls.
AdvanceJiffies ==
    /\ Running("none") /\ jiffies < MaxJiffies
    /\ jiffies' = jiffies + 1
    /\ UNCHANGED <<rq, cfs, se, tl, env, fault, start>>

\* start_new_task: p->cpu holds whatever the allocation left there.
Wake(t, c) ==
    /\ Running("none") /\ se[t].task_on_rq = 0
    /\ \E garbage \in UninitCpu :
          /\ Commit(wake_up_new_task([Image EXCEPT !.se[t].cpu = garbage], t, c))
          /\ start' = IF fault' # "none" THEN start
                      ELSE [start EXCEPT ![t] = [on |-> c, named |-> garbage]]
    /\ UNCHANGED <<jiffies, env>>

\* resched_all, for one CPU.
Schedule(c) ==
    /\ Running("none") /\ se[rq[c].curr].sum_exec_runtime <= MaxRuntime
    /\ Commit(schedule(Image, c))
    /\ UNCHANGED <<jiffies, env, start>>

\* Mutant: the balancer starts without a destination.
Tick_no_dst(c) ==
    /\ Running("none") /\ rq[c].preempt_count < MaxPreempt
    /\ Commit(scheduler_tick(Image, c))
    /\ env' = [NoEnv EXCEPT !.phase = "balance", !.this = c]
    /\ UNCHANGED <<jiffies, start>>

\* scheduler_tick; trigger_load_balance follows if it is time for it.
Tick(c) ==
    /\ Running("none") /\ rq[c].preempt_count < MaxPreempt
    /\ LET s == scheduler_tick(Image, c)
       IN  /\ Commit(s)
           /\ \E due \in BOOLEAN :
                 env' = IF due /\ ~Stopped(s)
                        THEN [NoEnv EXCEPT !.phase = "balance", !.this = c,
                                           !.dst = c, !.cpu_idle = s.rq[c].idle_balance]
                        ELSE NoEnv
    /\ UNCHANGED <<jiffies, start>>

\* do_migrate has a source queue with more than one task, and something has
\* to be moved.
BeginDetach(src, dst, loop_max, cpu_idle) ==
    /\ Running("balance")
    /\ src # dst /\ rq[src].nr_running > 1
    /\ env' = [env EXCEPT !.phase = "detach", !.src = src, !.dst = dst,
                          !.loop = 0, !.loop_max = loop_max, !.cpu_idle = cpu_idle]
    /\ UNCHANGED <<jiffies, rq, cfs, se, tl, fault, start>>

\* choose_src_rq picked src as the busiest queue: in a new load_balance, for
\* the CPU that ticked, or again in the same one, for its destination.
\* Between two domains rebalance_domains may find out whether it is idle now.
ChooseSrc(src) ==
    \E dst \in {env.this, env.dst} \cap CPUs,
       cpu_idle \in {env.cpu_idle} \cup
                    {IF idle_cpu(Image, i) THEN 1 ELSE 0 : i \in {env.this} \cap CPUs} :
        BeginDetach(src, dst,
                    IF sysctl_sched_nr_migrate < rq[src].nr_running
                    THEN sysctl_sched_nr_migrate ELSE rq[src].nr_running,
                    cpu_idle)

\* LBF_DST_PINNED: go on with the same source for another destination.
MoreBalance(new_dst) ==
    /\ env.src # NULL
    /\ BeginDetach(env.src, new_dst, env.loop_max, env.cpu_idle)

\* The conditions at the head of the loop of detach_tasks.
DetachLoops ==
    /\ Running("detach")
    /\ rq[env.src].cfs_tasks # << >>
    /\ env.cpu_idle = 1 => rq[env.src].nr_running > 1
    /\ env.loop < env.loop_max

\* Mutant: the rounds are not counted.
DetachKeep_uncounted ==
    /\ DetachLoops
    /\ Commit(move_to_front_cfs_tasks(Image, env.src,
                                      Last(rq[env.src].cfs_tasks)))
    /\ UNCHANGED <<jiffies, env, start>>

\* The last task of the list stays: it is running, pinned, or its load does
\* not suit the imbalance.  It goes to the front of the list.
DetachKeep ==
    /\ DetachLoops
    /\ Commit(move_to_front_cfs_tasks(Image, env.src,
                                      Last(rq[env.src].cfs_tasks)))
    /\ env' = [env EXCEPT !.loop = @ + 1]
    /\ UNCHANGED <<jiffies, start>>

\* Mutant: the running task is taken as well.
DetachMove_running(more) ==
    /\ DetachLoops
    /\ LET t == Last(rq[env.src].cfs_tasks)
           s == detach_task(Image, t, env.src, env.dst)
       IN  /\ Commit(s)
           /\ env' = [env EXCEPT !.loop = @ + 1, !.tasks = Cons(t, @),
                                 !.phase = IF more THEN @ ELSE "attach"]
    /\ UNCHANGED <<jiffies, start>>

\* The last task of the list is taken; more: the imbalance is not used up.
DetachMove(more) ==
    /\ DetachLoops
    /\ LET t == Last(rq[env.src].cfs_tasks)
           s == detach_task(Image, t, env.src, env.dst)
       IN  /\ t # rq[env.src].curr
           /\ Commit(s)
           /\ env' = IF Stopped(s) THEN env
                     ELSE [env EXCEPT !.loop = @ + 1, !.tasks = Cons(t, @),
                                      !.phase = IF more THEN @ ELSE "attach"]
    /\ UNCHANGED <<jiffies, start>>

DetachEnd ==
    /\ Running("detach") /\ ~DetachLoops
    /\ env' = [env EXCEPT !.phase = "attach"]
    /\ UNCHANGED <<jiffies, rq, cfs, se, tl, fault, start>>

AttachNext ==
    /\ Running("attach") /\ env.tasks # << >>
    /\ LET s == attach_task(Image, Head(env.tasks), env.dst)
       IN  /\ Commit(s)
           /\ env' = IF Stopped(s) THEN env ELSE [env EXCEPT !.tasks = Tail(@)]
    /\ UNCHANGED <<jiffies, start>>

AttachEnd ==
    /\ Running("attach") /\ env.tasks = << >>
    /\ env' = [env EXCEPT !.phase = "balance"]
    /\ UNCHANGED <<jiffies, rq, cfs, se, tl, fault, start>>

BalanceEnd ==
    /\ Running("balance")
    /\ env' = NoEnv
    /\ UNCHANGED <<jiffies, rq, cfs, se, tl, fault, start>>

BalanceStep ==
    \/ DetachKeep
    \/ \E more \in BOOLEAN : DetachMove(more)
    \/ DetachEnd
    \/ AttachNext
    \/ AttachEnd

Next ==
    \/ AdvanceJiffies
    \/ \E t \in Tasks, c \in CPUs : Wake(t, c)
    \/ \E c \in CPUs : Schedule(c)
    \/ \E c \in CPUs : Tick(c)
    \/ \E src \in CPUs : ChooseSrc(src)
    \/ \E dst \in CPUs : MoreBalance(dst)
    \/ BalanceStep
    \/ BalanceEnd

Spec == Init /\ [][Next]_vars

\* A handler that has started is never left: the loops are plain code.
FairSpec == Spec /\ WF_vars(BalanceStep)

-----------------------------------------------------------------------------
(* Properties.                                                             *)

Queued(c) == ToSet(rq[c].cfs_tasks)
QueuedOn(t) == {c \in CPUs : t \in Queued(c)}
Bit == {0, 1}

\* The fields of class rq, class cfs_rq, task with its entity, and lb_env.
RqType == [curr : Entities, nr_running : ULong, cfs_tasks : Seq(Tasks),
           preempt_count : Nat, NEED_RESCHED : Bit, idle_balance : Bit]
CfsType == [curr : Tasks \cup {NULL}, next : Tasks \cup {NULL},
            nr_running : ULong, h_nr_running : ULong, weight : ULong,
            runnable_weight : ULong, min_vruntime : ULong,
            attached : [Tasks -> Int]]
SeType == [on_rq : Bit, task_on_rq : 0 .. 2, RESCHED : Bit,
           cpu : UninitCpu \cup CPUs \cup {NULL},
           vruntime : ULong, node_vruntime : ULong, exec_start : ULong,
           sum_exec_runtime : ULong, prev_sum_exec_runtime : ULong,
           last_update : Bit]
EnvType == [phase : {"none", "balance", "detach", "attach"},
            this : CPUs \cup {NULL}, dst : CPUs \cup {NULL},
            src : CPUs \cup {NULL}, loop : Nat, loop_max : ULong,
            cpu_idle : Bit, tasks : Seq(Tasks)]

\* Types, and the CPUs a balancer that runs works on.
TypeOK ==
    /\ jiffies \in Nat
    /\ rq \in [CPUs -> RqType]
    /\ cfs \in [CPUs -> CfsType]
    /\ se \in [Entities -> SeType]
    /\ env \in EnvType
    /\ env.phase # "none" => env.dst \in CPUs
    /\ env.phase \in {"detach", "attach"} => env.src \in CPUs
    /\ fault \in {"none", "crash", "hang"}
    /\ start \in [Tasks -> [on : CPUs \cup {NULL}, named : UninitCpu \cup {NULL}]]

\* Both run queue lengths count the task list, which holds a task once; a task
\* is in at most one list, and in one exactly when its entity is on_rq.
QueueAccounting ==
    /\ \A c \in CPUs :
          /\ rq[c].nr_running = Len(rq[c].cfs_tasks)
          /\ cfs[c].nr_running = Len(rq[c].cfs_tasks)
          /\ IsInjective(rq[c].cfs_tasks)
    /\ \A c, d \in CPUs : c # d => Queued(c) \cap Queued(d) = {}
    /\ \A t \in Tasks : se[t].on_rq = 1 <=> QueuedOn(t) # {}

\* rq->curr and cfs_rq->curr name the same task, one that is queued here; they
\* differ only in how they say that the CPU idles.
CurrAgrees ==
    \A c \in CPUs :
        \/ rq[c].curr = idle[c] /\ cfs[c].curr = NULL
        \/ rq[c].curr = cfs[c].curr /\ rq[c].curr \in Queued(c)

\* The timeline of a CPU holds the queued tasks that are not running.
TimelineHoldsWaiters ==
    \A c \in CPUs : TLMembers(tl, c) = Queued(c) \ {cfs[c].curr}

\* Only running tasks are marked for rescheduling, and NEED_RESCHED_FLAG of
\* the run queue tells whether its running task is: a waiting task that kept
\* its mark would be thrown off the CPU as soon as it is picked.
MarkedIsRunning ==
    /\ \A e \in Entities : se[e].RESCHED = 1 => \E c \in CPUs : rq[c].curr = e
    /\ \A c \in CPUs : rq[c].NEED_RESCHED = se[rq[c].curr].RESCHED

\* An idle CPU that gets work through a migration does not schedule, but it
\* is marked: the next schedule, whoever calls it, will not skip it.
IdleWithWorkIsMarked ==
    \A c \in CPUs : rq[c].curr = idle[c] /\ rq[c].nr_running > 0
                       => rq[c].NEED_RESCHED = 1

\* The buddy that check_preempt_wakeup favours still waits in the same queue
\* whenever it is looked at: it has not been picked or pulled away meanwhile.
BuddyWaits ==
    \A c \in CPUs :
        cfs[c].next # NULL => cfs[c].next \in Queued(c) \ {cfs[c].curr}

\* The weight that sched_slice divides by covers every queued task, although
\* sched_slice adds the weight of an idle task for good; runnable_weight is
\* exact.
WeightCoversQueue ==
    \A c \in CPUs :
        LET sum == SumFunctionOnSet(Weight, Queued(c))
        IN  cfs[c].weight >= sum /\ cfs[c].runnable_weight = sum

\* min_vruntime is a lower bound of its queue, so making a vruntime relative
\* to it never wraps below zero, and a task in flight carries its lag.
VruntimeDoesNotWrap ==
    \A t \in Tasks :
        /\ se[t].vruntime >= 0
        /\ \A c \in QueuedOn(t) : se[t].vruntime >= cfs[c].min_vruntime

One(b) == IF b THEN 1 ELSE 0

\* However often a task migrates, its load is in the one queue that p->cpu
\* names, once, or in none while it has no last_update_time.  Only what its
\* start got wrong stays: if p->cpu did not name the CPU that was selected, one
\* load too many in the queue of that CPU and one too few in the other, neither
\* more nor elsewhere; if it did, the load is where the task is queued.
LoadCountedOnce ==
    \A t \in Tasks, c \in CPUs :
        /\ cfs[c].attached[t] =
              One(se[t].last_update = 1 /\ se[t].cpu = c)
                + One(start[t].on = c) - One(start[t].named = c)
        /\ start[t].on = start[t].named =>
              cfs[c].attached[t] = One(t \in Queued(c))

\* A task is migrating exactly while it is in the balancer's list.
MigratingIsInFlight ==
    /\ IsInjective(env.tasks)
    /\ \A t \in Tasks : se[t].task_on_rq = 2 <=> t \in ToSet(env.tasks)
    /\ env.tasks # << >> => env.phase \in {"detach", "attach"}

\* min_vruntime never goes back, as the unsigned number it is.
MinVruntimeMonotone ==
    [][\A c \in CPUs : ~ULess(cfs'[c].min_vruntime, cfs[c].min_vruntime)]_vars

\* h_nr_running starts from garbage, but then follows nr_running step by step.
CountsMoveTogether ==
    [][\A c \in CPUs : cfs'[c].h_nr_running - cfs[c].h_nr_running
                         = rq'[c].nr_running - rq[c].nr_running]_vars

\* A task that gets the CPU is at most wakeup_granularity ahead of every task
\* it leaves waiting, buddy or not.
PickIsFair ==
    [][\A c \in CPUs :
          LET e == rq'[c].curr
          IN  e # rq[c].curr /\ e \in Tasks =>
                \A t \in ToSet(rq'[c].cfs_tasks) :
                    se'[t].vruntime + sysctl_sched_wakeup_granularity
                        >= se'[e].vruntime]_vars

\* After schedule() the CPU is not marked, and it idles only without work:
\* the loop over need_resched ends.
ScheduleDrains ==
    [][\A c \in CPUs :
          Schedule(c) /\ fault' = "none" =>
              /\ se'[rq'[c].curr].RESCHED = 0
              /\ rq'[c].curr = idle[c] <=> rq'[c].nr_running = 0]_vars

\* With whatever the balancer chooses, the queues implement Placement: no
\* handler, however deep it schedules, loses, doubles or shifts a task.
P == INSTANCE Placement WITH
       Nowhere <- NULL, may <- [t \in Tasks |-> CPUs],
       at   <- [t \in Tasks |-> IF QueuedOn(t) = {} THEN NULL ELSE CHOOSE c \in QueuedOn(t) : TRUE],
       from <- [t \in Tasks |-> IF t \in ToSet(env.tasks) THEN env.src ELSE NULL]
ImplementsPlacement == P!Spec

\* The loops of the balancer end, although a task it keeps goes to the other
\* end of the list it works on: a task it took is queued again.
MigrationCompletes ==
    \A t \in Tasks :
        se[t].task_on_rq = 2 ~>
            \/ se[t].task_on_rq = 1 /\ QueuedOn(t) # {}
            \/ fault # "none"

-----------------------------------------------------------------------------
(* What the source says of itself and does not keep.                       *)

\* runqueue.cpp:582, "preempting current task": a task woken on an idle CPU
\* takes it.
WakeTakesIdleCpu ==
    [][\A t \in Tasks, c \in CPUs :
          Wake(t, c) /\ rq[c].curr = idle[c] => rq'[c].curr = t]_vars

\* runqueue.cpp:428, "delta_exec: exec time in this round": a task has not
\* executed for longer than the time that has passed.
ExecTimeElapsed ==
    \A t \in Tasks : se[t].sum_exec_runtime <= Now - jiffies_to_msecs(StartJiffies) * 20

\* task.cpp:39-40: wake_up_preempt_entity compares "current task vruntime"
\* with "new task vruntime"; 1 means that the current task is ahead of the
\* new one.  So a task that is attached preempts only a task that is ahead.
PreemptTowardsLag ==
    [][AttachNext =>
          LET p == Head(env.tasks)
          IN  cfs'[env.dst].next = p =>
                  se'[p].vruntime < se'[rq[env.dst].curr].vruntime]_vars

\* task.hpp:53, "current CPU": p->cpu names the CPU a queued task is on.
CpuIsCurrent ==
    \A t \in Tasks : \A c \in QueuedOn(t) : se[t].cpu = c
=============================================================================
