-------------------------------- MODULE LoadAvg -------------------------------
(***************************************************************************)
(* The load averages of the tasks and of the run queues: when which of     *)
(* them is brought up to date, and what a queue adds and subtracts as      *)
(* tasks come and go (task.cpp, runqueue.cpp).  A queue is updated at      *)
(* every event, a task only when it is itself concerned; what a queue      *)
(* subtracts is not what it once added.                                    *)
(*                                                                         *)
(* Of the queue only the members, the running task and the weight are kept, *)
(* with what sched_slice adds to it; RunQueue has the rest.                *)
(***************************************************************************)
EXTENDS Pelt, FiniteSetsExt

CONSTANTS
    CPUs, Tasks, NULL,
    Weight,            \* Weight[t]: se->weight
    IdleWeight,        \* se->weight of the idle tasks
    UninitCpu,         \* what p->cpu can hold before it is first written; an
                       \* index that runqueues does not have is in RunQueue
    StartJiffies,      \* what main() sets jiffies to before the first task
    MaxJiffies,        \* bound: where time ends
    MaxWeight          \* bound on the weight that an idle tick still adds to

ASSUME LoadAssumption ==
    /\ NULL \notin Tasks /\ Weight \in [Tasks -> Nat \ {0}] /\ IdleWeight \in Nat \ {0}
    /\ StartJiffies \in Nat \ {0} /\ MaxJiffies \in Nat /\ MaxWeight \in Nat
    /\ UninitCpu \subseteq CPUs

VARIABLES
    jiffies,
    queued,     \* the tasks of the queue, cfs_rq->curr among them
    curr,       \* cfs_rq->curr
    weight,     \* cfs_rq->weight
    cpu,        \* p->cpu
    rq_avg,     \* cfs_rq->avg
    se_avg,     \* se->avg
    astray      \* history: the tasks that were started while their p->cpu named
                \* another CPU than the one selected; only properties read it

vars == <<jiffies, queued, curr, weight, cpu, rq_avg, se_avg, astray>>

\* init_entity_runnable_average.
Init ==
    /\ jiffies = StartJiffies
    /\ queued = [c \in CPUs |-> {}] /\ curr = [c \in CPUs |-> NULL]
    /\ weight = [c \in CPUs |-> 0] /\ cpu = [t \in Tasks |-> NULL] /\ astray = {}
    /\ rq_avg = [c \in CPUs |-> NewAvg]
    /\ se_avg = [t \in Tasks |-> [NewAvg EXCEPT !.load_avg = Weight[t],
                                                !.runnable_load_avg = Weight[t]]]

now == jiffies * JIFFY
Abs(n) == IF n < 0 THEN -n ELSE n
Sum(S, f(_)) == FoldSet(LAMBDA t, sum : sum + f(t), 0, S)
runnable_weight(c) == Sum(queued[c], LAMBDA t : Weight[t])
OnRq(t) == \E c \in CPUs : t \in queued[c]

\* A sum has become less than nothing, that is, about 2^64: what follows is not
\* modelled.
Wrapped == \E c \in CPUs : \E f \in DOMAIN NewAvg : rq_avg[c][f] < 0

-----------------------------------------------------------------------------
\* update_cfs_rq_load_avg.
QueueNow(c) ==
    Updated(rq_avg[c], now, weight[c], runnable_weight(c),
            IF curr[c] # NULL THEN 1 ELSE 0, 1, 1)

\* sched_entity::update_load_avg, which cfs_rq::update_load_avg calls for a task
\* whose last_update_time is not 0.
EntityNow(t) ==
    IF se_avg[t].last_update_time = 0 THEN se_avg[t]
    ELSE LET on == IF OnRq(t) THEN 1 ELSE 0
             running == IF \E c \in CPUs : curr[c] = t THEN 1 ELSE 0
         IN  Updated(se_avg[t], now, on, on, running, Weight[t], Weight[t])

\* attach_entity_load_avg: what the task e becomes in the queue a ...
Attached(a, e, w) ==
    LET load_sum == (e.load_avg * Divider(a)) \div w
    IN  [e EXCEPT !.last_update_time = a.last_update_time,
                  !.period_contrib = a.period_contrib,
                  !.util_sum = e.util_avg * Divider(a),
                  !.load_sum = load_sum, !.runnable_load_sum = load_sum]


\* ... and what the queue becomes, for the entities es of the tasks S: here with
\* enqueue_load_avg,
AddLoad(a, S, es) ==
    [a EXCEPT !.load_avg = @ + Sum(S, LAMBDA t : es[t].load_avg),
              !.load_sum = @ + Sum(S, LAMBDA t : Weight[t] * es[t].load_sum),
              !.util_avg = @ + Sum(S, LAMBDA t : es[t].util_avg),
              !.util_sum = @ + Sum(S, LAMBDA t : es[t].util_sum)]

\* in detach_entity_load_avg, with dequeue_load_avg,
RemoveLoad(a, S, es) ==
    [a EXCEPT !.load_avg = @ - Sum(S, LAMBDA t : es[t].load_avg),
              !.load_sum = @ - Sum(S, LAMBDA t : Weight[t] * es[t].load_sum),
              !.util_avg = @ - Sum(S, LAMBDA t : es[t].util_avg),
              !.util_sum = @ - Sum(S, LAMBDA t : es[t].util_sum)]

\* enqueue_runnable_load_avg
AddRunnable(a, S, es) ==
    [a EXCEPT !.runnable_load_avg = @ + Sum(S, LAMBDA t : es[t].runnable_load_avg),
              !.runnable_load_sum = @ + Sum(S, LAMBDA t : Weight[t] * es[t].runnable_load_sum)]

\* Mutant: the average is taken off, the sum it is computed from is not.
RemoveRunnable_average(a, S, es) ==
    [a EXCEPT !.runnable_load_avg = @ - Sum(S, LAMBDA t : es[t].runnable_load_avg)]

\* and dequeue_runnable_load_avg.
RemoveRunnable(a, S, es) ==
    [a EXCEPT !.runnable_load_avg = @ - Sum(S, LAMBDA t : es[t].runnable_load_avg),
              !.runnable_load_sum = @ - Sum(S, LAMBDA t : Weight[t] * es[t].runnable_load_sum)]

-----------------------------------------------------------------------------
Pass ==
    /\ ~Wrapped /\ jiffies < MaxJiffies
    /\ jiffies' = jiffies + 1
    /\ UNCHANGED <<queued, curr, weight, cpu, rq_avg, se_avg, astray>>

\* Mutant: the share is not compared with what is left.
NewUtil_uncapped(a, w) ==
    IF a.util_avg = 0 THEN SCHED_CAPACITY_SCALE \div 2
    ELSE (a.util_avg * w) \div (a.load_avg + 1)

\* The share of the capacity left that a new task is given.
NewUtil(a, w) ==
    LET left == SCHED_CAPACITY_SCALE - a.util_avg
        cap == left \div 2
        share == (a.util_avg * w) \div (a.load_avg + 1)
    IN  IF left < 2 THEN 0
        ELSE IF a.util_avg = 0 THEN cap
        ELSE Min({share, cap})

\* start_new_task: p->cpu holds whatever the allocation left there.  Then
\* post_init_entity_util_avg with the queue as it was, update_load_avg,
\* attach_entity_load_avg and enqueue_entity.
Wake(t, c) ==
    /\ ~Wrapped /\ ~OnRq(t)
    /\ \E garbage \in UninitCpu :
          /\ cpu' = [cpu EXCEPT ![t] = garbage]
          /\ astray' = IF garbage = c THEN astray ELSE astray \cup {t}
    /\ LET a == QueueNow(c)
           new == [se_avg[t] EXCEPT !.util_avg = NewUtil(rq_avg[c], Weight[t])]
           e == [se_avg EXCEPT ![t] = Attached(a, new, Weight[t])]
       IN  /\ se_avg' = e
           /\ rq_avg' = [rq_avg EXCEPT ![c] = AddRunnable(AddLoad(a, {t}, e), {t}, e)]
    /\ queued' = [queued EXCEPT ![c] = @ \cup {t}]
    /\ weight' = [weight EXCEPT ![c] = @ + Weight[t]]
    /\ UNCHANGED <<jiffies, curr>>

\* put_prev_entity for the task that ran, set_next_entity for t.
SetNext(t, c) ==
    /\ ~Wrapped /\ t \in queued[c] \ {curr[c]}
    /\ curr' = [curr EXCEPT ![c] = t]
    /\ se_avg' = [x \in Tasks |-> IF x \in {t, curr[c]} THEN EntityNow(x) ELSE se_avg[x]]
    /\ rq_avg' = [rq_avg EXCEPT ![c] = QueueNow(c)]
    /\ UNCHANGED <<jiffies, queued, weight, cpu, astray>>

\* sched_slice for the current entity adds its weight to that of the queue if it
\* is not queued, as the idle one.
sched_slice(c) ==
    IF curr[c] = NULL THEN [weight EXCEPT ![c] = @ + IdleWeight] ELSE weight

\* entity_tick, which brings the averages up to date first.  update_blocked_averages,
\* called later in the same tick, finds nothing left to add.
Tick(c) ==
    LET preempts == Cardinality(queued[c]) > 1    \* check_preempt_tick
    IN  /\ ~Wrapped
        /\ preempts /\ curr[c] = NULL => weight[c] <= MaxWeight
        /\ weight' = IF preempts THEN sched_slice(c) ELSE weight
        /\ se_avg' = [x \in Tasks |-> IF x = curr[c] THEN EntityNow(x) ELSE se_avg[x]]
        /\ rq_avg' = [rq_avg EXCEPT ![c] = QueueNow(c)]
        /\ UNCHANGED <<jiffies, queued, curr, cpu, astray>>

\* detach_tasks and attach_tasks move the tasks S from c to d.  An idle queue
\* leaves one behind.  dequeue_entity takes the runnable load from c.  The load
\* is what set_task_cpu deals with: it leaves the queue that p->cpu names, and
\* is attached again by enqueue_entity, or if p->cpu names d already it stays
\* wherever it is.
Migrate(S, c, d) ==
    /\ ~Wrapped /\ c # d
    /\ S \subseteq queued[c] \ {curr[c]} /\ S # {} /\ Cardinality(queued[c]) > 1
    /\ queued[d] = {} => S # queued[c]
    /\ LET e == [t \in Tasks |-> IF t \in S THEN EntityNow(t) ELSE se_avg[t]]
           detached == {t \in S : cpu[t] # d}
           to == QueueNow(d)
           moved == [t \in Tasks |-> IF t \in detached THEN Attached(to, e[t], Weight[t])
                                     ELSE e[t]]
           left(g) == RemoveLoad(QueueNow(g), {t \in detached : cpu[t] = g}, e)
       IN  /\ se_avg' = moved
           /\ rq_avg' = [g \in CPUs |->
                 IF g = d THEN AddRunnable(AddLoad(to, detached, moved), S, moved)
                 ELSE IF g = c THEN RemoveRunnable(left(g), S, e)
                 ELSE IF \E t \in detached : cpu[t] = g THEN left(g)
                 ELSE rq_avg[g]]
    /\ cpu' = [t \in Tasks |-> IF t \in S THEN d ELSE cpu[t]]
    /\ queued' = [queued EXCEPT ![c] = @ \ S, ![d] = @ \cup S]
    /\ LET moves == Sum(S, LAMBDA t : Weight[t])
       IN  weight' = [weight EXCEPT ![c] = @ - moves, ![d] = @ + moves]
    /\ UNCHANGED <<jiffies, curr, astray>>

Next ==
    \/ Pass
    \/ \E t \in Tasks, c \in CPUs : Wake(t, c) \/ SetNext(t, c)
    \/ \E c \in CPUs : Tick(c)
    \/ \E S \in SUBSET Tasks, c, d \in CPUs : Migrate(S, c, d)

Spec == Init /\ [][Next]_vars

-----------------------------------------------------------------------------
TypeOK ==
    /\ jiffies \in StartJiffies .. MaxJiffies
    /\ \A c, d \in CPUs : c # d => queued[c] \cap queued[d] = {}
    /\ \A c \in CPUs : curr[c] \in queued[c] \cup {NULL} /\ weight[c] >= runnable_weight(c)
    /\ \A t \in Tasks : cpu[t] \in UninitCpu \cup CPUs \cup {NULL}
    /\ astray \subseteq {t \in Tasks : OnRq(t)}
    /\ \A a \in {rq_avg[c] : c \in CPUs} \cup {se_avg[t] : t \in Tasks} :
          a.period_contrib \in 0 .. 1023 /\ a.last_update_time \in 0 .. now

\* A task that is always runnable keeps a load of its weight, however its time
\* is cut into periods and segments and from whatever queue to queue it is moved.
LoadIsWeight ==
    \A t \in Tasks : /\ se_avg[t].load_avg = Weight[t]
                     /\ se_avg[t].runnable_load_avg = Weight[t]

\* runnable_load_avg, which the balancer compares, is the weight of the tasks in
\* the queue, up to one for every task, whatever was added and subtracted at
\* different ages and wherever p->cpu sent the detach.  While every start has
\* named the right CPU, load_avg is the same, until sched_slice has added to the
\* weight that it follows.
QueueLoadIsWeight ==
    \A c \in CPUs :
        LET n == Cardinality(Tasks)
            exact == runnable_weight(c)
        IN  /\ rq_avg[c].runnable_load_avg \in exact - n .. exact + n
            /\ astray = {} => rq_avg[c].load_avg \in exact - n .. weight[c] + n
            /\ astray = {} /\ weight[c] = exact =>
                  rq_avg[c].load_avg = rq_avg[c].runnable_load_avg


\* The share of the capacity a new task is given, and what becomes of it, stays
\* within the scale, also on a queue that others have been moved to.  Not claimed
\* of a share taken from a util_avg that a wrong detach has made wrap.
TaskUtilInScale == \A t \in Tasks : se_avg[t].util_avg \in 0 .. SCHED_CAPACITY_SCALE

-----------------------------------------------------------------------------
(* What the source says of itself and does not keep.                       *)

\* runqueue.cpp:348, where the load leaves a queue: "runnable_load_avg is updated
\* when doing deactivate_task".  So the two go together.
LoadsMoveTogether ==
    \A c \in CPUs : weight[c] = runnable_weight(c) =>
                      rq_avg[c].load_avg = rq_avg[c].runnable_load_avg

\* load.hpp:9: load_sum is the time runnable, times the weight: not less than
\* nothing, at least while no start has named a wrong CPU.
SumIsTime == astray = {} => ~Wrapped
=============================================================================
