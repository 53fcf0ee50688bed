---------------------------- MODULE BalanceInterval ---------------------------
(***************************************************************************)
(* When a CPU balances which of its domains: trigger_load_balance and      *)
(* rebalance_domains (sched.hpp).  Every domain has an interval, which     *)
(* grows while there is nothing to do or everything is pinned and is reset *)
(* when it was unbalanced; the queue remembers the earliest time at which  *)
(* a domain is due.  What load_balance does otherwise is in LoadBalance;   *)
(* here it has any of its outcomes.                                        *)
(*                                                                         *)
(* max_newidle_lb_cost is 0 and stays so: nothing adds to it.              *)
(***************************************************************************)
EXTENDS Integers

CONSTANTS
    NrLevel,      \* the number of domains of the CPU, the smallest first
    Weight,       \* Weight[l]: how many CPUs the domain spans
    MigrationCost,\* sysctl_sched_migration_cost
    MaxJiffies    \* bound: where time ends

Domain == 1 .. NrLevel

ASSUME DomainAssumption == NrLevel \in Nat \ {0} /\ Weight \in [Domain -> Nat \ {0}]
ASSUME BoundAssumption  == MaxJiffies \in Nat /\ MigrationCost \in Nat \ {0}

HZ == 250
MSEC_PER_SEC == 1000
max_load_balance_interval == HZ \div 10
MAX_PINNED_INTERVAL == 512
busy_factor == 32
min_interval(l) == Weight[l]
max_interval(l) == 2 * Weight[l]

VARIABLES
    jiffies,
    last_balance, balance_interval,  \* of every domain
    next_decay_max_lb_cost,
    next_balance,                    \* of the run queue
    max_idle_balance_cost,
    idle,            \* what idle_cpu() answers
    level,           \* the domain the walk is at; 0 when there is no walk
    cpu_idle, earliest, need_decay,  \* of the walk; earliest is _next_balance
    ticked           \* the CPU had its tick in this jiffy

domain == <<last_balance, balance_interval, next_decay_max_lb_cost>>
queue  == <<next_balance, max_idle_balance_cost>>
walk   == <<level, cpu_idle, earliest, need_decay>>
vars   == <<jiffies, domain, queue, idle, walk, ticked>>

\* The domains and the queue are made when jiffies is 0.
Init ==
    /\ jiffies = 0
    /\ last_balance = [l \in Domain |-> jiffies]
    /\ balance_interval = [l \in Domain |-> min_interval(l)]
    /\ next_decay_max_lb_cost = [l \in Domain |-> jiffies]
    /\ next_balance = jiffies /\ max_idle_balance_cost = 0
    /\ idle = TRUE
    /\ level = 0 /\ cpu_idle = FALSE /\ earliest = 0 /\ need_decay = FALSE
    /\ ticked = FALSE

msecs_to_jiffies(m) == (m + MSEC_PER_SEC \div HZ - 1) \div (MSEC_PER_SEC \div HZ)

\* Without the upper limit (a mutant).
Clamp_floor(j) == IF j < 1 THEN 1 ELSE j

Clamp(j) == IF j < 1 THEN 1
            ELSE IF j > max_load_balance_interval THEN max_load_balance_interval ELSE j

\* The interval in jiffies, of a domain whose balance_interval is ms.
get_sd_balance_interval(ms, cpu_busy) ==
    Clamp(msecs_to_jiffies(IF cpu_busy THEN ms * busy_factor ELSE ms))

-----------------------------------------------------------------------------
\* Time passes, and tasks come and go meanwhile.  The CPU may miss its tick:
\* main() adds several jiffies at once.
Pass ==
    /\ level = 0 /\ jiffies < MaxJiffies
    /\ jiffies' = jiffies + 1 /\ ticked' = FALSE
    /\ idle' \in BOOLEAN
    /\ UNCHANGED <<domain, queue, walk>>

\* scheduler_tick, trigger_load_balance.
TickEarly ==
    /\ level = 0 /\ jiffies < next_balance
    /\ ticked' = TRUE
    /\ UNCHANGED <<jiffies, domain, queue, idle, walk>>

TickDue ==
    /\ level = 0 /\ jiffies >= next_balance
    /\ level' = 1 /\ cpu_idle' = idle
    /\ earliest' = jiffies + 60 * HZ /\ need_decay' = FALSE
    /\ UNCHANGED <<jiffies, domain, queue, idle, ticked>>

DomainDue == jiffies >= last_balance[level]
                        + get_sd_balance_interval(balance_interval[level], ~cpu_idle)

\* A regular visit of a domain once in a second.
Decay ==
    IF jiffies > next_decay_max_lb_cost[level]
    THEN /\ next_decay_max_lb_cost' = [next_decay_max_lb_cost EXCEPT ![level] = jiffies + HZ]
         /\ need_decay' = TRUE
    ELSE UNCHANGED <<next_decay_max_lb_cost, need_decay>>

\* The earliest time at which one of the domains is due.
Earliest(due) == earliest' = IF earliest > due THEN due ELSE earliest

\* A domain that is not due has no say (a mutant).
VisitEarly_skips ==
    /\ level \in Domain /\ ~DomainDue
    /\ Decay
    /\ level' = level + 1
    /\ UNCHANGED <<jiffies, last_balance, balance_interval, queue, idle, cpu_idle, earliest, ticked>>

VisitEarly ==
    /\ level \in Domain /\ ~DomainDue
    /\ Decay
    /\ Earliest(last_balance[level]
                + get_sd_balance_interval(balance_interval[level], ~cpu_idle))
    /\ level' = level + 1
    /\ UNCHANGED <<jiffies, last_balance, balance_interval, queue, idle, cpu_idle, ticked>>

\* out_one_pinned.
out_one_pinned(ms, l, all_pinned) ==
    IF \/ all_pinned /\ ms < MAX_PINNED_INTERVAL
       \/ ms < max_interval(l)
    THEN 2 * ms ELSE ms

\* The reset is to what the comment of balance_interval says (a mutant).
AfterBalance_one(ms, l) == {out_one_pinned(ms, l, p) : p \in BOOLEAN} \cup {1}

\* What load_balance leaves in balance_interval: out_one_pinned comes last, or
\* do_active_balance does.
AfterBalance(ms, l) == {out_one_pinned(ms, l, p) : p \in BOOLEAN} \cup {min_interval(l)}

\* load_balance is called; if it says that tasks were moved, the CPU may have got
\* some of them.
VisitDue ==
    /\ level \in Domain /\ DomainDue
    /\ Decay
    /\ \E ms \in AfterBalance(balance_interval[level], level), moved \in BOOLEAN :
         /\ balance_interval' = [balance_interval EXCEPT ![level] = ms]
         /\ idle' \in IF moved THEN {idle, FALSE} ELSE {idle}
         /\ cpu_idle' = IF moved THEN idle' ELSE cpu_idle
         /\ Earliest(jiffies + get_sd_balance_interval(ms, ~cpu_idle'))
    /\ last_balance' = [last_balance EXCEPT ![level] = jiffies]
    /\ level' = level + 1
    /\ UNCHANGED <<jiffies, queue, ticked>>

EndWalk ==
    /\ level = NrLevel + 1
    /\ level' = 0 /\ ticked' = TRUE
    /\ max_idle_balance_cost' = IF need_decay THEN MigrationCost ELSE max_idle_balance_cost
    /\ next_balance' = IF earliest < jiffies + 60 * HZ THEN earliest ELSE next_balance
    /\ UNCHANGED <<jiffies, domain, idle, cpu_idle, earliest, need_decay>>

Next == Pass \/ TickEarly \/ TickDue \/ VisitEarly \/ VisitDue \/ EndWalk

Spec == Init /\ [][Next]_vars

-----------------------------------------------------------------------------
TypeOK ==
    /\ jiffies \in 0 .. MaxJiffies
    /\ last_balance \in [Domain -> Nat] /\ \A l \in Domain : last_balance[l] <= jiffies
    /\ balance_interval \in [Domain -> Nat \ {0}]
    /\ next_decay_max_lb_cost \in [Domain -> Nat]
    /\ next_balance \in Nat /\ max_idle_balance_cost \in {0, MigrationCost}
    /\ level \in 0 .. NrLevel + 1 /\ earliest \in Nat
    /\ {idle, cpu_idle, need_decay, ticked} \subseteq BOOLEAN

\* No domain is forgotten.  The queue has one time for all domains, and a domain
\* is skipped until then; its interval changes, with busy_factor and with what
\* the CPU does, after that time was taken.  Still, when the CPU has had its
\* tick, no domain has been waiting for max_load_balance_interval jiffies.
NeverOverdue ==
    ticked /\ level = 0 =>
        \A l \in Domain : jiffies < last_balance[l] + max_load_balance_interval

\* sched.hpp:262: next_balance is the earliest time among all domains, also
\* when the CPU stopped being idle in the middle of the walk that took it.
NextIsEarliest ==
    [][EndWalk => \A l \in Domain :
         next_balance' <= last_balance[l]
                          + get_sd_balance_interval(balance_interval[l], ~idle)]_vars

\* A second tick in the same jiffy balances nothing again.
OneWalkPerJiffy == ticked /\ level = 0 => jiffies < next_balance

\* However often a domain is pinned or balanced, its interval stays between
\* min_interval and twice that, or below twice MAX_PINNED_INTERVAL.
IntervalInRange ==
    \A l \in Domain :
        \/ balance_interval[l] = min_interval(l)
        \/ /\ balance_interval[l] >= max_interval(l)
           /\ balance_interval[l] = max_interval(l)
              \/ balance_interval[l] < 2 * MAX_PINNED_INTERVAL
=============================================================================
