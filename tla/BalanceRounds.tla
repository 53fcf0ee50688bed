----------------------------- MODULE BalanceRounds ----------------------------
(***************************************************************************)
(* LoadBalance driven as scheduler_tick_all_cpus drives it (sched.hpp):    *)
(* round by round every online CPU ticks once, in ascending order.  The    *)
(* rounds are so far apart that every domain is due (the longest interval  *)
(* is 25 jiffies, see BalanceInterval).  Between two ticks tasks are woken *)
(* and CPUs reschedule as they like.                                       *)
(***************************************************************************)
EXTENDS LoadBalance

VARIABLE next_tick     \* the CPU that ticks next

roundVars == <<vars, next_tick>>

RoundInit == Init /\ next_tick = find_first_bit(Online)

\* for_each_cpu(i, cpu_online_mask) scheduler_tick(i), again and again.
TickInTurn ==
    /\ Tick(next_tick)
    /\ next_tick' = LET after == {c \in Online : c > next_tick}
                    IN  find_first_bit(IF after = {} THEN Online ELSE after)

Balancer == /\ \/ \E d \in Domains : Due(d[2], d[1])
               \/ Refuse \/ UpdateStats \/ Choose \/ DetachKeep \/ DetachMove \/ Attach
               \/ MoreBalance \/ Redo \/ EndBalance
            /\ UNCHANGED next_tick

Others == /\ \/ \E t \in Tasks, c \in Online : Wake(t, c)
             \/ \E c \in Online : Schedule(c)
          /\ UNCHANGED next_tick

RoundNext == TickInTurn \/ Balancer \/ Others

\* The walks run to their ends, and the rounds go on.
RoundSpec == RoundInit /\ [][RoundNext]_roundVars /\ WF_roundVars(TickInTurn \/ Balancer)

\* A walk ends.
WalkEnds == pc # "tick" ~> pc = "tick"

\* A CPU does not stay idle for ever while another has two tasks, one of them
\* waiting, large enough to be moved and allowed there.
Starving(c) == /\ idle_cpu(c)
               /\ \E x \in Online : /\ nr_running(x) > 1
                                    /\ \E t \in ToSet(queue[x]) \ {curr[x]} :
                                          Load[t] >= 16 /\ c \in allowed[t]
IdleGetsWork == \A c \in Online : []<>~Starving(c)
=============================================================================
