------------------------- MODULE BalanceIntervalProofs ------------------------
(***************************************************************************)
(* Theorems about BalanceInterval, for any domains and any length of time. *)
(*                                                                         *)
(* That no domain is forgotten rests on two facts: the time the queue      *)
(* keeps is within max_load_balance_interval of the last balancing of      *)
(* every domain (Covered), and it lies ahead once the CPU has ticked       *)
(* (OneWalkPerJiffy).  In the middle of a walk the same is true of what    *)
(* the walk has collected from the domains it has visited (Collected).     *)
(***************************************************************************)
EXTENDS BalanceInterval, TLAPS

\* The time the queue keeps is not too late for any domain.
Covered == level = 0 => \A l \in Domain : next_balance <= last_balance[l] + 25

\* So is what the walk has collected, for the domains behind it.
Collected ==
    level # 0 =>
      /\ cpu_idle = idle
      /\ earliest > jiffies
      /\ level > 1 => earliest <= jiffies + 25
      /\ \A l \in Domain : l < level =>
            earliest <= last_balance[l]
                        + get_sd_balance_interval(balance_interval[l], ~idle)

\* The parts of the type invariant: what holds of numbers and of flags.
NumbersOK ==
    /\ jiffies \in 0 .. MaxJiffies
    /\ last_balance \in [Domain -> Nat] /\ \A l \in Domain : last_balance[l] <= jiffies
    /\ balance_interval \in [Domain -> Nat \ {0}]
    /\ next_decay_max_lb_cost \in [Domain -> Nat]
    /\ next_balance \in Nat /\ max_idle_balance_cost \in {0, MigrationCost}
    /\ level \in 0 .. NrLevel + 1 /\ earliest \in Nat
FlagsOK ==
    idle \in BOOLEAN /\ cpu_idle \in BOOLEAN /\ need_decay \in BOOLEAN /\ ticked \in BOOLEAN

Inv == TypeOK /\ Covered /\ Collected /\ OneWalkPerJiffy

-----------------------------------------------------------------------------
\* The interval is between one jiffy and the limit.
LEMMA IntervalBounds ==
    ASSUME NEW ms \in Nat, NEW busy \in BOOLEAN
    PROVE  get_sd_balance_interval(ms, busy) \in 1 .. 25
BY SMT DEF get_sd_balance_interval, Clamp, msecs_to_jiffies, max_load_balance_interval,
           HZ, MSEC_PER_SEC, busy_factor

\* The interval of a domain, for a CPU that is idle or not.
LEMMA WaitBounds ==
    ASSUME TypeOK, NEW l \in Domain, NEW on \in BOOLEAN
    PROVE  get_sd_balance_interval(balance_interval[l], ~on) \in 1 .. 25
<1>1. balance_interval[l] \in Nat
  BY SMT DEF TypeOK
<1>2. (~on) \in BOOLEAN
  OBVIOUS
<1> QED
  BY <1>1, <1>2, IntervalBounds, Zenon

\* A busy CPU waits at least as long as an idle one.
LEMMA BusyWaitsLonger ==
    ASSUME NEW ms \in Nat
    PROVE  get_sd_balance_interval(ms, FALSE) <= get_sd_balance_interval(ms, TRUE)
BY SMT DEF get_sd_balance_interval, Clamp, msecs_to_jiffies, max_load_balance_interval,
           HZ, MSEC_PER_SEC, busy_factor

\* An interval is never zero after load_balance.
LEMMA AfterBalancePositive ==
    ASSUME NEW ms \in Nat \ {0}, NEW l \in Domain
    PROVE  AfterBalance(ms, l) \subseteq Nat \ {0}
BY DomainAssumption
   DEF AfterBalance, out_one_pinned, min_interval, max_interval, MAX_PINNED_INTERVAL

-----------------------------------------------------------------------------
(* The invariant.                                                          *)

LEMMA TypeParts == TypeOK <=> NumbersOK /\ FlagsOK
BY Zenon DEF TypeOK, NumbersOK, FlagsOK

LEMMA TypePartsNext == TypeOK' <=> NumbersOK' /\ FlagsOK'
BY Zenon DEF TypeOK, NumbersOK, FlagsOK

\* What Decay leaves in next_decay_max_lb_cost and need_decay.
LEMMA DecayType ==
    ASSUME TypeOK, level \in Domain, Decay
    PROVE  next_decay_max_lb_cost' \in [Domain -> Nat] /\ need_decay' \in BOOLEAN
<1>1. next_decay_max_lb_cost' \in [Domain -> Nat]
  BY SMT DEF TypeOK, Decay, HZ
<1>2. need_decay' \in BOOLEAN
  BY Zenon DEF TypeOK, Decay
<1> QED
  BY <1>1, <1>2

LEMMA InvInit == Init => Inv
<1> SUFFICES ASSUME Init PROVE Inv
  OBVIOUS
<1>1. NumbersOK
  BY DomainAssumption, BoundAssumption, SMT DEF Init, NumbersOK, min_interval, Domain
<1>4. FlagsOK
  BY Zenon DEF Init, FlagsOK
<1>2. Covered
  BY DEF Init, Covered
<1>3. Collected /\ OneWalkPerJiffy
  BY DEF Init, Collected, OneWalkPerJiffy
<1> QED
  BY <1>1, <1>2, <1>3, <1>4, TypeParts DEF Inv

\* A domain that is not due.
LEMMA VisitEarlyKeeps == Inv /\ VisitEarly => Inv'
<1> SUFFICES ASSUME Inv, VisitEarly PROVE Inv'
  OBVIOUS
<1> USE DomainAssumption DEF Inv
<1> DEFINE wait == get_sd_balance_interval(balance_interval[level], ~idle)
<1>1. level \in Domain /\ level \in 1 .. NrLevel /\ level' = level + 1 /\ cpu_idle = idle
  BY SMT DEF VisitEarly, Collected, Domain
<1>2. wait \in 1 .. 25
  BY <1>1, WaitBounds, Zenon DEF TypeOK
<1>3. /\ jiffies < last_balance[level] + wait
      /\ earliest' = IF earliest > last_balance[level] + wait
                     THEN last_balance[level] + wait ELSE earliest
  <2>1. /\ ~DomainDue
        /\ Earliest(last_balance[level]
                    + get_sd_balance_interval(balance_interval[level], ~cpu_idle))
    BY DEF VisitEarly
  <2>2. last_balance[level] \in Nat /\ jiffies \in Nat
    BY <1>1 DEF TypeOK
  <2>3. ~(jiffies >= last_balance[level] + wait)
    BY <2>1, <1>1 DEF DomainDue
  <2>4. Earliest(last_balance[level] + wait)
    BY <2>1, <1>1
  <2> HIDE DEF wait
  <2> QED
    BY <2>2, <2>3, <2>4, <1>2, SMT DEF Earliest
<1> HIDE DEF wait
<1>4. earliest' \in Nat /\ earliest' > jiffies /\ earliest' <= jiffies + 25
  BY <1>1, <1>2, <1>3, SMT DEF TypeOK, Collected
<1>5. TypeOK'
  <2>1. NumbersOK'
    BY <1>1, <1>4, DecayType, TypeParts, SMT DEF NumbersOK, VisitEarly, queue
  <2>2. FlagsOK'
    BY <1>1, DecayType, TypeParts, Zenon DEF FlagsOK, VisitEarly
  <2> QED
    BY <2>1, <2>2, TypePartsNext
<1>6. Collected'
  <2>1. ASSUME NEW l \in Domain, l < level'
        PROVE  earliest' <= last_balance[l]
                            + get_sd_balance_interval(balance_interval[l], ~idle)
    <3> DEFINE other == get_sd_balance_interval(balance_interval[l], ~idle)
    <3>1. other \in 1 .. 25
      BY WaitBounds, Zenon DEF TypeOK
    <3>2. l < level => earliest <= last_balance[l] + other
      BY <1>1 DEF Collected, Domain
    <3>3. CASE l = level
      BY <3>3, <1>2, <1>3, <1>1, SMT DEF wait, TypeOK
    <3>4. CASE l < level
      <4>1. earliest' <= earliest
        BY <1>1, <1>2, <1>3, SMT DEF TypeOK
      <4> HIDE DEF other
      <4>2. earliest' <= last_balance[l] + other
        BY <4>1, <3>1, <3>2, <3>4, <1>4, SMT DEF TypeOK
      <4> QED
        BY <4>2 DEF other
    <3> QED
      BY <3>3, <3>4, <2>1, <1>1, SMT DEF Domain
  <2>2. UNCHANGED <<jiffies, last_balance, balance_interval, idle, cpu_idle>>
    BY DEF VisitEarly
  <2> QED
    BY <1>1, <1>4, <2>1, <2>2, SMT DEF Collected, Domain
<1>7. Covered' /\ OneWalkPerJiffy'
  BY <1>1, SMT DEF Covered, OneWalkPerJiffy, Domain
<1> QED
  BY <1>5, <1>6, <1>7

\* A domain that is balanced: the CPU may stop being idle, which only makes the
\* intervals longer that the walk has used.
LEMMA VisitDueKeeps == Inv /\ VisitDue => Inv'
<1> SUFFICES ASSUME Inv, VisitDue PROVE Inv'
  OBVIOUS
<1> USE DomainAssumption DEF Inv
<1>1. level \in Domain /\ level \in 1 .. NrLevel /\ level' = level + 1 /\ cpu_idle = idle
  BY SMT DEF VisitDue, Collected, Domain
<1>2. PICK ms \in AfterBalance(balance_interval[level], level), moved \in BOOLEAN :
        /\ balance_interval' = [balance_interval EXCEPT ![level] = ms]
        /\ idle' \in IF moved THEN {idle, FALSE} ELSE {idle}
        /\ cpu_idle' = IF moved THEN idle' ELSE cpu_idle
        /\ Earliest(jiffies + get_sd_balance_interval(ms, ~cpu_idle'))
  BY Zenon DEF VisitDue
<1>3. ms \in Nat \ {0}
  BY <1>1, AfterBalancePositive, Zenon DEF TypeOK
<1>4. idle' \in BOOLEAN /\ cpu_idle' = idle' /\ (idle' => idle)
  BY <1>1, <1>2, Zenon DEF TypeOK
<1> DEFINE wait == get_sd_balance_interval(ms, ~idle')
<1>5. wait \in 1 .. 25
  <2>1. ms \in Nat /\ (~idle') \in BOOLEAN
    BY <1>3, <1>4
  <2> QED
    BY <2>1, IntervalBounds, Zenon
<1>6. earliest' = IF earliest > jiffies + wait THEN jiffies + wait ELSE earliest
  <2>1. cpu_idle' = idle'
    BY <1>4
  <2>2. Earliest(jiffies + wait)
    BY <1>2, <2>1
  <2> QED
    BY <2>2, Zenon DEF Earliest
<1>7. last_balance' = [last_balance EXCEPT ![level] = jiffies]
      /\ UNCHANGED <<jiffies, queue, ticked>> /\ Decay
  BY Zenon DEF VisitDue
<1>8. earliest' \in Nat /\ earliest' > jiffies /\ earliest' <= jiffies + 25
      /\ earliest' <= jiffies + wait /\ earliest' <= earliest
  <2> HIDE DEF wait
  <2> QED
    BY <1>1, <1>5, <1>6, SMTT(20) DEF TypeOK, Collected, Domain
<1>9. TypeOK'
  <2>1. balance_interval' \in [Domain -> Nat \ {0}]
    BY <1>1, <1>2, <1>3, SMT DEF TypeOK
  <2>2. last_balance' \in [Domain -> Nat] /\ \A l \in Domain : last_balance'[l] <= jiffies
    BY <1>1, <1>7, SMT DEF TypeOK
  <2>3. NumbersOK'
    BY <2>1, <2>2, <1>1, <1>7, <1>8, DecayType, TypeParts, SMT DEF NumbersOK, queue
  <2>4. FlagsOK'
    BY <1>1, <1>4, <1>7, DecayType, TypeParts, Zenon DEF FlagsOK
  <2> QED
    BY <2>3, <2>4, TypePartsNext
<1>10. Collected'
  <2>1. ASSUME NEW l \in Domain, l < level'
        PROVE  earliest' <= last_balance'[l]
                            + get_sd_balance_interval(balance_interval'[l], ~idle')
    <3>1. CASE l = level
      <4>1. balance_interval'[l] = ms /\ last_balance'[l] = jiffies
        BY <3>1, <1>1, <1>2, <1>7 DEF TypeOK
      <4> QED
        BY <4>1, <1>8, Zenon DEF wait
    <3>2. CASE l < level
      <4> DEFINE before == get_sd_balance_interval(balance_interval[l], ~idle)
                 after == get_sd_balance_interval(balance_interval[l], ~idle')
      <4>1. balance_interval'[l] = balance_interval[l] /\ last_balance'[l] = last_balance[l]
        BY <3>2, <1>1, <1>2, <1>7, SMT DEF TypeOK, Domain
      <4>2. before \in 1 .. 25 /\ after \in 1 .. 25
        BY <1>4, WaitBounds, Zenon DEF TypeOK
      <4>3. before <= after
        <5>1. CASE idle' = idle
          BY <5>1, <4>2, SMT
        <5>2. CASE idle' = FALSE /\ idle = TRUE
          <6>1. balance_interval[l] \in Nat
            BY DEF TypeOK
          <6>2. get_sd_balance_interval(balance_interval[l], FALSE)
                   <= get_sd_balance_interval(balance_interval[l], TRUE)
            BY <6>1, BusyWaitsLonger, Zenon
          <6>3. (~idle) = FALSE /\ (~idle') = TRUE
            BY <5>2
          <6> QED
            BY <6>2, <6>3, Zenon
        <5> QED
          BY <5>1, <5>2, <1>4, Zenon DEF TypeOK
      <4>4. earliest <= last_balance[l] + before
        BY <1>1, <3>2 DEF Collected, Domain
      <4> HIDE DEF before, after
      <4>5. earliest' <= last_balance[l] + after
        BY <4>2, <4>3, <4>4, <1>8, SMT DEF TypeOK
      <4> QED
        BY <4>5, <4>1, Zenon DEF after
    <3> QED
      BY <3>1, <3>2, <2>1, <1>1, SMT DEF Domain
  <2> QED
    BY <1>1, <1>4, <1>7, <1>8, <2>1, SMT DEF Collected, Domain
<1>11. Covered' /\ OneWalkPerJiffy'
  BY <1>1, SMT DEF Covered, OneWalkPerJiffy, Domain
<1> QED
  BY <1>9, <1>10, <1>11, Zenon

\* The end of a walk: the queue takes the time the walk has collected.
LEMMA EndWalkKeeps == Inv /\ EndWalk => Inv'
<1> SUFFICES ASSUME Inv, EndWalk PROVE Inv'
  OBVIOUS
<1> USE DomainAssumption DEF Inv
<1>1. level = NrLevel + 1 /\ level > 1 /\ level # 0 /\ level' = 0
  BY SMT DEF EndWalk
<1>2. next_balance' = earliest /\ earliest > jiffies
  BY <1>1, SMT DEF EndWalk, Collected, TypeOK, HZ
<1>3. TypeOK'
  <2>1. NumbersOK'
    BY <1>1, <1>2, TypeParts, SMT DEF EndWalk, NumbersOK, domain
  <2>2. FlagsOK'
    BY TypeParts, Zenon DEF EndWalk, FlagsOK
  <2> QED
    BY <2>1, <2>2, TypePartsNext
<1>4. Covered'
  <2>1. ASSUME NEW l \in Domain PROVE earliest <= last_balance[l] + 25
    <3> DEFINE wait == get_sd_balance_interval(balance_interval[l], ~idle)
    <3>1. wait \in 1 .. 25
      BY WaitBounds, Zenon DEF TypeOK
    <3>2. l < level
      BY <1>1, SMT DEF Domain
    <3>3. earliest <= last_balance[l] + wait
      BY <1>1, <3>2, Zenon DEF Collected
    <3> HIDE DEF wait
    <3> QED
      BY <3>1, <3>3, SMT DEF TypeOK
  <2> QED
    BY <1>2, <2>1, Zenon DEF Covered, EndWalk, domain
<1>5. Collected' /\ OneWalkPerJiffy'
  BY <1>1, <1>2, SMT DEF Collected, OneWalkPerJiffy, EndWalk
<1> QED
  BY <1>3, <1>4, <1>5

LEMMA InvNext == Inv /\ [Next]_vars => Inv'
<1> SUFFICES ASSUME Inv, [Next]_vars PROVE Inv'
  OBVIOUS
<1> USE DomainAssumption, BoundAssumption
<1>1. CASE Pass
  <2>1. NumbersOK' /\ FlagsOK'
    <3>1. NumbersOK'
      BY <1>1, TypeParts, SMT DEF Inv, Pass, NumbersOK, domain, queue, walk
    <3>2. FlagsOK'
      BY <1>1, TypeParts, Zenon DEF Inv, Pass, FlagsOK, walk
    <3> QED
      BY <3>1, <3>2
  <2> QED
    BY <2>1, <1>1, TypePartsNext DEF Inv, Pass, Covered, Collected, OneWalkPerJiffy, domain, queue, walk
<1>2. CASE TickEarly
  BY <1>2, SMT DEF Inv, TickEarly, TypeOK, Covered, Collected, OneWalkPerJiffy,
                   domain, queue, walk
<1>3. CASE TickDue
  <2>1. NumbersOK' /\ FlagsOK'
    <3>1. NumbersOK'
      BY <1>3, TypeParts, SMT DEF Inv, TickDue, NumbersOK, domain, queue, HZ
    <3>2. FlagsOK'
      BY <1>3, TypeParts, Zenon DEF Inv, TickDue, FlagsOK
    <3> QED
      BY <3>1, <3>2
  <2>2. Collected'
    BY <1>3, SMT DEF Inv, TickDue, TypeOK, Collected, Domain, HZ
  <2> QED
    BY <2>1, <2>2, <1>3, TypePartsNext, SMT DEF Inv, TickDue, Covered, OneWalkPerJiffy
<1>4. CASE VisitEarly
  BY <1>4, VisitEarlyKeeps
<1>5. CASE VisitDue
  BY <1>5, VisitDueKeeps
<1>6. CASE EndWalk
  BY <1>6, EndWalkKeeps
<1>7. CASE UNCHANGED vars
  BY <1>7, SMT DEF Inv, TypeOK, Covered, Collected, OneWalkPerJiffy, vars, domain, queue, walk
<1> QED
  BY <1>1, <1>2, <1>3, <1>4, <1>5, <1>6, <1>7 DEF Next

LEMMA InvHolds == Spec => []Inv
BY InvInit, InvNext, PTL DEF Spec

-----------------------------------------------------------------------------
(* What follows from the invariant.                                        *)

\* Types: the walk, the intervals and the times stay what they are meant to be.
THEOREM TypeCorrect == Spec => []TypeOK
<1>1. Inv => TypeOK
  BY DEF Inv
<1> QED
  BY <1>1, InvHolds, PTL

\* However the intervals change, a domain waits less than
\* max_load_balance_interval jiffies for a CPU that has its ticks.
THEOREM DomainsNotForgotten == Spec => []NeverOverdue
<1>1. Inv => NeverOverdue
  <2> SUFFICES ASSUME Inv, ticked, level = 0, NEW l \in Domain
               PROVE  jiffies < last_balance[l] + max_load_balance_interval
    BY DEF NeverOverdue
  <2>1. max_load_balance_interval = 25
    BY SMT DEF max_load_balance_interval, HZ
  <2>2. jiffies < next_balance /\ next_balance <= last_balance[l] + 25
    BY DEF Inv, Covered, OneWalkPerJiffy
  <2> QED
    BY <2>1, <2>2, SMT DEF Inv, TypeOK
<1> QED
  BY <1>1, InvHolds, PTL

\* A second tick in a jiffy finds nothing to do.
THEOREM WalksOncePerJiffy == Spec => []OneWalkPerJiffy
<1>1. Inv => OneWalkPerJiffy
  BY DEF Inv
<1> QED
  BY <1>1, InvHolds, PTL

\* At the end of a walk no domain is due before the time that the queue keeps.
THEOREM EarliestOfAll == Spec => NextIsEarliest
<1> DEFINE Early == \A l \in Domain :
              next_balance' <= last_balance[l]
                               + get_sd_balance_interval(balance_interval[l], ~idle)
<1>1. Inv /\ EndWalk => Early
  <2> SUFFICES ASSUME Inv, EndWalk PROVE Early
    OBVIOUS
  <2>1. level = NrLevel + 1 /\ level > 1 /\ level # 0
    BY DomainAssumption, SMT DEF EndWalk
  <2>2. next_balance' = earliest
    BY <2>1, SMT DEF Inv, EndWalk, Collected, TypeOK, HZ
  <2>3. \A l \in Domain : l < level
    BY <2>1, DomainAssumption, SMT DEF Domain
  <2> QED
    BY <2>1, <2>2, <2>3, Zenon DEF Inv, Collected
<1>2. Inv /\ [Next]_vars => [EndWalk => Early]_vars
  BY <1>1
<1> QED
  BY <1>2, InvHolds, PTL DEF Spec, NextIsEarliest

\* One visit keeps an interval within its bounds.
LEMMA AfterBalanceInRange ==
    ASSUME NEW ms \in Nat \ {0}, NEW l \in Domain, NEW new \in AfterBalance(ms, l),
           ms = min_interval(l) \/ ms >= max_interval(l),
           ms = min_interval(l) \/ ms = max_interval(l) \/ ms < 2 * MAX_PINNED_INTERVAL
    PROVE  \/ new = min_interval(l)
           \/ /\ new >= max_interval(l)
              /\ new = max_interval(l) \/ new < 2 * MAX_PINNED_INTERVAL
BY DomainAssumption, SMT
   DEF AfterBalance, out_one_pinned, min_interval, max_interval, MAX_PINNED_INTERVAL

\* The intervals stay between min_interval and the limits of out_one_pinned,
\* however long the simulation runs.
THEOREM IntervalsInRange == Spec => []IntervalInRange
<1>1. Init => IntervalInRange
  BY DEF Init, IntervalInRange
<1>2. Inv /\ IntervalInRange /\ [Next]_vars => IntervalInRange'
  <2> SUFFICES ASSUME Inv, IntervalInRange, [Next]_vars PROVE IntervalInRange'
    OBVIOUS
  <2>1. CASE VisitDue
    <3>1. level \in Domain
      BY <2>1 DEF VisitDue
    <3>2. PICK ms \in AfterBalance(balance_interval[level], level) :
             balance_interval' = [balance_interval EXCEPT ![level] = ms]
      BY <2>1, Zenon DEF VisitDue
    <3> SUFFICES ASSUME NEW l \in Domain
                 PROVE  \/ balance_interval'[l] = min_interval(l)
                        \/ /\ balance_interval'[l] >= max_interval(l)
                           /\ \/ balance_interval'[l] = max_interval(l)
                              \/ balance_interval'[l] < 2 * MAX_PINNED_INTERVAL
      BY Zenon DEF IntervalInRange
    <3>3. CASE l # level
      BY <3>2, <3>3, Zenon DEF Inv, TypeOK, IntervalInRange
    <3>4. CASE l = level
      <4>1. balance_interval'[l] = ms
        BY <3>1, <3>2, <3>4 DEF Inv, TypeOK
      <4>2. balance_interval[l] \in Nat \ {0}
        BY DEF Inv, TypeOK
      <4>3. /\ \/ balance_interval[l] = min_interval(l)
               \/ balance_interval[l] >= max_interval(l)
            /\ \/ balance_interval[l] = min_interval(l)
               \/ balance_interval[l] = max_interval(l)
               \/ balance_interval[l] < 2 * MAX_PINNED_INTERVAL
        BY Zenon DEF IntervalInRange
      <4> QED
        BY <4>1, <4>2, <4>3, <3>2, <3>4, AfterBalanceInRange, Zenon
    <3> QED
      BY <3>3, <3>4
  <2>2. CASE Pass \/ TickEarly \/ TickDue \/ VisitEarly \/ EndWalk \/ UNCHANGED vars
    BY <2>2 DEF Pass, TickEarly, TickDue, VisitEarly, EndWalk, vars, domain, IntervalInRange
  <2> QED
    BY <2>1, <2>2 DEF Next
<1> QED
  BY <1>1, <1>2, InvHolds, PTL DEF Spec
=============================================================================
