-------------------------- MODULE LoadBalanceProofs --------------------------
(***************************************************************************)
(* Theorems about LoadBalance, for any machine, tasks and affinities, and  *)
(* whatever the load averages and the uninitialised fields are.            *)
(*                                                                         *)
(* That no task is put where it may not run rests on what is known of the  *)
(* list between the two queues: it holds tasks that may run on env.dst,    *)
(* and it is empty whenever env.dst can change (InHand).                   *)
(*                                                                         *)
(* Who balances, and between which queues, needs the walk (Walks): the     *)
(* destination is in the local group, the source is not, because the       *)
(* groups of a domain are disjoint and the ring starts with the local one; *)
(* and a CPU that was refused is blocked by another of its local group,    *)
(* which is part of the local group one level up.  With Distinct, that a   *)
(* task is in one queue, once, this gives the refinement of Placement.     *)
(***************************************************************************)
EXTENDS LoadBalance, CommonLemmas

\* The tasks that may run on c.
Fit(c) == {t \in Tasks : c \in allowed[t]}

QueuesFit ==
    /\ queue \in [Online -> Seq(Tasks)] /\ curr \in [Online -> Tasks \cup {NULL}]
    /\ \A c \in Online : queue[c] \in Seq(Fit(c))

\* The fields of env; nothing is known of imbalance.
EnvShape ==
    /\ env = [dst |-> env.dst, src |-> env.src, cpus |-> env.cpus, new_dst |-> env.new_dst,
              imbalance |-> env.imbalance, flags |-> env.flags, loop |-> env.loop,
              loop_max |-> env.loop_max, tasks |-> env.tasks]
    /\ env.cpus \subseteq Online
    /\ pc \in {"detach", "migrated"} => env.src \in Online
InHand ==
    IF pc = "detach" THEN env.tasks \in Seq(Fit(env.dst)) ELSE env.tasks = << >>

IsRunningQueued(c) ==
    curr[c] # NULL => \E i \in 1 .. Len(queue[c]) : queue[c][i] = curr[c]
RunningQueued == \A c \in Online : IsRunningQueued(c)

Inv == QueuesFit /\ EnvShape /\ InHand /\ RunningQueued

-----------------------------------------------------------------------------
(* Task lists.                                                             *)

\* Taking off the last task.
LEMMA FrontLast ==
    ASSUME NEW S, NEW q \in Seq(S), Len(q) > 0
    PROVE  /\ Last(q) \in S /\ Front(q) \in Seq(S) /\ Len(Front(q)) = Len(q) - 1
           /\ \A i \in 1 .. Len(q) - 1 : Front(q)[i] = q[i]
<1>1. Len(q) \in Nat /\ Front(q) = SubSeq(q, 1, Len(q) - 1)
  BY SMT DEF Front
<1>2. /\ SubSeq(q, 1, Len(q) - 1) \in Seq(S)
      /\ Len(SubSeq(q, 1, Len(q) - 1)) = Len(q) - 1
      /\ \A i \in 1 .. Len(q) - 1 : SubSeq(q, 1, Len(q) - 1)[i] = q[i]
  <2>1. 1 \in Int /\ Len(q) - 1 \in Int /\ \A i \in 1 .. Len(q) - 1 : q[i] \in S
    BY <1>1
  <2>2. /\ SubSeq(q, 1, Len(q) - 1) \in Seq(S)
        /\ Len(SubSeq(q, 1, Len(q) - 1)) =
              IF 1 <= Len(q) - 1 THEN Len(q) - 1 - 1 + 1 ELSE 0
        /\ \A i \in 1 .. Len(q) - 1 - 1 + 1 : SubSeq(q, 1, Len(q) - 1)[i] = q[1 + i - 1]
    BY ONLY <2>1, SubSeqProperties
  <2>3. Len(SubSeq(q, 1, Len(q) - 1)) = Len(q) - 1
    <3> DEFINE m == Len(q)
               n == Len(SubSeq(q, 1, m - 1))
    <3>1. m \in Nat /\ m > 0 /\ n = IF 1 <= m - 1 THEN m - 1 - 1 + 1 ELSE 0
      BY <1>1, <2>2, Zenon
    <3> HIDE DEF m, n
    <3>2. n = m - 1
      BY <3>1
    <3> QED BY <3>2 DEF m, n
  <2>4. ASSUME NEW i \in 1 .. Len(q) - 1
        PROVE  SubSeq(q, 1, Len(q) - 1)[i] = q[i]
    <3>1. i \in 1 .. Len(q) - 1 - 1 + 1 /\ 1 + i - 1 = i
      BY <1>1
    <3> QED BY <2>2, <3>1
  <2> QED BY <2>2, <2>3, <2>4
<1>3. Last(q) \in S
  BY <1>1, SMT DEF Last
<1> QED BY <1>1, <1>2, <1>3

\* The elements of a list that something is put in front of.
LEMMA ConcatElements ==
    ASSUME NEW S, NEW p \in Seq(S), NEW q \in Seq(S)
    PROVE  /\ p \o q \in Seq(S) /\ Len(p \o q) = Len(p) + Len(q)
           /\ \A i \in 1 .. Len(p) : (p \o q)[i] = p[i]
           /\ \A i \in 1 .. Len(q) : (p \o q)[Len(p) + i] = q[i]
BY SMT

\* A list turned round.
LEMMA ReverseType ==
    ASSUME NEW S, NEW q \in Seq(S)
    PROVE  Reverse(q) \in Seq(S) /\ Len(Reverse(q)) = Len(q)
BY SMT DEF Reverse

\* The empty list.
LEMMA NothingListed == ASSUME NEW S PROVE << >> \in Seq(S)
OBVIOUS

\* The last task is put at the front: all are still there.
LEMMA LastToFront ==
    ASSUME NEW S, NEW q \in Seq(S), Len(q) > 0, NEW x
    PROVE  /\ Cons(Last(q), Front(q)) \in Seq(S)
           /\ (\E i \in 1 .. Len(q) : q[i] = x) =>
                 \E i \in 1 .. Len(Cons(Last(q), Front(q))) : Cons(Last(q), Front(q))[i] = x
<1> DEFINE r == Cons(Last(q), Front(q))
<1>1. <<Last(q)>> \in Seq(S) /\ Front(q) \in Seq(S)
  BY FrontLast
<1>2. /\ r \in Seq(S) /\ Len(r) = Len(q) /\ r[1] = Last(q)
      /\ \A i \in 1 .. Len(q) - 1 : r[1 + i] = q[i]
  BY <1>1, FrontLast, ConcatElements DEF Cons
<1>3. ASSUME NEW i \in 1 .. Len(q), q[i] = x
      PROVE  \E j \in 1 .. Len(r) : r[j] = x
  <2>1. CASE i = Len(q)
    BY <1>2, <1>3, <2>1 DEF Last
  <2>2. CASE i # Len(q)
    <3>1. i \in 1 .. Len(q) - 1 /\ 1 + i \in 1 .. Len(r)
      BY <1>2, <2>2
    <3> QED BY <1>2, <1>3, <3>1
  <2> QED BY <2>1, <2>2
<1> QED BY <1>2, <1>3

-----------------------------------------------------------------------------
\* The first bit of a set of CPUs is one of them, or none.
LEMMA FirstBit ==
    ASSUME NEW m \in SUBSET Nat, find_first_bit(m) # NoCpu
    PROVE  find_first_bit(m) \in m
BY MinNat DEF find_first_bit

LEMMA OnlineCpus == Online \subseteq Nat
BY MachineAssumption, NrCpuAssumption DEF Online, IsMachine, Mask, CPU
-----------------------------------------------------------------------------
(* Each step keeps the invariant.                                          *)

\* A step that leaves the queues alone and ends with nothing in the hand.
LEMMA QueuesAlone ==
    ASSUME Inv, UNCHANGED tasks, EnvShape', InHand'
    PROVE  Inv'
BY DEF Inv, QueuesFit, RunningQueued, IsRunningQueued, Fit, tasks, fixed

LEMMA NoEnvShape ==
    ASSUME env' = NoEnv, pc' \notin {"detach", "migrated"}
    PROVE  EnvShape' /\ InHand'
BY DEF NoEnv, EnvShape, InHand

\* The balancer goes on to the next domain.
LEMMA NextDomainKeeps ==
    ASSUME NextDomain
    PROVE  pc' \in {"tick", "domain"}
BY DEF NextDomain

LEMMA WalkKeeps ==
    ASSUME Inv, \/ \E c \in Online : Tick(c)
                \/ NotDue \/ UpdateStats
    PROVE  Inv'
<1>1. UNCHANGED <<tasks, env>> /\ {pc, pc'} \cap {"detach", "migrated"} = {}
  BY NextDomainKeeps DEF Tick, NotDue, UpdateStats
<1>2. EnvShape' /\ InHand'
  BY <1>1 DEF Inv, EnvShape, InHand
<1> QED BY <1>1, <1>2, QueuesAlone

LEMMA DueKeeps ==
    ASSUME Inv, NEW d \in Domains, Due(d[2], d[1])
    PROVE  Inv'
<1>1. env' = [dst |-> d[2], src |-> NoCpu, cpus |-> Span(Machine, d[1], d[2]), new_dst |-> NoCpu,
              imbalance |-> 0, flags |-> {}, loop |-> 0, loop_max |-> 0, tasks |-> << >>]
  BY DEF Due, NoEnv
<1>2. Span(Machine, d[1], d[2]) \subseteq Online /\ pc' = "choose" /\ UNCHANGED tasks
  BY DEF Span, Online, Due
<1>3. EnvShape' /\ InHand'
  BY <1>1, <1>2 DEF EnvShape, InHand
<1> QED BY <1>2, <1>3, QueuesAlone

LEMMA ReturnKeeps ==
    ASSUME Inv, UNCHANGED tasks, Return(ld_moved)
    PROVE  Inv'
<1>1. env' = NoEnv /\ pc' \in {"tick", "domain"}
  BY NextDomainKeeps DEF Return
<1> QED BY <1>1, NoEnvShape, QueuesAlone

LEMMA ChooseKeeps ==
    ASSUME Inv, Choose
    PROVE  Inv'
<1>1. PICK found \in {find_busiest_group} :
        \E group \in found \cup {[span |-> {}, imbalance |-> 0]} :
          LET busiest == find_busiest_queue(group.span, group.imbalance)
          IN  IF busiest = NoCpu THEN OutBalanced
              ELSE /\ pc' = EnterMigrate(busiest)
                   /\ env' = [env EXCEPT !.src = busiest, !.imbalance = group.imbalance,
                                !.flags = IF nr_running(busiest) > 1
                                          THEN @ \cup {"ALL_PINNED"} ELSE @,
                                !.loop_max = IF nr_running(busiest) > 1
                                             THEN Min({sysctl_sched_nr_migrate,
                                                       nr_running(busiest)}) ELSE @]
                   /\ UNCHANGED tasks
  BY DEF Choose
<1>2. PICK group \in found \cup {[span |-> {}, imbalance |-> 0]} :
        \/ OutBalanced
        \/ LET busiest == find_busiest_queue(group.span, group.imbalance)
           IN  /\ busiest # NoCpu
               /\ pc' = EnterMigrate(busiest)
               /\ env' = [env EXCEPT !.src = busiest, !.imbalance = group.imbalance,
                            !.flags = IF nr_running(busiest) > 1
                                      THEN @ \cup {"ALL_PINNED"} ELSE @,
                            !.loop_max = IF nr_running(busiest) > 1
                                         THEN Min({sysctl_sched_nr_migrate,
                                                   nr_running(busiest)}) ELSE @]
               /\ UNCHANGED tasks
  BY <1>1
<1>3. CASE OutBalanced
  BY <1>3, ReturnKeeps DEF OutBalanced
<1>4. CASE ~OutBalanced
  <2> DEFINE busiest == find_busiest_queue(group.span, group.imbalance)
  <2>1. /\ busiest # NoCpu /\ pc' \in {"detach", "active"} /\ UNCHANGED tasks
        /\ env' = [env EXCEPT !.src = busiest, !.imbalance = env'.imbalance,
                     !.flags = env'.flags, !.loop_max = env'.loop_max]
    BY <1>2, <1>4 DEF EnterMigrate, Inv, EnvShape
  <2>2. busiest \in Online
    <3> DEFINE eligible == {c \in group.span \cap env.cpus :
                              /\ runnable_load_avg(c) > 0
                              /\ ~(nr_running(c) = 1 /\ runnable_load_avg(c) > group.imbalance)}
               best == {c \in eligible : \A x \in eligible :
                              runnable_load_avg(x) <= runnable_load_avg(c)}
    <3>1. busiest = find_first_bit(best)
      BY DEF find_busiest_queue
    <3>2. best \subseteq Online /\ best \in SUBSET Nat
      BY OnlineCpus DEF Inv, EnvShape
    <3> QED BY <2>1, <3>1, <3>2, FirstBit
  <2>3. env.tasks = << >>
    BY DEF Inv, InHand, Choose
  <2>4. env'.cpus = env.cpus /\ env'.tasks = << >> /\ env'.src = busiest
    BY <2>1, <2>3 DEF Inv, EnvShape
  <2>5. EnvShape'
    BY <2>1, <2>2, <2>4 DEF Inv, EnvShape
  <2>6. InHand'
    BY <2>4, NothingListed DEF InHand
  <2> QED BY <2>1, <2>5, <2>6, QueuesAlone
<1> QED BY <1>3, <1>4

\* Something that may run on c is put at the front of its queue, and may be
\* what runs next.
LEMMA FrontKeeps ==
    ASSUME Inv, NEW c \in Online, NEW t \in Fit(c),
           NEW q \in Seq(Fit(c)),
           queue' = [queue EXCEPT ![c] = Cons(t, q)],
           curr' \in {curr, [curr EXCEPT ![c] = t]},
           curr' = curr => (IsRunningQueued(c) /\ curr[c] # NULL =>
               \E i \in 1 .. Len(Cons(t, q)) : Cons(t, q)[i] = curr[c]),
           UNCHANGED fixed
    PROVE  QueuesFit' /\ RunningQueued'
<1> DEFINE r == Cons(t, q)
<1>1. Fit(c) \subseteq Tasks /\ \A x \in Online : Fit(x)' = Fit(x)
  BY DEF Fit, fixed
<1>2. r \in Seq(Fit(c)) /\ Len(r) = Len(q) + 1 /\ r[1] = t
  <2>1. <<t>> \in Seq(Fit(c))
    OBVIOUS
  <2> QED BY <2>1, ConcatElements DEF Cons
<1>3. r \in Seq(Tasks)
  BY <1>1, <1>2
<1> HIDE DEF r
<1>4. queue' = [queue EXCEPT ![c] = r]
  BY DEF r
<1>5. QueuesFit'
  <2>1. queue' \in [Online -> Seq(Tasks)] /\ curr' \in [Online -> Tasks \cup {NULL}]
    BY <1>1, <1>3, <1>4 DEF Inv, QueuesFit
  <2>2. ASSUME NEW x \in Online PROVE queue'[x] \in Seq(Fit(x))
    BY <1>2, <1>4 DEF Inv, QueuesFit
  <2> QED BY <1>1, <2>1, <2>2 DEF QueuesFit
<1>6. RunningQueued'
  <2> SUFFICES ASSUME NEW x \in Online PROVE IsRunningQueued(x)'
    BY DEF RunningQueued
  <2>1. CASE x # c
    <3>1. queue'[x] = queue[x] /\ curr'[x] = curr[x]
      BY <1>4, <2>1 DEF Inv, QueuesFit
    <3> QED BY <3>1 DEF Inv, RunningQueued, IsRunningQueued
  <2>2. CASE x = c /\ curr' = curr
    <3>1. queue'[c] = r /\ IsRunningQueued(c)
      BY <1>4 DEF Inv, QueuesFit, RunningQueued
    <3>2. curr[c] # NULL => \E i \in 1 .. Len(r) : r[i] = curr[c]
      BY <2>2, <3>1 DEF r
    <3> QED BY <2>2, <3>1, <3>2 DEF IsRunningQueued
  <2>3. CASE x = c /\ curr' # curr
    <3>1. queue'[c] = r /\ curr'[c] = t
      BY <1>4, <2>3 DEF Inv, QueuesFit
    <3>2. Len(q) \in Nat /\ 1 \in 1 .. Len(r)
      BY <1>2
    <3> QED BY <1>2, <2>3, <3>1, <3>2 DEF IsRunningQueued
  <2> QED BY <2>1, <2>2, <2>3
<1> QED BY <1>5, <1>6

LEMMA EnvAlone ==
    ASSUME Inv, UNCHANGED <<fixed, env, pc>>
    PROVE  EnvShape' /\ InHand'
BY DEF Inv, EnvShape, InHand, Fit, fixed

LEMMA WakeKeeps ==
    ASSUME Inv, NEW t \in Tasks, NEW c \in Online, Wake(t, c)
    PROVE  Inv'
<1>1. /\ queue' = [queue EXCEPT ![c] = Cons(t, queue[c])] /\ curr' = curr
      /\ UNCHANGED <<fixed, env, pc>> /\ t \in Fit(c)
  BY DEF Wake, Fit, walk
<1>2. queue[c] \in Seq(Fit(c))
  BY DEF Inv, QueuesFit
<1>3. ASSUME IsRunningQueued(c), curr[c] # NULL
      PROVE  \E i \in 1 .. Len(Cons(t, queue[c])) : Cons(t, queue[c])[i] = curr[c]
  <2>1. PICK i \in 1 .. Len(queue[c]) : queue[c][i] = curr[c]
    BY <1>3 DEF IsRunningQueued
  <2>2. <<t>> \in Seq(Fit(c)) /\ Len(<<t>>) = 1
    BY <1>1
  <2>3. /\ Len(Cons(t, queue[c])) = 1 + Len(queue[c])
        /\ Cons(t, queue[c])[1 + i] = curr[c]
    BY <1>2, <2>1, <2>2, ConcatElements DEF Cons
  <2>4. 1 + i \in 1 .. Len(Cons(t, queue[c]))
    BY <1>2, <2>1, <2>3
  <2> QED BY <2>3, <2>4
<1> QED BY <1>1, <1>2, <1>3, FrontKeeps, EnvAlone DEF Inv

LEMMA ScheduleKeeps ==
    ASSUME Inv, NEW c \in Online, Schedule(c)
    PROVE  Inv'
<1>1. PICK t \in ToSet(queue[c]) \ {curr[c]} :
        /\ curr' = [curr EXCEPT ![c] = t]
        /\ queue' = [queue EXCEPT ![c] = Cons(t, RemoveFirst(queue[c], t))]
  BY DEF Schedule
<1>2. queue[c] \in Seq(Fit(c)) /\ UNCHANGED <<fixed, env, pc>>
  BY DEF Inv, QueuesFit, Schedule, walk
<1>3. t \in Fit(c)
  BY <1>1, <1>2 DEF ToSet
<1>4. RemoveFirst(queue[c], t) \in Seq(Fit(c))
  BY <1>2, RemoveFirstType
<1>5. curr' # curr
  BY <1>1 DEF Inv, QueuesFit
<1> QED BY <1>1, <1>2, <1>3, <1>4, <1>5, FrontKeeps, EnvAlone DEF Inv

\* What detach_tasks knows of the task it looks at.
LEMMA CandidateIsQueued ==
    ASSUME Inv, DetachGoesOn
    PROVE  /\ env.src \in Online /\ pc = "detach"
           /\ queue[env.src] \in Seq(Fit(env.src)) /\ Len(queue[env.src]) > 0
           /\ Candidate = Last(queue[env.src]) /\ Candidate \in Fit(env.src)
<1>1. env.src \in Online /\ pc = "detach" /\ Len(queue[env.src]) > 0
  BY DEF Inv, QueuesFit, EnvShape, DetachGoesOn, nr_running
<1>2. queue[env.src] \in Seq(Fit(env.src))
  BY <1>1 DEF Inv, QueuesFit
<1> QED BY <1>1, <1>2, FrontLast DEF Candidate

LEMMA DetachKeepKeeps ==
    ASSUME Inv, DetachKeep
    PROVE  Inv'
<1> DEFINE c == env.src
           t == Candidate
           q == Front(queue[c])
           seen == IF Pinned(t) THEN Elsewhere(t)
                   ELSE [env EXCEPT !.flags = @ \ {"ALL_PINNED"}]
<1>1. /\ c \in Online /\ pc = "detach" /\ queue[c] \in Seq(Fit(c)) /\ Len(queue[c]) > 0
      /\ t = Last(queue[c]) /\ t \in Fit(c) /\ q \in Seq(Fit(c))
  BY CandidateIsQueued, FrontLast DEF DetachKeep
<1>2. /\ queue' = [queue EXCEPT ![c] = Cons(t, q)] /\ UNCHANGED <<fixed, curr, pc>>
      /\ env' = [seen EXCEPT !.loop = @ + 1]
  BY DEF DetachKeep
<1>3. ASSUME IsRunningQueued(c), curr[c] # NULL
      PROVE  \E i \in 1 .. Len(Cons(t, q)) : Cons(t, q)[i] = curr[c]
  <2>1. \E i \in 1 .. Len(queue[c]) : queue[c][i] = curr[c]
    BY <1>3 DEF IsRunningQueued
  <2>2. \E i \in 1 .. Len(Cons(Last(queue[c]), Front(queue[c]))) :
           Cons(Last(queue[c]), Front(queue[c]))[i] = curr[c]
    <3> DEFINE s == queue[c]
               x == curr[c]
               S == Fit(c)
    <3>1. s \in Seq(S) /\ Len(s) > 0 /\ \E i \in 1 .. Len(s) : s[i] = x
      BY <1>1, <2>1
    <3> HIDE DEF s, x, S
    <3>2. \E i \in 1 .. Len(Cons(Last(s), Front(s))) : Cons(Last(s), Front(s))[i] = x
      BY ONLY <3>1, LastToFront, Zenon
    <3> QED BY <3>2 DEF s, x
  <2> QED BY <1>1, <2>2
<1>4. QueuesFit' /\ RunningQueued'
  BY <1>1, <1>2, <1>3, FrontKeeps
<1>5. env' = [env EXCEPT !.new_dst = env'.new_dst, !.flags = env'.flags, !.loop = env'.loop]
  BY <1>2 DEF Elsewhere, Inv, EnvShape
<1>6. EnvShape'
  BY <1>1, <1>2, <1>5, ZenonT(30) DEF Inv, EnvShape
<1>7. InHand'
  <2>1. env'.tasks = env.tasks /\ env'.dst = env.dst
    BY <1>5 DEF Inv, EnvShape
  <2> QED BY <1>2, <2>1 DEF Inv, InHand, Fit, fixed
<1> QED BY <1>4, <1>6, <1>7 DEF Inv

LEMMA DetachMoveKeeps ==
    ASSUME Inv, DetachMove
    PROVE  Inv'
<1> DEFINE c == env.src
           t == Candidate
           q == Front(queue[c])
<1>1. /\ c \in Online /\ pc = "detach" /\ queue[c] \in Seq(Fit(c)) /\ Len(queue[c]) > 0
      /\ t = Last(queue[c]) /\ t \in Fit(c) /\ q \in Seq(Fit(c))
      /\ Len(q) = Len(queue[c]) - 1 /\ \A i \in 1 .. Len(queue[c]) - 1 : q[i] = queue[c][i]
  BY CandidateIsQueued, FrontLast DEF DetachMove
<1>2. /\ queue' = [queue EXCEPT ![c] = q] /\ UNCHANGED <<fixed, curr, pc>>
      /\ t \in Fit(env.dst) /\ t # curr[c]
      /\ env' = [env EXCEPT !.loop = @ + 1, !.flags = @ \ {"ALL_PINNED"},
                            !.tasks = Cons(t, @), !.imbalance = @ - Load[t]]
  BY <1>1 DEF DetachMove, Pinned, Running, Fit
<1> HIDE DEF q
<1>3. QueuesFit'
  <2>1. Fit(c) \subseteq Tasks /\ \A x \in Online : Fit(x)' = Fit(x)
    BY <1>2 DEF Fit, fixed
  <2>2. q \in Seq(Tasks)
    BY <1>1, <2>1
  <2> QED BY <1>1, <1>2, <2>1, <2>2 DEF Inv, QueuesFit
<1>4. RunningQueued'
  <2> SUFFICES ASSUME NEW x \in Online, curr[x] # NULL
               PROVE  \E i \in 1 .. Len(queue'[x]) : queue'[x][i] = curr[x]
    BY <1>2 DEF RunningQueued, IsRunningQueued
  <2>1. PICK i \in 1 .. Len(queue[x]) : queue[x][i] = curr[x]
    BY DEF Inv, RunningQueued, IsRunningQueued
  <2>2. CASE x # c
    BY <1>2, <2>1, <2>2 DEF Inv, QueuesFit
  <2>3. CASE x = c
    <3>1. queue'[x] = q
      BY <1>2, <2>3 DEF Inv, QueuesFit
    <3>2. i # Len(queue[c])
      BY <1>1, <1>2, <2>1, <2>3 DEF Last
    <3>3. i \in 1 .. Len(queue[c]) - 1 /\ i \in 1 .. Len(q)
      BY <1>1, <2>1, <2>3, <3>2
    <3> QED BY <1>1, <2>1, <2>3, <3>1, <3>3
  <2> QED BY <2>2, <2>3
<1>5. /\ env' = [env EXCEPT !.loop = env'.loop, !.flags = env'.flags,
                          !.tasks = Cons(t, @), !.imbalance = env'.imbalance]
      /\ env'.tasks = Cons(t, env.tasks) /\ env'.dst = env.dst
  BY <1>2 DEF Inv, EnvShape
<1>6. EnvShape'
  BY <1>1, <1>2, <1>5, ZenonT(30) DEF Inv, EnvShape
<1>7. InHand'
  <2>1. env.tasks \in Seq(Fit(env.dst)) /\ Fit(env.dst)' = Fit(env.dst)
    BY <1>1, <1>2, <1>5 DEF Inv, InHand, Fit, fixed
  <2> QED BY <1>1, <1>2, <1>5, <2>1, ConsType DEF InHand
<1> QED BY <1>3, <1>4, <1>6, <1>7 DEF Inv

\* What was in the hand is put at the front of the queue of env.dst.
LEMMA AttachKeeps ==
    ASSUME Inv, Attach
    PROVE  Inv'
<1> DEFINE c == env.dst
           p == Reverse(env.tasks)
           r == p \o queue[c]
<1>1. /\ queue' = [queue EXCEPT ![c] = r] /\ UNCHANGED <<fixed, curr>>
      /\ env' = [env EXCEPT !.tasks = << >>] /\ pc = "detach" /\ pc' = "migrated"
  BY DEF Attach
<1>2. p \in Seq(Fit(c))
  BY <1>1, ReverseType DEF Inv, InHand
<1>3. EnvShape' /\ InHand'
  BY <1>1 DEF Inv, EnvShape, InHand
<1>4. CASE c \in Online
  <2>1. /\ r \in Seq(Fit(c)) /\ Len(r) = Len(p) + Len(queue[c])
        /\ \A i \in 1 .. Len(queue[c]) : r[Len(p) + i] = queue[c][i]
    BY <1>2, <1>4, ConcatElements DEF Inv, QueuesFit
  <2>2. Fit(c) \subseteq Tasks /\ (\A x \in Online : Fit(x)' = Fit(x)) /\ r \in Seq(Tasks)
    BY <1>1, <2>1 DEF Fit, fixed
  <2> HIDE DEF r
  <2>3. QueuesFit'
    BY <1>1, <1>4, <2>1, <2>2 DEF Inv, QueuesFit
  <2>4. RunningQueued'
    <3> SUFFICES ASSUME NEW x \in Online, curr[x] # NULL
                 PROVE  \E i \in 1 .. Len(queue'[x]) : queue'[x][i] = curr[x]
      BY <1>1 DEF RunningQueued, IsRunningQueued
    <3>1. PICK i \in 1 .. Len(queue[x]) : queue[x][i] = curr[x]
      BY DEF Inv, RunningQueued, IsRunningQueued
    <3>2. CASE x # c
      BY <1>1, <3>1, <3>2 DEF Inv, QueuesFit
    <3>3. CASE x = c
      <4>1. queue'[x] = r /\ Len(p) \in Nat /\ Len(queue[c]) \in Nat
        BY <1>1, <1>2, <1>4, <3>3 DEF Inv, QueuesFit
      <4>2. Len(p) + i \in 1 .. Len(r) /\ r[Len(p) + i] = curr[x]
        BY <2>1, <3>1, <3>3, <4>1
      <4> QED BY <4>1, <4>2
    <3> QED BY <3>2, <3>3
  <2> QED BY <1>3, <2>3, <2>4 DEF Inv
<1>5. CASE c \notin Online
  <2>1. queue' = queue
    BY <1>1, <1>5 DEF Inv, QueuesFit
  <2> QED BY <1>1, <1>3, <2>1, QueuesAlone DEF tasks, fixed
<1> QED BY <1>4, <1>5

LEMMA RetryKeeps ==
    ASSUME Inv, MoreBalance \/ Redo
    PROVE  Inv'
<1>1. UNCHANGED tasks /\ pc = "migrated" /\ env.tasks = << >>
  BY DEF Inv, InHand, MoreBalance, Redo, NoRetry
<1>2. /\ env' = [env EXCEPT !.cpus = env'.cpus, !.dst = env'.dst, !.flags = env'.flags,
                          !.loop = env'.loop]
      /\ env'.cpus \subseteq Online /\ pc' \in {"detach", "active", "choose"}
  BY DEF Inv, EnvShape, MoreBalance, Redo, EnterMigrate
<1>3. env'.tasks = << >> /\ env'.src = env.src
  BY <1>1, <1>2 DEF Inv, EnvShape
<1>4. EnvShape'
  BY <1>1, <1>2, <1>3 DEF Inv, EnvShape
<1>5. InHand'
  BY <1>3, NothingListed DEF InHand
<1> QED BY <1>1, <1>4, <1>5, QueuesAlone

LEMMA InvInitially ==
    ASSUME Init
    PROVE  Inv
<1>1. QueuesFit
  BY NothingListed DEF Init, QueuesFit
<1>2. EnvShape /\ InHand /\ RunningQueued
  BY DEF Init, NoEnv, EnvShape, InHand, RunningQueued, IsRunningQueued
<1> QED BY <1>1, <1>2 DEF Inv

LEMMA StepKeeps ==
    ASSUME Inv, [Next]_vars
    PROVE  Inv'
<1>1. CASE \E t \in Tasks, c \in Online : Wake(t, c)
  BY <1>1, WakeKeeps
<1>2. CASE \E c \in Online : Schedule(c)
  BY <1>2, ScheduleKeeps
<1>3. CASE (\E c \in Online : Tick(c)) \/ NotDue \/ UpdateStats
  BY <1>3, WalkKeeps
<1>4. CASE \E d \in Domains : Due(d[2], d[1])
  BY <1>4, DueKeeps
<1>5. CASE Refuse
  BY <1>5, ReturnKeeps DEF Refuse, OutBalanced
<1>6. CASE Choose
  BY <1>6, ChooseKeeps
<1>7. CASE DetachKeep \/ DetachMove \/ Attach
  BY <1>7, DetachKeepKeeps, DetachMoveKeeps, AttachKeeps
<1>8. CASE MoreBalance \/ Redo
  BY <1>8, RetryKeeps
<1>9. CASE EndBalance
  BY <1>9, ReturnKeeps DEF EndBalance
<1>10. CASE UNCHANGED vars
  <2>1. UNCHANGED tasks /\ EnvShape' /\ InHand'
    BY <1>10, EnvAlone DEF vars, tasks, fixed
  <2> QED BY <2>1, QueuesAlone
<1> QED BY <1>1, <1>2, <1>3, <1>4, <1>5, <1>6, <1>7, <1>8, <1>9, <1>10 DEF Next

\* The balancer never puts a task where it may not run (detach_tasks asks
\* can_migrate_task for the destination of the moment, and the destination does
\* not change while it holds tasks).
THEOREM PlacementAllowed == Spec => []AllowedPlacement
<1>1. Inv => AllowedPlacement
  <2> SUFFICES ASSUME Inv, NEW c \in Online, NEW i \in DOMAIN queue[c]
               PROVE  c \in allowed[queue[c][i]]
    BY DEF AllowedPlacement, ToSet
  <2>1. queue[c] \in Seq(Fit(c))
    BY DEF Inv, QueuesFit
  <2>2. queue[c][i] \in Fit(c)
    BY <2>1
  <2> QED BY <2>2 DEF Fit
<1> QED BY <1>1, InvInitially, StepKeeps, PTL DEF Spec

\* The running task stays in the queue of its CPU, through wake-ups, switches,
\* and tasks pulled from both sides.
THEOREM RunningNeverPulled == Spec => []RunningStays
<1>1. Inv => RunningStays
  BY DEF Inv, QueuesFit, RunningQueued, IsRunningQueued, RunningStays, ToSet
<1> QED BY <1>1, InvInitially, StepKeeps, PTL DEF Spec

-----------------------------------------------------------------------------
(* The walk: the sides that the balancer works on, and who is eligible.    *)

Balancing == pc \in {"choose", "busiest", "detach", "migrated", "active"}

\* The CPU that walks has the domain it is at.
AtDomain ==
    /\ pc \in {"tick", "domain"} \/ Balancing
    /\ pc # "tick" => <<sd, this_cpu>> \in Domains

\* The statistics are those of the ring.
RingWeighed ==
    pc = "busiest" =>
        LET r == RingOf[<<sd, this_cpu>>]
        IN  /\ sds = [i \in DOMAIN r |-> sds[i]]
            /\ \A i \in DOMAIN r : "span" \in DOMAIN sds[i] /\ sds[i].span = r[i]

\* What is pulled goes to a CPU of the local group from one of another group.
\* The CPU that walks is the destination until another one takes its place,
\* and then it is not considered any more.
EnvSides ==
    Balancing =>
        /\ env.dst \in local_group
        /\ pc \in {"detach", "migrated", "active"} => env.src \in Online \ local_group
        /\ "DST_PINNED" \in env.flags =>
              env.new_dst \in local_group \cap env.cpus /\ env.new_dst # env.dst
        /\ IF env.dst = this_cpu THEN local_group \subseteq env.cpus
           ELSE this_cpu \notin env.cpus

\* Some CPU of g is to balance rather than the one that walks.
Blocked(g) ==
    IF idle_cpu(this_cpu) THEN \E c \in g : c < this_cpu /\ idle_cpu(c)
    ELSE \E c \in g : c < this_cpu \/ idle_cpu(c)

\* A CPU that was refused is blocked at the level it has reached.
Ineligible ==
    refused => /\ pc \in {"domain", "choose"} /\ Blocked(local_group)
               /\ pc = "choose" => env.dst = this_cpu

Walks == AtDomain /\ RingWeighed /\ EnvSides /\ Ineligible

\* A domain of the walk, its local group and the one above it.
LEMMA DomainOf ==
    ASSUME <<sd, this_cpu>> \in Domains
    PROVE  /\ sd \in Level /\ this_cpu \in Online /\ HasDomain(Machine, sd, this_cpu)
           /\ Online \subseteq CPU
           /\ this_cpu \in local_group /\ local_group \subseteq Span(Machine, sd, this_cpu)
           /\ Span(Machine, sd, this_cpu) \subseteq Online
<1>1. sd \in Level /\ this_cpu \in Online /\ HasDomain(Machine, sd, this_cpu)
  BY DEF Domains
<1>2. /\ Online \subseteq CPU /\ this_cpu \in Span(Machine, sd, this_cpu)
      /\ Span(Machine, sd, this_cpu) \subseteq Online
  BY <1>1, MachineAssumption, SpanOf DEF Online
<1>3. this_cpu \in local_group /\ local_group \subseteq Span(Machine, sd, this_cpu)
  BY <1>1, <1>2, MachineAssumption, GroupOf DEF Online, local_group
<1> QED BY <1>1, <1>2, <1>3

\* The walk goes up to the first domain that spans everything.
LEMMA NextDomainExists ==
    ASSUME <<sd, this_cpu>> \in Domains, NextDomain
    PROVE  /\ pc' \in {"tick", "domain"}
           /\ pc' = "domain" =>
                 /\ sd' = sd + 1 /\ <<sd', this_cpu>> \in Domains
                 /\ local_group \subseteq GroupSpan(Machine, sd', this_cpu)
<1> DEFINE top == TopLevel(Machine, this_cpu)
<1>1. \E l \in Level : /\ HasDomain(Machine, l, this_cpu)
                       /\ l < NrLevel => ~HasDomain(Machine, l + 1, this_cpu)
  <2>1. HasDomain(Machine, 1, this_cpu) BY DEF HasDomain
  <2>2. CASE ~HasDomain(Machine, 1 + 1, this_cpu) BY <2>1, <2>2 DEF Level, NrLevel
  <2>3. CASE HasDomain(Machine, 1 + 1, this_cpu) /\ ~HasDomain(Machine, 2 + 1, this_cpu)
    <3>1. HasDomain(Machine, 2, this_cpu) BY <2>3
    <3> QED BY <2>3, <3>1 DEF Level, NrLevel
  <2>4. CASE HasDomain(Machine, 2 + 1, this_cpu)
    <3>1. HasDomain(Machine, 3, this_cpu) BY <2>4
    <3> QED BY <3>1 DEF Level, NrLevel
  <2> QED BY <2>2, <2>3, <2>4
<1>2. top \in Level /\ HasDomain(Machine, top, this_cpu) BY <1>1 DEF TopLevel
<1> HIDE DEF top
<1>3. sd \in Level /\ this_cpu \in Online BY DomainOf
<1>4. /\ pc' \in {"tick", "domain"}
      /\ pc' = "domain" => sd < top /\ sd' = sd + 1
  BY DEF NextDomain, top
<1>5. ASSUME sd < top, sd' = sd + 1 PROVE <<sd', this_cpu>> \in Domains
  <2>1. sd + 1 \in Level /\ \A k \in 1 .. (sd + 1) - 1 : k \in 1 .. top - 1
    BY <1>2, <1>3, <1>5 DEF Level, NrLevel
  <2>2. \A k \in 1 .. top - 1 : Span(Machine, k, this_cpu) # Machine.online
    BY <1>2 DEF HasDomain
  <2>3. \A k \in 1 .. (sd + 1) - 1 : Span(Machine, k, this_cpu) # Machine.online
    BY <2>1, <2>2
  <2>4. HasDomain(Machine, sd + 1, this_cpu) BY <2>3, Zenon DEF HasDomain
  <2> QED BY <1>3, <1>5, <2>1, <2>4 DEF Domains
<1>6. ASSUME sd' = sd + 1 PROVE local_group \subseteq GroupSpan(Machine, sd', this_cpu)
  <2>1. sd + 1 # 1 /\ (sd + 1) - 1 = sd BY <1>3 DEF Level
  <2>2. GroupSpan(Machine, sd + 1, this_cpu) = Span(Machine, sd, this_cpu)
    <3>1. GroupSpan(Machine, sd + 1, this_cpu)
            = IF sd + 1 = 1 THEN {this_cpu} ELSE Span(Machine, (sd + 1) - 1, this_cpu)
      BY Zenon DEF GroupSpan
    <3> QED BY <2>1, <3>1
  <2> QED BY <1>6, <2>2, DomainOf
<1> QED BY <1>4, <1>5, <1>6

\* Who is to balance.
LEMMA Eligible ==
    ASSUME <<sd, this_cpu>> \in Domains, local_group \subseteq env.cpus, env.dst = this_cpu
    PROVE  should_we_balance <=> ~Blocked(local_group)
<1> DEFINE idle == {c \in local_group \cap env.cpus : idle_cpu(c)}
<1>1. /\ this_cpu \in local_group /\ local_group \subseteq CPU /\ local_group \in SUBSET Nat
      /\ this_cpu \in env.cpus
  BY DomainOf, NrCpuAssumption DEF CPU
<1>2. idle = {c \in local_group : idle_cpu(c)} OBVIOUS
<1> HIDE DEF idle
<1>3. should_we_balance <=>
        this_cpu = IF idle = {} THEN find_first_bit(local_group) ELSE find_first_bit(idle)
  BY <1>1 DEF should_we_balance, idle
<1>4. CASE idle = {}
  <2>1. /\ find_first_bit(local_group) = Min(local_group) /\ Min(local_group) \in local_group
        /\ \A c \in local_group : Min(local_group) <= c
    BY <1>1, MinNat DEF find_first_bit
  <2>2. ~idle_cpu(this_cpu) /\ \A c \in local_group : ~idle_cpu(c) BY <1>1, <1>2, <1>4
  <2>3. Blocked(local_group) <=> \E c \in local_group : c < this_cpu
    BY <2>2 DEF Blocked
  <2>4. this_cpu = Min(local_group) <=> ~\E c \in local_group : c < this_cpu
    <3> DEFINE least == Min(local_group)
    <3>1. /\ least \in Nat /\ this_cpu \in Nat /\ least <= this_cpu /\ least \in local_group
          /\ \A c \in local_group : c \in Nat /\ least <= c
      BY <1>1, <2>1
    <3> HIDE DEF least
    <3> QED BY <3>1 DEF least
  <2> QED BY <1>3, <1>4, <2>1, <2>3, <2>4
<1>5. CASE idle # {}
  <2>1. idle \in SUBSET Nat BY <1>1, <1>2
  <2>2. /\ find_first_bit(idle) = Min(idle) /\ Min(idle) \in idle
        /\ \A c \in idle : Min(idle) <= c
    BY <1>5, <2>1, MinNat DEF find_first_bit
  <2>3. CASE idle_cpu(this_cpu)
    <3>1. this_cpu \in idle BY <1>1, <1>2, <2>3
    <3>2. Blocked(local_group) <=> \E c \in idle : c < this_cpu BY <1>2, <2>3 DEF Blocked
    <3>3. this_cpu = Min(idle) <=> ~\E c \in idle : c < this_cpu
      <4> DEFINE least == Min(idle)
      <4>1. /\ least \in Nat /\ this_cpu \in Nat /\ least <= this_cpu /\ least \in idle
            /\ \A c \in idle : c \in Nat /\ least <= c
        BY <2>1, <2>2, <3>1
      <4> HIDE DEF least
      <4> QED BY <4>1 DEF least
    <3> QED BY <1>3, <1>5, <2>2, <3>2, <3>3
  <2>4. CASE ~idle_cpu(this_cpu)
    <3>1. this_cpu \notin idle BY <1>2, <2>4
    <3>2. Blocked(local_group) BY <1>2, <1>5, <2>4 DEF Blocked
    <3> QED BY <1>3, <1>5, <2>2, <3>1, <3>2
  <2> QED BY <2>3, <2>4
<1> QED BY <1>4, <1>5

-----------------------------------------------------------------------------
(* Each step keeps what is known of the walk.                              *)

\* Nobody balances: the walk has ended or goes on to a domain.
LEMMA BetweenDomains ==
    ASSUME Walks, UNCHANGED <<queue, curr>>, pc' \in {"tick", "domain"},
           pc' = "domain" => /\ <<sd', this_cpu'>> \in Domains
                             /\ refused' => /\ this_cpu' = this_cpu
                                            /\ Blocked(GroupSpan(Machine, sd', this_cpu)),
           pc' = "tick" => ~refused'
    PROVE  Walks'
<1>1. AtDomain' /\ RingWeighed' /\ EnvSides'
  BY DEF AtDomain, RingWeighed, EnvSides, Balancing
<1>2. ASSUME refused', pc' = "domain" PROVE Blocked(local_group)'
  <2>1. /\ this_cpu' = this_cpu /\ \E c \in GroupSpan(Machine, sd', this_cpu) : TRUE
        /\ Blocked(GroupSpan(Machine, sd', this_cpu))
    BY <1>2 DEF Blocked
  <2>2. \A c : idle_cpu(c)' = idle_cpu(c) BY DEF idle_cpu, nr_running
  <2> QED BY <2>1, <2>2 DEF Blocked, local_group
<1>3. Ineligible' BY <1>2 DEF Ineligible
<1> QED BY <1>1, <1>3 DEF Walks

\* What is blocked in a group is blocked in a larger one.
LEMMA BlockedAbove ==
    ASSUME NEW g, NEW h, g \subseteq h, Blocked(g) PROVE Blocked(h)
BY DEF Blocked

LEMMA ReturnWalks ==
    ASSUME Walks, UNCHANGED <<queue, curr>>, pc # "tick", Return(ld_moved),
           refused' => pc' # "tick" /\ Blocked(local_group)
    PROVE  Walks'
<1>1. <<sd, this_cpu>> \in Domains /\ NextDomain /\ (pc' # "tick" => this_cpu' = this_cpu)
  BY DEF Walks, AtDomain, Return
<1>2. /\ pc' \in {"tick", "domain"}
      /\ pc' = "domain" => /\ <<sd', this_cpu>> \in Domains
                           /\ local_group \subseteq GroupSpan(Machine, sd', this_cpu)
  BY <1>1, NextDomainExists
<1>3. ASSUME refused' PROVE Blocked(GroupSpan(Machine, sd', this_cpu))
  BY <1>2, <1>3, BlockedAbove
<1> QED BY <1>1, <1>2, <1>3, BetweenDomains

LEMMA TickWalks ==
    ASSUME Walks, NEW c \in Online, Tick(c) PROVE Walks'
<1>1. <<1, c>> \in Domains BY DEF Domains, HasDomain, Level, NrLevel
<1>2. /\ UNCHANGED <<queue, curr>> /\ pc' = "domain" /\ this_cpu' = c /\ sd' = 1 /\ ~refused'
  BY DEF Tick, tasks
<1> QED BY <1>1, <1>2, BetweenDomains

LEMMA NotDueWalks ==
    ASSUME Walks, NotDue PROVE Walks'
<1>1. <<sd, this_cpu>> \in Domains /\ NextDomain BY DEF Walks, AtDomain, NotDue
<1>2. /\ UNCHANGED <<queue, curr>>
      /\ pc' = "tick" => ~refused'
      /\ pc' # "tick" => this_cpu' = this_cpu /\ refused' = refused
  BY DEF NotDue, tasks
<1>3. /\ pc' \in {"tick", "domain"}
      /\ pc' = "domain" => /\ <<sd', this_cpu>> \in Domains
                           /\ local_group \subseteq GroupSpan(Machine, sd', this_cpu)
  BY <1>1, NextDomainExists
<1>4. ASSUME refused', pc' = "domain" PROVE Blocked(GroupSpan(Machine, sd', this_cpu))
  <2>1. Blocked(local_group) BY <1>2, <1>4 DEF Walks, Ineligible
  <2> QED BY <1>3, <1>4, <2>1, BlockedAbove
<1> QED BY <1>2, <1>3, <1>4, BetweenDomains

LEMMA DueWalks ==
    ASSUME Walks, NEW c, NEW l, Due(c, l) PROVE Walks'
<1>1. /\ UNCHANGED <<queue, curr, this_cpu, sd, refused>> /\ pc = "domain" /\ pc' = "choose"
      /\ env' = [dst |-> this_cpu, src |-> NoCpu, cpus |-> Span(Machine, sd, this_cpu),
                 new_dst |-> NoCpu, imbalance |-> 0, flags |-> {}, loop |-> 0,
                 loop_max |-> 0, tasks |-> << >>]
  BY DEF Due, tasks, walk, NoEnv
<1>2. <<sd, this_cpu>> \in Domains BY <1>1 DEF Walks, AtDomain
<1>3. local_group' = local_group BY <1>1 DEF local_group
<1>4. AtDomain' /\ RingWeighed' BY <1>1, <1>2 DEF AtDomain, RingWeighed, Balancing
<1>5. EnvSides' BY <1>1, <1>2, <1>3, DomainOf DEF EnvSides
<1>6. Ineligible'
  <2>1. \A x : idle_cpu(x)' = idle_cpu(x) BY <1>1 DEF idle_cpu, nr_running
  <2> QED BY <1>1, <1>3, <2>1 DEF Walks, Ineligible, Blocked
<1> QED BY <1>4, <1>5, <1>6 DEF Walks

\* A CPU is refused because it is blocked, unless it is no longer the
\* destination.
LEMMA RefuseWalks ==
    ASSUME Walks, Refuse PROVE Walks'
<1>1. /\ pc = "choose" /\ ~should_we_balance /\ UNCHANGED <<queue, curr>> /\ Return(ld_moved)
      /\ refused' = (pc' # "tick" /\ (refused \/ env.dst = this_cpu))
  BY DEF Refuse, OutBalanced, tasks
<1>2. <<sd, this_cpu>> \in Domains BY <1>1 DEF Walks, AtDomain
<1>3. ASSUME env.dst = this_cpu PROVE Blocked(local_group)
  <2>1. local_group \subseteq env.cpus
    BY <1>1, <1>3 DEF Walks, EnvSides, Balancing
  <2> QED BY <1>1, <1>2, <1>3, <2>1, Eligible
<1>4. refused' => pc' # "tick" /\ Blocked(local_group)
  BY <1>1, <1>3 DEF Walks, Ineligible
<1> QED BY <1>1, <1>4, ReturnWalks

\* Whoever was refused does not get further than that at any other level.
LEMMA UpdateStatsWalks ==
    ASSUME Walks, UpdateStats PROVE Walks'
<1>1. /\ pc = "choose" /\ should_we_balance /\ pc' = "busiest"
      /\ UNCHANGED <<queue, curr, this_cpu, sd, refused, env>>
  BY DEF UpdateStats, tasks, walk
<1>2. <<sd, this_cpu>> \in Domains BY <1>1 DEF Walks, AtDomain
<1>3. ~refused
  <2> SUFFICES ASSUME refused PROVE FALSE
    OBVIOUS
  <2>1. Blocked(local_group) /\ env.dst = this_cpu BY <1>1 DEF Walks, Ineligible
  <2>2. local_group \subseteq env.cpus BY <1>1, <2>1 DEF Walks, EnvSides, Balancing
  <2> QED BY <1>1, <1>2, <2>1, <2>2, Eligible
<1>4. local_group' = local_group BY <1>1 DEF local_group
<1>5. AtDomain' /\ EnvSides' /\ Ineligible'
  BY <1>1, <1>2, <1>3, <1>4 DEF Walks, AtDomain, EnvSides, Ineligible, Balancing
<1>6. RingWeighed'
  <2> DEFINE r == RingOf[<<sd, this_cpu>>]
  <2>1. PICK util \in [Online -> Util] :
          sds' = [i \in DOMAIN r |-> GroupStats(r[i], util)]
    BY DEF UpdateStats
  <2>2. \A g : "span" \in DOMAIN GroupStats(g, util) /\ GroupStats(g, util).span = g
    BY DEF GroupStats
  <2> HIDE DEF r
  <2>3. /\ sds' = [i \in DOMAIN r |-> sds'[i]]
        /\ \A i \in DOMAIN r : "span" \in DOMAIN sds'[i] /\ sds'[i].span = r[i]
    BY <2>1, <2>2
  <2>4. RingOf[<<sd', this_cpu'>>] = r BY <1>1 DEF r
  <2> QED BY <2>3, <2>4 DEF RingWeighed
<1> QED BY <1>5, <1>6 DEF Walks

\* The busiest group is not the local one, and does not meet it.
LEMMA BusiestIsOther ==
    ASSUME Walks, pc = "busiest", NEW group \in find_busiest_group
    PROVE  group.span \cap local_group = {}
<1> DEFINE r == RingOf[<<sd, this_cpu>>]
           n == Cardinality(Groups(Machine, sd, this_cpu))
           local == sds[1]
           others == [i \in DOMAIN Tail(sds) |-> AgainstLocal(sds[i + 1], local)]
<1>1. <<sd, this_cpu>> \in Domains BY DEF Walks, AtDomain
<1>2. sd \in Level /\ this_cpu \in Machine.online /\ local_group = GroupSpan(Machine, sd, this_cpu)
  BY <1>1, DomainOf DEF Online, local_group
<1>3. /\ n \in Nat /\ DOMAIN r = 1 .. n
      /\ \A i \in 2 .. n : r[i] \cap local_group = {}
  <2>1. r = Ring(Machine, sd, this_cpu) BY <1>1 DEF RingOf
  <2> HIDE DEF r, n
  <2> QED BY <1>2, <2>1, MachineAssumption, RingPlaces DEF n
<1>4. /\ sds = [i \in 1 .. n |-> sds[i]]
      /\ \A i \in 1 .. n : "span" \in DOMAIN sds[i] /\ sds[i].span = r[i]
  <2>1. /\ sds = [i \in DOMAIN r |-> sds[i]]
        /\ \A i \in DOMAIN r : "span" \in DOMAIN sds[i] /\ sds[i].span = r[i]
    BY DEF Walks, RingWeighed
  <2> HIDE DEF r, n
  <2> QED BY <1>3, <2>1
<1> HIDE DEF r, n
<1>5. \A i \in DOMAIN Tail(sds) : i \in Nat /\ i + 1 \in 2 .. n
  <2> DEFINE S == {sds[i] : i \in 1 .. n}
  <2>1. sds \in Seq(S) /\ Len(sds) = n BY <1>3, <1>4
  <2>2. CASE n = 0
    <3>1. sds = << >> BY <2>1, <2>2
    <3>2. DOMAIN Tail(sds) = {} BY <3>1
    <3> QED BY <3>2
  <2>3. CASE n # 0
    <3>1. sds # << >> BY <2>1, <2>3
    <3>2. Tail(sds) \in Seq(S) /\ Len(Tail(sds)) = n - 1
      <4> HIDE DEF S
      <4> QED BY <2>1, <3>1, HeadTailProperties
    <3> QED BY <1>3, <3>2
  <2> QED BY <2>2, <2>3
<1>6. \A i \in DOMAIN others : others[i].span \cap local_group = {}
  <2> SUFFICES ASSUME NEW i \in DOMAIN Tail(sds)
               PROVE  AgainstLocal(sds[i + 1], local).span \cap local_group = {}
    OBVIOUS
  <2>1. i + 1 \in 1 .. n /\ i + 1 \in 2 .. n BY <1>3, <1>5
  <2>2. AgainstLocal(sds[i + 1], local).span = sds[i + 1].span
    BY <1>4, <2>1 DEF AgainstLocal
  <2> QED BY <1>3, <1>4, <2>1, <2>2
<1>7. \A s \in Busiest(others) : \E i \in DOMAIN others : s = others[i]
  <2>1. DOMAIN others \in SUBSET Nat BY <1>5
  <2> HIDE DEF others
  <2> DEFINE Heavier(s, t) == \/ group_type(s) > group_type(t)
                              \/ group_type(s) = group_type(t) /\ s.avg_load > t.avg_load
             candidates == {i \in DOMAIN others :
                              /\ group_type(others[i]) > 0 \/ others[i].avg_load > 0
                              /\ \A j \in DOMAIN others : ~Heavier(others[j], others[i])}
  <2>2. Busiest(others) = IF candidates = {} THEN {} ELSE {others[Min(candidates)]}
    BY Zenon DEF Busiest
  <2>3. candidates \in SUBSET Nat /\ candidates \subseteq DOMAIN others BY <2>1
  <2> HIDE DEF candidates
  <2>4. candidates # {} => Min(candidates) \in DOMAIN others BY <2>3, MinNat
  <2> QED BY <2>2, <2>4
<1>8. \E s \in Busiest(others) : group.span = s.span
  <2> DEFINE avg == (SCHED_CAPACITY_SCALE * FoldSeq(LAMBDA s, sum : sum + s.load, 0, sds))
                    \div FoldSeq(LAMBDA s, sum : sum + s.capacity, 0, sds)
  <2>1. PICK s \in Busiest(others) :
          group = [span |-> s.span, imbalance |-> imbalance_of(local, s, avg)]
    BY Zenon DEF find_busiest_group
  <2> HIDE DEF others, local, avg
  <2> QED BY <2>1
<1> HIDE DEF others
<1> QED BY <1>6, <1>7, <1>8

\* Only EnvSides and RingWeighed can be disturbed while tasks are moved.
LEMMA PullWalks ==
    ASSUME Walks, Balancing, pc \notin {"choose", "busiest"} \/ ~refused,
           Balancing', pc' # "busiest", UNCHANGED walk, EnvSides'
    PROVE  Walks'
<1>1. ~refused BY DEF Walks, Ineligible, Balancing
<1>2. <<sd, this_cpu>> \in Domains BY DEF Walks, AtDomain, Balancing
<1>3. UNCHANGED <<this_cpu, sd, refused>> BY DEF walk
<1>4. AtDomain' /\ RingWeighed' /\ Ineligible'
  BY <1>1, <1>2, <1>3 DEF AtDomain, RingWeighed, Ineligible
<1> QED BY <1>4 DEF Walks

LEMMA ChooseWalks ==
    ASSUME Inv, Walks, Choose PROVE Walks'
<1>1. pc = "busiest" /\ Balancing /\ ~refused
  BY DEF Choose, Walks, Ineligible, Balancing
<1>2. <<sd, this_cpu>> \in Domains BY <1>1 DEF Walks, AtDomain
<1>3. PICK found \in {find_busiest_group} :
        \E group \in found \cup {[span |-> {}, imbalance |-> 0]} :
          LET busiest == find_busiest_queue(group.span, group.imbalance)
          IN  IF busiest = NoCpu THEN OutBalanced /\ refused' = (refused /\ pc' # "tick")
              ELSE /\ pc' = EnterMigrate(busiest)
                   /\ env' = [env EXCEPT !.src = busiest, !.imbalance = group.imbalance,
                                !.flags = IF nr_running(busiest) > 1
                                          THEN @ \cup {"ALL_PINNED"} ELSE @,
                                !.loop_max = IF nr_running(busiest) > 1
                                             THEN Min({sysctl_sched_nr_migrate,
                                                       nr_running(busiest)}) ELSE @]
                   /\ UNCHANGED <<tasks, imbalance, nr_balance_failed, walk>>
  BY DEF Choose
<1>4. PICK group \in found \cup {[span |-> {}, imbalance |-> 0]} :
        \/ OutBalanced /\ refused' = (refused /\ pc' # "tick")
        \/ LET busiest == find_busiest_queue(group.span, group.imbalance)
           IN  /\ busiest # NoCpu
               /\ pc' = EnterMigrate(busiest)
               /\ env' = [env EXCEPT !.src = busiest, !.imbalance = group.imbalance,
                            !.flags = IF nr_running(busiest) > 1
                                      THEN @ \cup {"ALL_PINNED"} ELSE @,
                            !.loop_max = IF nr_running(busiest) > 1
                                         THEN Min({sysctl_sched_nr_migrate,
                                                   nr_running(busiest)}) ELSE @]
               /\ UNCHANGED walk
  BY <1>3
<1>5. CASE OutBalanced /\ refused' = (refused /\ pc' # "tick")
  BY <1>1, <1>5, ReturnWalks DEF OutBalanced, tasks
<1>6. CASE ~(OutBalanced /\ refused' = (refused /\ pc' # "tick"))
  <2> DEFINE busiest == find_busiest_queue(group.span, group.imbalance)
  <2>1. /\ busiest # NoCpu /\ pc' \in {"detach", "active"} /\ UNCHANGED walk
        /\ env' = [env EXCEPT !.src = busiest, !.imbalance = env'.imbalance,
                     !.flags = env'.flags, !.loop_max = env'.loop_max]
        /\ env'.flags \subseteq env.flags \cup {"ALL_PINNED"}
    BY <1>4, <1>6 DEF EnterMigrate, Inv, EnvShape
  <2>2. busiest \in group.span \cap env.cpus
    <3> DEFINE eligible == {c \in group.span \cap env.cpus :
                              /\ runnable_load_avg(c) > 0
                              /\ ~(nr_running(c) = 1 /\ runnable_load_avg(c) > group.imbalance)}
               best == {c \in eligible : \A x \in eligible :
                              runnable_load_avg(x) <= runnable_load_avg(c)}
    <3>1. busiest = find_first_bit(best)
      BY DEF find_busiest_queue
    <3>2. best \subseteq group.span \cap env.cpus /\ best \in SUBSET Nat
      BY OnlineCpus DEF Inv, EnvShape
    <3> HIDE DEF best, busiest
    <3> QED BY <2>1, <3>1, <3>2, FirstBit
  <2>3. group.span \cap local_group = {}
    <3>1. CASE group \in find_busiest_group BY <1>1, <3>1, BusiestIsOther
    <3>2. CASE group = [span |-> {}, imbalance |-> 0] BY <3>2
    <3> QED BY <3>1, <3>2
  <2> HIDE DEF busiest
  <2>4. busiest \in Online \ local_group BY <2>2, <2>3 DEF Inv, EnvShape
  <2>5. /\ env'.dst = env.dst /\ env'.cpus = env.cpus /\ env'.new_dst = env.new_dst
        /\ env'.src = busiest
    BY <2>1 DEF Inv, EnvShape
  <2>6. local_group' = local_group /\ this_cpu' = this_cpu BY <2>1 DEF walk, local_group
  <2>7. EnvSides'
    BY <1>1, <2>1, <2>4, <2>5, <2>6 DEF Walks, EnvSides
  <2>8. Balancing' BY <2>1 DEF Balancing
  <2> QED BY <1>1, <2>1, <2>7, <2>8, PullWalks
<1> QED BY <1>5, <1>6

\* The other destination that is remembered is one of the local group that is
\* still considered.
LEMMA DetachWalks ==
    ASSUME Inv, Walks, DetachKeep \/ DetachMove PROVE Walks'
<1>1. pc = "detach" /\ pc' = pc /\ UNCHANGED walk /\ Balancing /\ Balancing'
  BY DEF DetachKeep, DetachMove, DetachGoesOn, Balancing
<1>2. local_group' = local_group /\ this_cpu' = this_cpu BY <1>1 DEF walk, local_group
<1>3. <<sd, this_cpu>> \in Domains BY <1>1 DEF Walks, AtDomain
<1>4. /\ env'.dst = env.dst /\ env'.cpus = env.cpus /\ env'.src = env.src
      /\ "DST_PINNED" \in env'.flags =>
            \/ "DST_PINNED" \in env.flags /\ env'.new_dst = env.new_dst
            \/ env'.new_dst \in local_group \cap env.cpus /\ env'.new_dst # env.dst
  <2>1. CASE DetachMove BY <2>1 DEF DetachMove, Inv, EnvShape
  <2>2. CASE DetachKeep
    <3> DEFINE t == Candidate
               others == GroupSpan(Machine, sd, this_cpu) \cap env.cpus \cap allowed[t]
    <3>1. CASE ~Pinned(t)
      <4>1. env' = [[env EXCEPT !.flags = @ \ {"ALL_PINNED"}] EXCEPT !.loop = @ + 1]
        BY <2>2, <3>1 DEF DetachKeep
      <4> QED BY <4>1 DEF Inv, EnvShape
    <3>2. CASE Pinned(t) /\ ("DST_PINNED" \in env.flags \/ others = {})
      <4>1. env' = [[env EXCEPT !.flags = @ \cup {"SOME_PINNED"}] EXCEPT !.loop = @ + 1]
        BY <2>2, <3>2 DEF DetachKeep, Elsewhere
      <4> QED BY <4>1 DEF Inv, EnvShape
    <3>3. CASE Pinned(t) /\ ~("DST_PINNED" \in env.flags \/ others = {})
      <4>1. env' = [[env EXCEPT !.flags = @ \cup {"SOME_PINNED", "DST_PINNED"},
                                !.new_dst = find_first_bit(others)] EXCEPT !.loop = @ + 1]
        BY <2>2, <3>3 DEF DetachKeep, Elsewhere
      <4>2. find_first_bit(others) \in others
        <5>1. others \in SUBSET Nat /\ others # {} BY <3>3, OnlineCpus DEF Inv, EnvShape
        <5> HIDE DEF others
        <5> QED BY <5>1, MinNat DEF find_first_bit
      <4>3. find_first_bit(others) \in local_group \cap env.cpus
            /\ find_first_bit(others) # env.dst
        BY <3>3, <4>2 DEF local_group, Pinned
      <4> HIDE DEF others
      <4> QED BY <4>1, <4>3 DEF Inv, EnvShape
    <3> QED BY <3>1, <3>2, <3>3
  <2> QED BY <2>1, <2>2
<1>5. EnvSides' BY <1>1, <1>2, <1>4 DEF Walks, EnvSides
<1> QED BY <1>1, <1>5, PullWalks

LEMMA AttachWalks ==
    ASSUME Inv, Walks, Attach PROVE Walks'
<1>1. /\ pc = "detach" /\ pc' = "migrated" /\ UNCHANGED walk /\ Balancing /\ Balancing'
      /\ env' = [env EXCEPT !.tasks = << >>]
  BY DEF Attach, Balancing
<1>2. local_group' = local_group /\ this_cpu' = this_cpu BY <1>1 DEF walk, local_group
<1>3. /\ env'.dst = env.dst /\ env'.cpus = env.cpus /\ env'.src = env.src
      /\ env'.flags = env.flags /\ env'.new_dst = env.new_dst
  BY <1>1 DEF Inv, EnvShape
<1>4. EnvSides' BY <1>1, <1>2, <1>3 DEF Walks, EnvSides
<1> QED BY <1>1, <1>4, PullWalks

LEMMA MoreBalanceWalks ==
    ASSUME Inv, Walks, MoreBalance PROVE Walks'
<1>1. /\ pc = "migrated" /\ pc' \in {"detach", "active"} /\ UNCHANGED walk
      /\ Balancing /\ Balancing' /\ "DST_PINNED" \in env.flags
      /\ env' = [env EXCEPT !.cpus = @ \ {env.dst}, !.dst = env.new_dst,
                            !.flags = @ \ {"DST_PINNED"}, !.loop = 0]
  BY DEF MoreBalance, EnterMigrate, Balancing
<1>2. local_group' = local_group /\ this_cpu' = this_cpu BY <1>1 DEF walk, local_group
<1>3. /\ env'.dst = env.new_dst /\ env'.cpus = env.cpus \ {env.dst} /\ env'.src = env.src
      /\ "DST_PINNED" \notin env'.flags
  BY <1>1 DEF Inv, EnvShape
<1>4. EnvSides' BY <1>1, <1>2, <1>3 DEF Walks, EnvSides
<1> QED BY <1>1, <1>4, PullWalks

LEMMA RedoWalks ==
    ASSUME Inv, Walks, Redo PROVE Walks'
<1>1. /\ pc = "migrated" /\ pc' = "choose" /\ UNCHANGED walk /\ Balancing /\ Balancing'
      /\ env' = [env EXCEPT !.cpus = @ \ {env.src}, !.loop = 0]
  BY DEF Redo, NoRetry, Balancing
<1>2. local_group' = local_group /\ this_cpu' = this_cpu BY <1>1 DEF walk, local_group
<1>3. /\ env'.dst = env.dst /\ env'.cpus = env.cpus \ {env.src}
      /\ env'.flags = env.flags /\ env'.new_dst = env.new_dst
  BY <1>1 DEF Inv, EnvShape
<1>4. EnvSides' BY <1>1, <1>2, <1>3 DEF Walks, EnvSides
<1> QED BY <1>1, <1>4, PullWalks

LEMMA EndBalanceWalks ==
    ASSUME Walks, EndBalance PROVE Walks'
<1>1. /\ pc \in {"migrated", "active"} /\ UNCHANGED <<queue, curr>> /\ Return(ld_moved)
      /\ refused' = (refused /\ pc' # "tick")
  BY DEF EndBalance, NoRetry, tasks
<1>2. ~refused BY <1>1 DEF Walks, Ineligible
<1> QED BY <1>1, <1>2, ReturnWalks

\* Between two walks.
LEMMA RestWalks ==
    ASSUME Walks, UNCHANGED <<pc, walk, env, sds>>, pc = "tick" \/ UNCHANGED <<queue, curr>>
    PROVE  Walks'
<1>1. UNCHANGED <<this_cpu, sd, refused>> /\ local_group' = local_group
  BY DEF walk, local_group
<1>2. AtDomain' /\ RingWeighed' /\ EnvSides'
  BY <1>1 DEF Walks, AtDomain, RingWeighed, EnvSides, Balancing
<1>3. CASE pc = "tick" BY <1>1, <1>2, <1>3 DEF Walks, Ineligible
<1>4. CASE UNCHANGED <<queue, curr>>
  <2>1. \A x : idle_cpu(x)' = idle_cpu(x) BY <1>4 DEF idle_cpu, nr_running
  <2> QED BY <1>1, <1>2, <2>1 DEF Walks, Ineligible, Blocked
<1> QED BY <1>3, <1>4

LEMMA InitWalks == ASSUME Init PROVE Walks
BY DEF Init, Walks, AtDomain, RingWeighed, EnvSides, Ineligible, Balancing

LEMMA StepWalks ==
    ASSUME Inv, Walks, [Next]_vars PROVE Walks'
<1>1. CASE (\E t \in Tasks, c \in Online : Wake(t, c)) \/ (\E c \in Online : Schedule(c))
  BY <1>1, RestWalks DEF Wake, Schedule
<1>2. CASE UNCHANGED vars BY <1>2, RestWalks DEF vars, walk
<1>3. CASE (\E c \in Online : Tick(c)) \/ NotDue \/ (\E d \in Domains : Due(d[2], d[1]))
  BY <1>3, TickWalks, NotDueWalks, DueWalks
<1>4. CASE Refuse \/ UpdateStats \/ Choose
  BY <1>4, RefuseWalks, UpdateStatsWalks, ChooseWalks
<1>5. CASE DetachKeep \/ DetachMove \/ Attach \/ MoreBalance \/ Redo \/ EndBalance
  BY <1>5, DetachWalks, AttachWalks, MoreBalanceWalks, RedoWalks, EndBalanceWalks
<1> QED BY <1>1, <1>2, <1>3, <1>4, <1>5 DEF Next

\* should_we_balance (sched.hpp:499-503): whoever was refused at one level is
\* refused at all levels above it.  What one group has against it the larger
\* group has, too, and nothing is queued or moved in between.
THEOREM RefusedStaysIneligible == Spec => []EligibleAtAndAbove
<1>1. Walks => EligibleAtAndAbove BY DEF Walks, Ineligible, EligibleAtAndAbove
<1> QED BY <1>1, InvInitially, StepKeeps, InitWalks, StepWalks, PTL DEF Spec

-----------------------------------------------------------------------------
(* A task is in one place: in one queue, once, or in the balancer's list.  *)

Queued(c) == ToSet(queue[c])
\* The tasks between two queues.
Held == ToSet(env.tasks)

Distinct ==
    /\ IsInjective(env.tasks)
    /\ \A c \in Online : IsInjective(queue[c]) /\ Queued(c) \cap Held = {}
    /\ \A c, d \in Online : c # d => Queued(c) \cap Queued(d) = {}

\* What is left when the last task is taken off.
LEMMA LastOff ==
    ASSUME NEW S, NEW q \in Seq(S), Len(q) > 0, IsInjective(q)
    PROVE  /\ Last(q) \in ToSet(q) /\ ToSet(Front(q)) = ToSet(q) \ {Last(q)}
           /\ IsInjective(Front(q))
<1> DEFINE r == Front(q)
           n == Len(q)
<1>1. /\ r \in Seq(S) /\ Len(r) = n - 1 /\ n \in Nat /\ n > 0
      /\ \A i \in 1 .. n - 1 : r[i] = q[i]
  BY FrontLast
<1>2. DOMAIN q = 1 .. n /\ DOMAIN r = 1 .. n - 1 /\ Last(q) = q[n] BY <1>1 DEF Last
<1> HIDE DEF r, n
<1>3. \A i, j \in 1 .. n : q[i] = q[j] => i = j BY <1>2 DEF IsInjective
<1>4. n \in 1 .. n /\ 1 .. n = (1 .. n - 1) \cup {n} /\ n \notin 1 .. n - 1 BY <1>1
<1>5. Last(q) \in ToSet(q) BY <1>2, <1>4 DEF ToSet
<1>6. ToSet(r) = ToSet(q) \ {Last(q)}
  <2>1. ToSet(q) = {q[i] : i \in 1 .. n} /\ ToSet(r) = {q[i] : i \in 1 .. n - 1}
    BY <1>1, <1>2 DEF ToSet
  <2> QED BY <1>2, <1>3, <1>4, <2>1
<1>7. IsInjective(r) BY <1>1, <1>2, <1>3, <1>4 DEF IsInjective
<1> QED BY <1>5, <1>6, <1>7 DEF r

\* The last task is put at the front: the same tasks are there.
LEMMA LastFront ==
    ASSUME NEW S, NEW q \in Seq(S), Len(q) > 0, IsInjective(q)
    PROVE  /\ ToSet(Cons(Last(q), Front(q))) = ToSet(q)
           /\ IsInjective(Cons(Last(q), Front(q)))
<1>1. Last(q) \in S /\ Front(q) \in Seq(S) BY FrontLast
<1>2. /\ Last(q) \in ToSet(q) /\ ToSet(Front(q)) = ToSet(q) \ {Last(q)}
      /\ IsInjective(Front(q))
  BY LastOff
<1>3. /\ ToSet(Cons(Last(q), Front(q))) = ToSet(Front(q)) \cup {Last(q)}
      /\ IsInjective(Cons(Last(q), Front(q)))
  BY <1>1, <1>2, ConsElements
<1> QED BY <1>2, <1>3

LEMMA ReverseElements ==
    ASSUME NEW S, NEW q \in Seq(S), IsInjective(q)
    PROVE  ToSet(Reverse(q)) = ToSet(q) /\ IsInjective(Reverse(q))
<1> DEFINE n == Len(q)
           r == Reverse(q)
<1>1. n \in Nat /\ DOMAIN q = 1 .. n /\ r = [i \in 1 .. n |-> q[n - i + 1]]
  BY DEF Reverse
<1>2. \A i, j \in 1 .. n : q[i] = q[j] => i = j BY <1>1 DEF IsInjective
<1> HIDE DEF n, r
<1>3. DOMAIN r = 1 .. n /\ \A i \in 1 .. n : r[i] = q[n - i + 1] BY <1>1
<1>4. \A i \in 1 .. n : n - i + 1 \in 1 .. n /\ n - (n - i + 1) + 1 = i BY <1>1
<1>5. ToSet(r) = ToSet(q)
  <2>1. \A x : x \in ToSet(r) <=> \E i \in 1 .. n : x = r[i] BY <1>3 DEF ToSet
  <2>2. \A x : x \in ToSet(q) <=> \E i \in 1 .. n : x = q[i] BY <1>1 DEF ToSet
  <2>3. ASSUME NEW i \in 1 .. n
        PROVE  (\E j \in 1 .. n : r[i] = q[j]) /\ \E j \in 1 .. n : q[i] = r[j]
    BY <1>3, <1>4
  <2> QED BY <2>1, <2>2, <2>3
<1>6. IsInjective(r)
  <2> SUFFICES ASSUME NEW i \in 1 .. n, NEW j \in 1 .. n, r[i] = r[j] PROVE i = j
    BY <1>3 DEF IsInjective
  <2>1. n - i + 1 = n - j + 1 BY <1>2, <1>3, <1>4
  <2> QED BY <1>1, <2>1
<1> QED BY <1>5, <1>6 DEF r

LEMMA ConcatSets ==
    ASSUME NEW S, NEW p \in Seq(S), NEW q \in Seq(S),
           IsInjective(p), IsInjective(q), ToSet(p) \cap ToSet(q) = {}
    PROVE  ToSet(p \o q) = ToSet(p) \cup ToSet(q) /\ IsInjective(p \o q)
<1> DEFINE r == p \o q
           m == Len(p)
           n == Len(q)
<1>1. /\ r \in Seq(S) /\ Len(r) = m + n /\ m \in Nat /\ n \in Nat
      /\ \A i \in 1 .. m : r[i] = p[i]
      /\ \A i \in 1 .. n : r[m + i] = q[i]
  BY ConcatElements
<1>2. DOMAIN p = 1 .. m /\ DOMAIN q = 1 .. n /\ DOMAIN r = 1 .. m + n BY <1>1
<1> HIDE DEF r, m, n
<1>3. \A i \in 1 .. m + n : i \in 1 .. m \/ (i - m \in 1 .. n /\ i = m + (i - m)) BY <1>1
<1>4. (\A i \in 1 .. m : i \in 1 .. m + n) /\ \A i \in 1 .. n : m + i \in 1 .. m + n BY <1>1
<1>5. /\ \A x : x \in ToSet(p) <=> \E i \in 1 .. m : x = p[i]
      /\ \A x : x \in ToSet(q) <=> \E i \in 1 .. n : x = q[i]
      /\ \A x : x \in ToSet(r) <=> \E i \in 1 .. m + n : x = r[i]
  BY <1>2 DEF ToSet
<1>6. ASSUME NEW i \in 1 .. m + n
      PROVE  \/ i \in 1 .. m /\ r[i] = p[i]
             \/ i - m \in 1 .. n /\ r[i] = q[i - m]
  BY <1>1, <1>3
<1>7. ToSet(r) = ToSet(p) \cup ToSet(q)
  <2>1. \A x \in ToSet(r) : x \in ToSet(p) \cup ToSet(q) BY <1>5, <1>6
  <2>2. \A x \in ToSet(p) : x \in ToSet(r) BY <1>1, <1>4, <1>5
  <2>3. \A x \in ToSet(q) : x \in ToSet(r)
    <3> SUFFICES ASSUME NEW i \in 1 .. n PROVE q[i] \in ToSet(r)
      BY <1>5
    <3>1. m + i \in 1 .. m + n /\ q[i] = r[m + i] BY <1>1, <1>4
    <3> QED BY <1>5, <3>1
  <2> QED BY <2>1, <2>2, <2>3
<1>8. IsInjective(r)
  <2> SUFFICES ASSUME NEW i \in 1 .. m + n, NEW j \in 1 .. m + n, r[i] = r[j] PROVE i = j
    BY <1>2 DEF IsInjective
  <2>1. \A k, l \in 1 .. m : p[k] = p[l] => k = l BY <1>2 DEF IsInjective
  <2>2. \A k, l \in 1 .. n : q[k] = q[l] => k = l BY <1>2 DEF IsInjective
  <2>3. CASE i \in 1 .. m /\ r[i] = p[i]
    <3>1. ~(j - m \in 1 .. n /\ r[j] = q[j - m]) BY <1>5, <2>3
    <3> QED BY <1>6, <2>1, <2>3, <3>1
  <2>4. CASE i - m \in 1 .. n /\ r[i] = q[i - m]
    <3>1. ~(j \in 1 .. m /\ r[j] = p[j]) BY <1>5, <2>4
    <3>2. i - m = j - m BY <1>6, <2>2, <2>4, <3>1
    <3> QED BY <1>1, <3>2
  <2> QED BY <1>6, <2>3, <2>4
<1> QED BY <1>7, <1>8 DEF r

\* One queue is replaced by a list that shares no task with the others.
LEMMA DistinctWith ==
    ASSUME Inv, Distinct, NEW c \in Online, NEW r, queue' = [queue EXCEPT ![c] = r],
           IsInjective(r), IsInjective(env'.tasks), ToSet(r) \cap ToSet(env'.tasks) = {},
           \A d \in Online \ {c} : Queued(d) \cap (ToSet(r) \cup ToSet(env'.tasks)) = {}
    PROVE  Distinct'
<1>1. queue'[c] = r /\ \A d \in Online \ {c} : queue'[d] = queue[d]
  BY DEF Inv, QueuesFit
<1>2. Queued(c)' = ToSet(r) /\ \A d \in Online \ {c} : Queued(d)' = Queued(d)
  BY <1>1 DEF Queued
<1>3. ASSUME NEW d \in Online PROVE IsInjective(queue'[d]) /\ Queued(d)' \cap Held' = {}
  BY <1>1, <1>2 DEF Distinct, Held
<1>4. ASSUME NEW d \in Online, NEW e \in Online, d # e PROVE Queued(d)' \cap Queued(e)' = {}
  <2>1. CASE d = c BY <1>2, <1>4, <2>1
  <2>2. CASE e = c BY <1>2, <1>4, <2>2
  <2>3. CASE d # c /\ e # c BY <1>2, <1>4, <2>3 DEF Distinct
  <2> QED BY <2>1, <2>2, <2>3
<1> QED BY <1>3, <1>4 DEF Distinct

-----------------------------------------------------------------------------
(* What a step does with the tasks.                                        *)

\* It leaves them where they are.
Rests ==
    /\ \A c \in Online : Queued(c)' = Queued(c)
    /\ Held' = Held /\ (Held # {} => env'.src = env.src)

\* It puts a new one on a CPU.
Starts(t, c) ==
    /\ t \notin Woken /\ c \in allowed[t] /\ Held = {} /\ Held' = {}
    /\ Queued(c)' = Queued(c) \cup {t}
    /\ \A d \in Online \ {c} : Queued(d)' = Queued(d)

\* It takes one from the CPU that all in the list come from.
Detaches(t) ==
    /\ env.src \in Online /\ t \in Queued(env.src) /\ env'.src = env.src
    /\ Held' = Held \cup {t}
    /\ \A d \in Online : Queued(d)' = IF d = env.src THEN Queued(d) \ {t} ELSE Queued(d)

\* It puts all of the list on another CPU, where they may run.
Attaches ==
    /\ Held # {} /\ Held' = {} /\ env.dst \in Online /\ env.src # env.dst
    /\ \A t \in Held : env.dst \in allowed[t]
    /\ \A d \in Online : Queued(d)' = IF d = env.dst THEN Queued(d) \cup Held ELSE Queued(d)

Moves ==
    /\ allowed' = allowed
    /\ \/ Rests
       \/ \E t \in Tasks, c \in Online : Starts(t, c)
       \/ \E t \in Tasks : Detaches(t)
       \/ Attaches

LEMMA NothingHeld == ToSet(<< >>) = {} /\ IsInjective(<< >>)
BY DEF ToSet, IsInjective

LEMMA Resting ==
    ASSUME Inv, Distinct, UNCHANGED tasks, env'.tasks = env.tasks,
           env.tasks # << >> => env'.src = env.src
    PROVE  Moves /\ Distinct'
<1>1. \A c : Queued(c)' = Queued(c) BY DEF Queued, tasks
<1>2. Held' = Held BY DEF Held
<1>3. Held # {} => env'.src = env.src BY NothingHeld DEF Held
<1>4. Distinct' BY <1>1, <1>2 DEF Distinct, tasks
<1> QED BY <1>1, <1>2, <1>3, <1>4 DEF Moves, Rests, tasks, fixed

LEMMA WakeMoves ==
    ASSUME Inv, Distinct, NEW t \in Tasks, NEW c \in Online, Wake(t, c)
    PROVE  Moves /\ Distinct'
<1> DEFINE r == Cons(t, queue[c])
<1>1. /\ queue' = [queue EXCEPT ![c] = r] /\ t \notin Woken /\ c \in allowed[t]
      /\ env' = env /\ allowed' = allowed /\ env.tasks = << >>
  BY DEF Wake, fixed, Inv, InHand
<1>2. queue[c] \in Seq(Tasks) /\ \A d \in Online : t \notin Queued(d)
  BY <1>1 DEF Inv, QueuesFit, Woken, Queued
<1>3. ToSet(r) = Queued(c) \cup {t} /\ IsInjective(r)
  BY <1>2, ConsElements DEF Queued, Distinct
<1> HIDE DEF r
<1>4. Held = {} /\ Held' = {} BY <1>1, NothingHeld DEF Held
<1>5. Distinct'
  <2>1. IsInjective(env'.tasks) /\ ToSet(env'.tasks) = {} BY <1>1, NothingHeld
  <2>2. \A d \in Online \ {c} : Queued(d) \cap ToSet(r) = {} BY <1>2, <1>3 DEF Distinct
  <2>3. /\ ToSet(r) \cap ToSet(env'.tasks) = {}
        /\ \A d \in Online \ {c} : Queued(d) \cap (ToSet(r) \cup ToSet(env'.tasks)) = {}
    BY <2>1, <2>2
  <2>4. queue' = [queue EXCEPT ![c] = r] /\ IsInjective(r) BY <1>1, <1>3
  <2> QED BY <2>1, <2>3, <2>4, DistinctWith
<1>6. queue'[c] = r /\ \A d \in Online \ {c} : queue'[d] = queue[d]
  BY <1>1 DEF Inv, QueuesFit
<1>7. Starts(t, c) BY <1>1, <1>3, <1>4, <1>6 DEF Starts, Queued
<1> QED BY <1>1, <1>5, <1>7 DEF Moves

\* The tasks of a queue are listed in another order.
LEMMA Reordering ==
    ASSUME Inv, Distinct, NEW c \in Online, NEW r, queue' = [queue EXCEPT ![c] = r],
           ToSet(r) = Queued(c), IsInjective(r), allowed' = allowed,
           env'.tasks = env.tasks, env'.src = env.src
    PROVE  Moves /\ Distinct'
<1>1. queue'[c] = r /\ \A d \in Online \ {c} : queue'[d] = queue[d]
  BY DEF Inv, QueuesFit
<1>2. \A d \in Online : Queued(d)' = Queued(d) BY <1>1 DEF Queued
<1>3. Held' = Held BY DEF Held
<1>4. Distinct'
  <2>1. IsInjective(env'.tasks) /\ ToSet(env'.tasks) = Held BY DEF Distinct, Held
  <2>2. \A d \in Online \ {c} : Queued(d) \cap (ToSet(r) \cup Held) = {} BY DEF Distinct
  <2>3. ToSet(r) \cap Held = {} BY DEF Distinct
  <2> QED BY <2>1, <2>2, <2>3, DistinctWith
<1> QED BY <1>2, <1>3, <1>4 DEF Moves, Rests

LEMMA ScheduleMoves ==
    ASSUME Inv, Distinct, NEW c \in Online, Schedule(c) PROVE Moves /\ Distinct'
<1>1. PICK t \in ToSet(queue[c]) : queue' = [queue EXCEPT ![c] = Cons(t, RemoveFirst(@, t))]
  BY DEF Schedule
<1> DEFINE r == Cons(t, RemoveFirst(queue[c], t))
<1>2. queue[c] \in Seq(Tasks) /\ IsInjective(queue[c]) BY DEF Inv, QueuesFit, Distinct
<1>3. ToSet(r) = Queued(c) /\ IsInjective(r) BY <1>2, FrontElements DEF Queued
<1>4. queue' = [queue EXCEPT ![c] = r] /\ allowed' = allowed /\ env' = env
  BY <1>1 DEF Schedule, fixed
<1> HIDE DEF r
<1> QED BY <1>3, <1>4, Reordering

LEMMA DetachKeepMoves ==
    ASSUME Inv, Distinct, DetachKeep PROVE Moves /\ Distinct'
<1> DEFINE c == env.src
           t == Candidate
           r == Cons(t, Front(queue[c]))
           seen == IF Pinned(t) THEN Elsewhere(t)
                   ELSE [env EXCEPT !.flags = @ \ {"ALL_PINNED"}]
<1>1. /\ c \in Online /\ queue[c] \in Seq(Fit(c)) /\ Len(queue[c]) > 0 /\ t = Last(queue[c])
      /\ IsInjective(queue[c])
  BY CandidateIsQueued DEF DetachKeep, Distinct
<1>2. ToSet(r) = Queued(c) /\ IsInjective(r) BY <1>1, LastFront DEF Queued
<1>3. /\ queue' = [queue EXCEPT ![c] = r] /\ allowed' = allowed
      /\ env' = [seen EXCEPT !.loop = @ + 1]
  BY DEF DetachKeep, fixed
<1>4. env'.tasks = env.tasks /\ env'.src = env.src
  BY <1>3 DEF Elsewhere, Inv, EnvShape
<1> HIDE DEF r
<1> QED BY <1>1, <1>2, <1>3, <1>4, Reordering

LEMMA DetachMoveMoves ==
    ASSUME Inv, Distinct, DetachMove PROVE Moves /\ Distinct'
<1> DEFINE c == env.src
           t == Candidate
           r == Front(queue[c])
<1>1. /\ c \in Online /\ queue[c] \in Seq(Fit(c)) /\ Len(queue[c]) > 0 /\ t = Last(queue[c])
      /\ IsInjective(queue[c]) /\ pc = "detach" /\ t \in Tasks
  BY CandidateIsQueued DEF DetachMove, Distinct, Fit
<1>2. t \in Queued(c) /\ ToSet(r) = Queued(c) \ {t} /\ IsInjective(r)
  BY <1>1, LastOff DEF Queued
<1>3. /\ queue' = [queue EXCEPT ![c] = r] /\ allowed' = allowed
      /\ env'.tasks = Cons(t, env.tasks) /\ env'.src = env.src
  BY DEF DetachMove, fixed, Inv, EnvShape
<1> HIDE DEF r
<1>4. env.tasks \in Seq(Tasks)
  <2>1. env.tasks \in Seq(Fit(env.dst)) /\ Fit(env.dst) \subseteq Tasks
    BY <1>1 DEF Inv, InHand, Fit
  <2> QED BY <2>1
<1>5. t \notin Held BY <1>1, <1>2 DEF Distinct
<1>6. ToSet(env'.tasks) = Held \cup {t} /\ IsInjective(env'.tasks)
  BY <1>1, <1>3, <1>4, <1>5, ConsElements DEF Held, Distinct
<1>7. Distinct'
  <2>1. ToSet(r) \cap (Held \cup {t}) = {} BY <1>1, <1>2 DEF Distinct
  <2>2. \A d \in Online \ {c} : Queued(d) \cap (ToSet(r) \cup (Held \cup {t})) = {}
    BY <1>1, <1>2 DEF Distinct
  <2> QED BY <1>1, <1>2, <1>3, <1>6, <2>1, <2>2, DistinctWith
<1>8. queue'[c] = r /\ \A d \in Online \ {c} : queue'[d] = queue[d]
  BY <1>1, <1>3 DEF Inv, QueuesFit
<1>9. Detaches(t)
  <2>1. \A d \in Online : Queued(d)' = IF d = c THEN Queued(d) \ {t} ELSE Queued(d)
    BY <1>2, <1>8 DEF Queued
  <2>2. Held' = Held \cup {t} BY <1>6 DEF Held
  <2> QED BY <1>1, <1>2, <1>3, <2>1, <2>2, Zenon DEF Detaches
<1> QED BY <1>1, <1>3, <1>7, <1>9 DEF Moves

\* The destination is in the local group and the source is not.
LEMMA AttachMoves ==
    ASSUME Inv, Walks, Distinct, Attach PROVE Moves /\ Distinct'
<1> DEFINE c == env.dst
           p == Reverse(env.tasks)
           r == p \o queue[c]
<1>1. /\ queue' = [queue EXCEPT ![c] = r] /\ allowed' = allowed /\ pc = "detach"
      /\ env'.tasks = << >> /\ env'.src = env.src
  BY DEF Attach, fixed, Inv, EnvShape
<1>2. c \in Online /\ env.src # c
  <2>1. Balancing /\ pc # "tick" BY <1>1 DEF Balancing
  <2>2. <<sd, this_cpu>> \in Domains BY <2>1 DEF Walks, AtDomain
  <2> QED BY <1>1, <2>1, <2>2, DomainOf DEF Walks, EnvSides
<1>3. env.tasks \in Seq(Fit(c)) /\ env.tasks \in Seq(Tasks)
  <2>1. env.tasks \in Seq(Fit(c)) /\ Fit(c) \subseteq Tasks BY <1>1 DEF Inv, InHand, Fit
  <2> QED BY <2>1
<1>4. \A t \in Held : c \in allowed[t] BY <1>3 DEF Held, ToSet, Fit
<1>5. p \in Seq(Tasks) /\ ToSet(p) = Held /\ IsInjective(p)
  BY <1>3, ReverseType, ReverseElements DEF Held, Distinct
<1>6. queue[c] \in Seq(Tasks) /\ IsInjective(queue[c]) /\ Held \cap Queued(c) = {}
  BY <1>2 DEF Inv, QueuesFit, Distinct
<1> HIDE DEF p
<1>7. ToSet(r) = Held \cup Queued(c) /\ IsInjective(r)
  BY <1>5, <1>6, ConcatSets DEF Queued
<1> HIDE DEF r
<1>8. Held' = {} /\ ToSet(env'.tasks) = {} /\ IsInjective(env'.tasks)
  BY <1>1, NothingHeld DEF Held
<1>9. Distinct'
  <2>1. \A d \in Online \ {c} : Queued(d) \cap ToSet(r) = {} BY <1>2, <1>7 DEF Distinct
  <2> QED BY <1>1, <1>2, <1>7, <1>8, <2>1, DistinctWith
<1>10. queue'[c] = r /\ \A d \in Online \ {c} : queue'[d] = queue[d]
  BY <1>1, <1>2 DEF Inv, QueuesFit
<1>11. CASE Held = {} BY <1>1, <1>7, <1>8, <1>9, <1>10, <1>11 DEF Moves, Rests, Queued
<1>12. CASE Held # {}
  <2>1. \A d \in Online : Queued(d)' = IF d = c THEN Queued(d) \cup Held ELSE Queued(d)
    BY <1>7, <1>10 DEF Queued
  <2>2. Attaches BY <1>2, <1>4, <1>8, <1>12, <2>1, Zenon DEF Attaches
  <2> QED BY <1>1, <1>9, <2>2 DEF Moves
<1> QED BY <1>11, <1>12

\* All other steps leave the queues alone and happen with nothing in the list.
LEMMA EmptyHanded ==
    ASSUME Inv, Inv', Distinct, UNCHANGED tasks, pc # "detach", pc' # "detach" \/ env'.tasks = << >>
    PROVE  Moves /\ Distinct'
<1>1. env.tasks = << >> /\ env'.tasks = << >> BY DEF Inv, InHand
<1> QED BY <1>1, Resting

LEMMA ChooseMoves ==
    ASSUME Inv, Inv', Distinct, Choose PROVE Moves /\ Distinct'
<1>1. UNCHANGED tasks /\ pc = "busiest" BY DEF Choose, OutBalanced
<1>2. env'.tasks = env.tasks
  <2>1. env.tasks = << >> BY <1>1 DEF Inv, InHand
  <2>2. CASE Return(ld_moved) BY <2>1, <2>2 DEF Return, NoEnv
  <2>3. CASE ~Return(ld_moved)
    <3>1. PICK found \in {find_busiest_group} :
            \E group \in found \cup {[span |-> {}, imbalance |-> 0]} :
              LET busiest == find_busiest_queue(group.span, group.imbalance)
              IN  busiest # NoCpu /\ env'.tasks = env.tasks
      BY <2>3 DEF Choose, OutBalanced, Inv, EnvShape
    <3> QED BY <3>1
  <2> QED BY <2>2, <2>3
<1>3. env.tasks = << >> BY <1>1 DEF Inv, InHand
<1> QED BY <1>1, <1>2, <1>3, Resting

LEMMA StepMoves ==
    ASSUME Inv, Inv', Walks, Distinct, [Next]_vars PROVE Moves /\ Distinct'
<1>1. CASE (\E t \in Tasks, c \in Online : Wake(t, c)) \/ (\E c \in Online : Schedule(c))
  BY <1>1, WakeMoves, ScheduleMoves
<1>2. CASE UNCHANGED vars BY <1>2, Resting DEF vars, tasks, fixed
<1>3. CASE (\E c \in Online : Tick(c)) \/ NotDue \/ UpdateStats
  BY <1>3, Resting DEF Tick, NotDue, UpdateStats
<1>4. CASE \E d \in Domains : Due(d[2], d[1])
  BY <1>4, EmptyHanded DEF Due
<1>5. CASE Refuse \/ Redo \/ EndBalance
  <2>1. UNCHANGED tasks /\ pc # "detach" /\ pc' # "detach"
    BY <1>5, NextDomainKeeps DEF Refuse, OutBalanced, Redo, NoRetry, EndBalance, Return
  <2> QED BY <2>1, EmptyHanded
<1>6. CASE Choose BY <1>6, ChooseMoves
<1>7. CASE DetachKeep \/ DetachMove \/ Attach
  BY <1>7, DetachKeepMoves, DetachMoveMoves, AttachMoves
<1>8. CASE MoreBalance
  <2>1. UNCHANGED tasks /\ pc = "migrated" /\ env'.tasks = env.tasks /\ env'.src = env.src
    BY <1>8 DEF MoreBalance, Inv, EnvShape
  <2> QED BY <2>1, Resting
<1> QED BY <1>1, <1>2, <1>3, <1>4, <1>5, <1>6, <1>7, <1>8 DEF Next

-----------------------------------------------------------------------------
(* The refinement of Placement.                                            *)

\* The values LoadBalance gives the variables of Placement.
At(t)   == find_first_bit(InQueue(t))
\* The CPU that a task in the list comes from.
From(t) == IF t \in ToSet(env.tasks) THEN env.src ELSE NoCpu
Places  == [t \in Tasks |-> At(t)]
Origins == [t \in Tasks |-> From(t)]

\* The place says in which queue a task is; one in the list is in none, and
\* comes from a CPU.
Placed(t) ==
    /\ \A c \in Online : t \in Queued(c) <=> At(t) = c
    /\ (\A c \in Online : t \notin Queued(c)) <=> At(t) = NoCpu
    /\ At(t) \in Online \cup {NoCpu}
    /\ t \in Held => env.src \in Online /\ At(t) = NoCpu

LEMMA NoCpuOffline == NoCpu \notin Online
BY OnlineCpus DEF NoCpu

LEMMA PlacedNow == ASSUME NEW t \in Tasks PROVE Inv /\ Distinct => Placed(t)
<1> SUFFICES ASSUME Inv, Distinct PROVE Placed(t) OBVIOUS
<1> DEFINE S == InQueue(t)
<1>1. S = {c \in Online : t \in Queued(c)} BY DEF InQueue, Queued
<1>2. \A c, d \in S : c = d BY <1>1 DEF Distinct
<1>3. At(t) = find_first_bit(S) BY DEF At
<1>4. S \in SUBSET Nat BY <1>1, OnlineCpus
<1> HIDE DEF S
<1>5. t \in Held => env.src \in Online /\ \A c \in Online : t \notin Queued(c)
  <2> SUFFICES ASSUME t \in Held PROVE env.src \in Online
    BY DEF Distinct
  <2>1. env.tasks # << >> BY NothingHeld DEF Held
  <2> QED BY <2>1 DEF Inv, InHand, EnvShape
<1>6. CASE S = {}
  <2>1. At(t) = NoCpu BY <1>3, <1>6 DEF find_first_bit
  <2> QED BY <1>1, <1>5, <1>6, <2>1, NoCpuOffline DEF Placed
<1>7. CASE S # {}
  <2>1. At(t) \in S BY <1>3, <1>4, <1>7, MinNat DEF find_first_bit
  <2>2. At(t) # NoCpu BY <1>1, <2>1, NoCpuOffline
  <2> HIDE DEF Placed
  <2>3. \A c \in Online : t \in Queued(c) <=> At(t) = c BY <1>1, <1>2, <2>1
  <2> QED BY <1>1, <1>5, <2>1, <2>2, <2>3 DEF Placed
<1> QED BY <1>6, <1>7

LEMMA PlacedNext == ASSUME NEW t \in Tasks PROVE (Inv /\ Distinct)' => Placed(t)'
<1>1. Inv /\ Distinct => Placed(t) BY PlacedNow
<1> QED BY <1>1, PTL

\* A task that is in the same queues as before is at the same place.
LEMMA PlacesFollow ==
    ASSUME NEW t \in Tasks, Placed(t), Placed(t)',
           \A c \in Online : t \in Queued(c) <=> t \in Queued(c)'
    PROVE  At(t)' = At(t)
BY DEF Placed

\* Each move is a step of Placement, or none.
LEMMA RestingPlaces ==
    ASSUME \A t \in Tasks : Placed(t) /\ Placed(t)', Rests
    PROVE  Places' = Places /\ Origins' = Origins
<1>1. \A t \in Tasks : At(t)' = At(t) BY PlacesFollow DEF Rests
<1>2. \A t \in Tasks : From(t)' = From(t) BY DEF Rests, From, Held
<1> QED BY <1>1, <1>2 DEF Places, Origins

LEMMA StartingPlaces ==
    ASSUME \A u \in Tasks : Placed(u) /\ Placed(u)', NEW t \in Tasks, NEW c \in Online,
           Starts(t, c)
    PROVE  /\ At(t) = NoCpu /\ \A u \in Tasks : From(u) = NoCpu
           /\ Places' = [Places EXCEPT ![t] = c] /\ Origins' = Origins
<1>1. At(t) = NoCpu BY DEF Placed, Starts, Woken, Queued
<1>2. At(t)' = c BY DEF Placed, Starts
<1>3. ASSUME NEW u \in Tasks \ {t} PROVE At(u)' = At(u)
  <2>1. \A d \in Online : u \in Queued(d) <=> u \in Queued(d)' BY DEF Starts
  <2> QED BY <2>1, PlacesFollow
<1>4. \A u \in Tasks : From(u) = NoCpu /\ From(u)' = NoCpu BY DEF Starts, From, Held
<1> QED BY <1>1, <1>2, <1>3, <1>4 DEF Places, Origins

LEMMA DetachingPlaces ==
    ASSUME \A u \in Tasks : Placed(u) /\ Placed(u)', NEW t \in Tasks, Detaches(t)
    PROVE  /\ At(t) = env.src /\ At(t) # NoCpu
           /\ \A u \in Tasks : From(u) # NoCpu => From(u) = env.src
           /\ Places' = [Places EXCEPT ![t] = NoCpu]
           /\ Origins' = [Origins EXCEPT ![t] = env.src]
<1>1. env.src \in Online /\ At(t) = env.src BY DEF Placed, Detaches
<1>2. At(t) # NoCpu BY <1>1, NoCpuOffline
<1>3. At(t)' = NoCpu
  <2>1. t \in Held' BY DEF Detaches
  <2> QED BY <2>1 DEF Placed
<1>4. ASSUME NEW u \in Tasks \ {t} PROVE At(u)' = At(u)
  <2>1. \A d \in Online : u \in Queued(d) <=> u \in Queued(d)' BY DEF Detaches
  <2> QED BY <2>1, PlacesFollow
<1>5. \A u \in Tasks : From(u)' = IF u = t THEN env.src ELSE From(u)
  BY DEF Detaches, From, Held
<1>6. \A u \in Tasks : From(u) # NoCpu => From(u) = env.src BY DEF From
<1>7. Places' = [Places EXCEPT ![t] = NoCpu] BY <1>3, <1>4 DEF Places
<1>8. Origins' = [Origins EXCEPT ![t] = env.src] BY <1>5 DEF Origins
<1> QED BY <1>1, <1>2, <1>6, <1>7, <1>8

LEMMA AttachingPlaces ==
    ASSUME \A u \in Tasks : Placed(u) /\ Placed(u)', Attaches
    PROVE  /\ \A t \in Held \cap Tasks : From(t) = env.src /\ From(t) # NoCpu
           /\ Places' = [t \in Tasks |-> IF t \in Held THEN env.dst ELSE Places[t]]
           /\ Origins' = [t \in Tasks |-> IF t \in Held THEN NoCpu ELSE Origins[t]]
<1>1. \A t \in Held \cap Tasks : From(t) = env.src /\ From(t) # NoCpu
  BY NoCpuOffline DEF From, Held, Placed
<1>2. ASSUME NEW t \in Tasks PROVE At(t)' = IF t \in Held THEN env.dst ELSE At(t)
  <2>1. CASE t \in Held BY <2>1 DEF Attaches, Placed
  <2>2. CASE t \notin Held
    <3>1. \A d \in Online : t \in Queued(d) <=> t \in Queued(d)' BY <2>2 DEF Attaches
    <3> QED BY <2>2, <3>1, PlacesFollow
  <2> QED BY <2>1, <2>2
<1>3. \A t \in Tasks : From(t)' = IF t \in Held THEN NoCpu ELSE From(t)
  BY DEF Attaches, From, Held
<1> QED BY <1>1, <1>2, <1>3 DEF Places, Origins

LEMMA MovesPlace ==
    ASSUME \A u \in Tasks : Placed(u) /\ Placed(u)', Moves, Held \subseteq Tasks
    PROVE  [P!Next]_(P!vars)
<1>1. CASE Rests
  <2>1. Places' = Places /\ Origins' = Origins BY <1>1, RestingPlaces
  <2> QED BY <2>1 DEF P!vars, Places, Origins, At, From, Moves
<1>2. ASSUME NEW t \in Tasks, NEW c \in Online, Starts(t, c) PROVE P!Start(t, c)
  <2>1. /\ At(t) = NoCpu /\ \A u \in Tasks : From(u) = NoCpu
        /\ Places' = [Places EXCEPT ![t] = c] /\ Origins' = Origins
    BY <1>2, StartingPlaces
  <2>2. c \in allowed[t] /\ allowed' = allowed BY <1>2 DEF Starts, Moves
  <2> QED BY <2>1, <2>2 DEF P!Start, P!InFlight, Places, Origins, At, From
<1>3. ASSUME NEW t \in Tasks, Detaches(t) PROVE P!Detach(t)
  <2>1. /\ At(t) = env.src /\ At(t) # NoCpu
        /\ \A u \in Tasks : From(u) # NoCpu => From(u) = env.src
        /\ Places' = [Places EXCEPT ![t] = NoCpu]
        /\ Origins' = [Origins EXCEPT ![t] = env.src]
    BY <1>3, DetachingPlaces
  <2> QED BY <2>1 DEF P!Detach, P!InFlight, Places, Origins, At, From, Moves
<1>4. CASE Attaches
  <2>1. PICK c \in Online : c = env.dst BY <1>4 DEF Attaches
  <2>2. /\ \A t \in Held : From(t) = env.src /\ From(t) # NoCpu
        /\ Places' = [t \in Tasks |-> IF t \in Held THEN c ELSE Places[t]]
        /\ Origins' = [t \in Tasks |-> IF t \in Held THEN NoCpu ELSE Origins[t]]
    BY <1>4, <2>1, AttachingPlaces
  <2>3. Held \subseteq P!InFlight BY <2>2 DEF P!InFlight, From
  <2>4. \A t \in Held : c \in allowed[t] \ {Origins[t]}
    BY <1>4, <2>1, <2>2 DEF Attaches, Origins
  <2>5. P!Attach(Held, c)
    BY <1>4, <2>2, <2>3, <2>4 DEF P!Attach, Places, Origins, At, From, Attaches, Moves
  <2> QED BY <2>5 DEF P!Next
<1>5. CASE \E t \in Tasks, c \in Online : Starts(t, c) BY <1>2, <1>5 DEF P!Next
<1>6. CASE \E t \in Tasks : Detaches(t) BY <1>3, <1>6 DEF P!Next
<1> QED BY <1>1, <1>4, <1>5, <1>6 DEF Moves

LEMMA InitPlaces == ASSUME Init PROVE P!Init /\ Distinct
<1>1. env.tasks = << >> /\ \A c \in Online : queue[c] = << >> BY DEF Init, NoEnv
<1>2. Held = {} /\ \A c \in Online : Queued(c) = {} BY <1>1, NothingHeld DEF Held, Queued
<1>3. Distinct BY <1>1, <1>2, NothingHeld DEF Distinct
<1>4. \A t \in Tasks : At(t) = NoCpu
  <2>1. \A t \in Tasks : InQueue(t) = {} BY <1>2 DEF InQueue, Queued
  <2> QED BY <2>1 DEF At, find_first_bit
<1>5. \A t \in Tasks : From(t) = NoCpu BY <1>2 DEF From, Held
<1>6. allowed \in [Tasks -> SUBSET Online] BY TaskAssumption DEF Init, Online
<1> QED BY <1>3, <1>4, <1>5, <1>6 DEF P!Init, At, From

\* With its retries for another CPU of the group and its redos without a queue,
\* and whatever it decides to pull, the balancer implements Placement: what
\* detach_tasks (sched.hpp) takes comes from one CPU, and attach_tasks puts all of
\* it on another, where it may run, before a task is woken; each task is in one
\* queue, once, or in the list between two.
THEOREM BalancerImplementsPlacement == Spec => ImplementsPlacement
<1>1. Init => P!Init /\ Inv /\ Walks /\ Distinct BY InitPlaces, InvInitially, InitWalks
<1>2. Inv /\ Walks /\ Distinct /\ [Next]_vars => (Inv /\ Walks /\ Distinct)'
  BY StepKeeps, StepWalks, StepMoves
<1>3. ASSUME Inv, Distinct, (Inv /\ Distinct)', Walks, [Next]_vars PROVE [P!Next]_(P!vars)
  <2>1. Moves BY <1>3, StepMoves
  <2>2. \A u \in Tasks : Placed(u) /\ Placed(u)' BY <1>3, PlacedNow, PlacedNext
  <2>3. Held \subseteq Tasks
    <3>1. env.tasks \in Seq(Tasks)
      <4>1. CASE pc = "detach"
        <5>1. env.tasks \in Seq(Fit(env.dst)) /\ Fit(env.dst) \subseteq Tasks
          BY <1>3, <4>1 DEF Inv, InHand, Fit
        <5> QED BY <5>1
      <4>2. CASE pc # "detach" BY <1>3, <4>2, NothingListed DEF Inv, InHand
      <4> QED BY <4>1, <4>2
    <3> QED BY <3>1 DEF Held, ToSet
  <2> QED BY <2>1, <2>2, <2>3, MovesPlace
<1>4. Spec => P!Spec BY <1>1, <1>2, <1>3, PTL DEF Spec, P!Spec
<1> QED BY <1>4 DEF ImplementsPlacement
=============================================================================
