-------------------------- MODULE RunQueueAccounts --------------------------
(***************************************************************************)
(* What the run queues keep account of besides the queues themselves, for  *)
(* any CPUs, tasks, weights and bounds: where a task is while it migrates  *)
(* (the refinement of Placement), where its load is attached, and how far  *)
(* its vruntime is ahead.  The last part is about the timelines they hold  *)
(* their tasks in.                                                         *)
(*                                                                         *)
(* Every part adds its own clauses to the invariant Settled, and has a     *)
(* lemma per operator: Untouched and Posts say what an operator does to    *)
(* the ledger of the loads, Steady, Keeps and Picks what it does to the    *)
(* vruntimes.                                                              *)
(***************************************************************************)
EXTENDS RunQueueProofs

-----------------------------------------------------------------------------
(* The refinement of Placement.                                            *)

\* The values RunQueue gives the variables of Placement.
At(t)   == IF QueuedOn(t) = {} THEN NULL ELSE CHOOSE c \in QueuedOn(t) : TRUE
\* The CPU that a task in flight comes from.
From(t) == IF t \in ToSet(env.tasks) THEN env.src ELSE NULL
\* Both for all tasks: the variables of Placement.
Places  == [t \in Tasks |-> At(t)]
Origins == [t \in Tasks |-> From(t)]

\* A task is in the list of one CPU, or of none; one in flight is in none.
LEMMA PlaceOfTask ==
    ASSUME Settled, NEW t \in Tasks
    PROVE  /\ \A c \in CPUs : t \in Listed(Memory, c) <=> At(t) = c
           /\ (\A c \in CPUs : t \notin Listed(Memory, c)) <=> At(t) = NULL
           /\ At(t) \in CPUs \cup {NULL}
           /\ From(t) # NULL => At(t) = NULL
           /\ (At(t) # NULL) <=> se[t].task_on_rq = 1
<1> DEFINE S == QueuedOn(t)
<1>1. S = {c \in CPUs : t \in Listed(Memory, c)}
  BY DEF QueuedOn, Queued, Listed, Memory
<1>2. \A c, d \in S : c = d
  BY <1>1 DEF Settled, Sound, Shape, Accounted
<1>3. NULL \notin CPUs BY IdleAssumption
<1>4. se[t].task_on_rq = 1 <=> S # {}
  BY <1>1 DEF Settled, Sound, Shape, Accounted, TasksOnRq, Memory
<1>5. At(t) = IF S = {} THEN NULL ELSE CHOOSE c \in S : TRUE BY DEF At
<1> HIDE DEF S
<1>6. CASE S = {}
  <2>1. At(t) = NULL /\ \A c \in CPUs : t \notin Listed(Memory, c) BY <1>1, <1>5, <1>6
  <2> QED BY <1>3, <1>4, <1>6, <2>1
<1>7. CASE S # {}
  <2>1. At(t) \in S BY <1>5, <1>7
  <2>2. At(t) \in CPUs /\ \A c \in CPUs : t \in Listed(Memory, c) <=> At(t) = c
    BY <1>1, <1>2, <2>1
  <2>3. t \notin ToSet(env.tasks) BY <1>4, <1>7 DEF Settled, Flight
  <2> QED BY <1>3, <1>4, <1>7, <2>2, <2>3 DEF From
<1> QED BY <1>6, <1>7

\* A task that is in flight comes from a CPU, and all come from the same one.
LEMMA OriginOfTask ==
    ASSUME Settled, NEW t \in Tasks, t \in ToSet(env.tasks)
    PROVE  env.src \in CPUs /\ From(t) = env.src /\ From(t) # NULL
<1>1. env.tasks \in Seq(Tasks) BY DEF Settled, IInv, EnvOK, EnvType
<1>2. env.tasks # << >> BY DEF ToSet
<1>3. env.src \in CPUs BY <1>2 DEF Settled, Phased, IInv, EnvOK
<1> QED BY <1>3, IdleAssumption DEF From

\* What both say, before and after a step.
Placed(t) ==
    /\ \A c \in CPUs : t \in Listed(Memory, c) <=> At(t) = c
    /\ (\A c \in CPUs : t \notin Listed(Memory, c)) <=> At(t) = NULL
    /\ At(t) \in CPUs \cup {NULL}
    /\ From(t) # NULL => At(t) = NULL
    /\ (At(t) # NULL) <=> se[t].task_on_rq = 1
    /\ t \in ToSet(env.tasks) => env.src \in CPUs

\* It holds of every task, now and in the next state.
LEMMA PlacedNow == ASSUME NEW t \in Tasks PROVE Settled => Placed(t)
<1> SUFFICES ASSUME Settled PROVE Placed(t) OBVIOUS
<1>1. t \in ToSet(env.tasks) => env.src \in CPUs BY OriginOfTask
<1> QED BY <1>1, PlaceOfTask DEF Placed

LEMMA PlacedNext == ASSUME NEW t \in Tasks PROVE Settled' => Placed(t)'
<1>1. Settled => Placed(t) BY PlacedNow
<1> QED BY <1>1, PTL

\* A task that is in the same lists as before is at the same place.
LEMMA PlacesFollow ==
    ASSUME Settled, Settled', NEW t \in Tasks,
           \A c \in CPUs : t \in Listed(Memory, c) <=> t \in Listed(Memory', c)
    PROVE  At(t)' = At(t)
<1>1. Placed(t) /\ Placed(t)' BY PlacedNow, PlacedNext
<1>2. /\ \A c \in CPUs : t \in Listed(Memory', c) <=> At(t)' = c
      /\ At(t)' \in CPUs \cup {NULL}
  BY <1>1 DEF Placed
<1> QED BY <1>1, <1>2 DEF Placed

\* A step that leaves the tasks alone changes no place.
LEMMA RestingPlaces ==
    ASSUME Settled, Settled', Rests
    PROVE  Places' = Places /\ Origins' = Origins
<1>1. \A t \in Tasks : At(t)' = At(t) BY PlacesFollow DEF Rests, Stays
<1>2. ASSUME NEW t \in Tasks PROVE From(t)' = From(t)
  <2>1. CASE env.tasks = << >> /\ env'.tasks = << >> BY <2>1 DEF From, ToSet
  <2>2. CASE env'.tasks = env.tasks /\ env'.src = env.src BY <2>2 DEF From
  <2> QED BY <2>1, <2>2 DEF Rests
<1> QED BY <1>1, <1>2 DEF Places, Origins

\* A started task was nowhere, and nothing is in flight.
LEMMA StartingPlaces ==
    ASSUME Settled, Settled', NEW t \in Tasks, NEW c \in CPUs, Starts(t, c)
    PROVE  /\ At(t) = NULL /\ \A u \in Tasks : From(u) = NULL
           /\ Places' = [Places EXCEPT ![t] = c] /\ Origins' = Origins
<1>1. Placed(t) /\ Placed(t)' BY PlacedNow, PlacedNext
<1>2. At(t) = NULL BY <1>1 DEF Placed, Starts
<1>3. t \in Listed(Memory', c) BY DEF Starts, Arrived
<1>4. At(t)' = c BY <1>1, <1>3 DEF Placed
<1>5. ASSUME NEW u \in Tasks \ {t} PROVE At(u)' = At(u)
  <2>1. \A d \in CPUs : u \in Listed(Memory, d) <=> u \in Listed(Memory', d)
    BY <1>5 DEF Starts, Arrived
  <2> QED BY <2>1, PlacesFollow
<1>6. \A u \in Tasks : From(u) = NULL /\ From(u)' = NULL BY DEF Starts, From, ToSet
<1> QED BY <1>2, <1>4, <1>5, <1>6 DEF Places, Origins

\* A detached task comes from the CPU that all in flight come from.
LEMMA DetachingPlaces ==
    ASSUME Settled, Settled', NEW t \in Tasks, Detaches(t)
    PROVE  /\ At(t) = env.src /\ At(t) # NULL
           /\ \A u \in Tasks : From(u) # NULL => From(u) = env.src
           /\ Places' = [Places EXCEPT ![t] = NULL]
           /\ Origins' = [Origins EXCEPT ![t] = env.src]
<1>1. Placed(t) /\ Placed(t)' BY PlacedNow, PlacedNext
<1>2. env.src \in CPUs /\ At(t) = env.src BY <1>1 DEF Placed, Detaches
<1>3. At(t) # NULL BY <1>2, IdleAssumption
<1>4. se'[t].task_on_rq = 2 BY DEF Detaches, Departed, Memory
<1>5. At(t)' = NULL BY <1>1, <1>4 DEF Placed
<1>6. ASSUME NEW u \in Tasks \ {t} PROVE At(u)' = At(u)
  <2>1. \A d \in CPUs : u \in Listed(Memory, d) <=> u \in Listed(Memory', d)
    BY <1>6 DEF Detaches, Departed
  <2> QED BY <2>1, PlacesFollow
<1>7. env.tasks \in Seq(Tasks) BY DEF Settled, IInv, EnvOK, EnvType
<1>8. t \notin ToSet(env.tasks) BY <1>1, <1>3 DEF Placed, Settled, Flight
<1>9. ToSet(env'.tasks) = ToSet(env.tasks) \cup {t}
  BY <1>7, <1>8, ConsElements DEF Detaches, Settled, Flight
<1>10. \A u \in Tasks : From(u)' = IF u = t THEN env.src ELSE From(u)
  BY <1>9 DEF From, Detaches
<1>11. \A u \in Tasks : From(u) # NULL => From(u) = env.src BY DEF From
<1>12. Places' = [Places EXCEPT ![t] = NULL] BY <1>5, <1>6 DEF Places
<1>13. Origins' = [Origins EXCEPT ![t] = env.src] BY <1>10 DEF Origins
<1> QED BY <1>2, <1>3, <1>11, <1>12, <1>13

\* An attached task was in flight, and lands on another CPU than its own.
LEMMA AttachingPlaces ==
    ASSUME Settled, Settled', NEW t \in Tasks, Attaches(t)
    PROVE  /\ From(t) # NULL /\ env.dst \in CPUs \ {From(t)}
           /\ Places' = [Places EXCEPT ![t] = env.dst]
           /\ Origins' = [Origins EXCEPT ![t] = NULL]
<1>1. Placed(t) /\ Placed(t)' BY PlacedNow, PlacedNext
<1>2. env.tasks \in Seq(Tasks) BY DEF Settled, IInv, EnvOK, EnvType
<1>3. ToSet(env'.tasks) = ToSet(env.tasks) \ {t} /\ t \in ToSet(env.tasks)
  BY <1>2, TailElements DEF Attaches, Settled, Flight
<1>4. From(t) = env.src /\ From(t) # NULL BY <1>3, OriginOfTask
<1>5. env.dst \in CPUs \ {env.src} BY DEF Attaches
<1>6. t \in Listed(Memory', env.dst) BY DEF Attaches, Arrived
<1>7. At(t)' = env.dst BY <1>1, <1>5, <1>6 DEF Placed
<1>8. ASSUME NEW u \in Tasks \ {t} PROVE At(u)' = At(u)
  <2>1. \A d \in CPUs : u \in Listed(Memory, d) <=> u \in Listed(Memory', d)
    BY <1>8 DEF Attaches, Arrived
  <2> QED BY <2>1, PlacesFollow
<1>9. \A u \in Tasks : From(u)' = IF u = t THEN NULL ELSE From(u)
  BY <1>3 DEF From, Attaches
<1> QED BY <1>4, <1>5, <1>7, <1>8, <1>9 DEF Places, Origins

\* Each move is a step of Placement, or none.
LEMMA MovesPlace ==
    ASSUME Settled, Settled', Moves
    PROVE  [P!Next]_(P!vars)
<1>1. CASE Rests
  <2>1. Places' = Places /\ Origins' = Origins BY <1>1, RestingPlaces
  <2> QED BY <2>1 DEF P!vars, Places, Origins, At, From
<1>2. ASSUME NEW t \in Tasks, NEW c \in CPUs, Starts(t, c) PROVE P!Start(t, c)
  <2>1. /\ At(t) = NULL /\ \A u \in Tasks : From(u) = NULL
        /\ Places' = [Places EXCEPT ![t] = c] /\ Origins' = Origins
    BY <1>2, StartingPlaces
  <2> QED BY <2>1 DEF P!Start, P!InFlight, Places, Origins, At, From
<1>3. ASSUME NEW t \in Tasks, Detaches(t) PROVE P!Detach(t)
  <2>1. /\ At(t) = env.src /\ At(t) # NULL
        /\ \A u \in Tasks : From(u) # NULL => From(u) = env.src
        /\ Places' = [Places EXCEPT ![t] = NULL]
        /\ Origins' = [Origins EXCEPT ![t] = env.src]
    BY <1>3, DetachingPlaces
  <2> QED BY <2>1 DEF P!Detach, P!InFlight, Places, Origins, At, From
<1>4. ASSUME NEW t \in Tasks, NEW dst \in CPUs, dst = env.dst, Attaches(t)
      PROVE  P!Attach({t}, dst)
  <2>1. /\ From(t) # NULL /\ dst \in CPUs \ {From(t)}
        /\ Places' = [Places EXCEPT ![t] = dst]
        /\ Origins' = [Origins EXCEPT ![t] = NULL]
    BY <1>4, AttachingPlaces
  <2>2. Places' = [u \in Tasks |-> IF u \in {t} THEN dst ELSE Places[u]]
    BY <2>1 DEF Places
  <2>3. Origins' = [u \in Tasks |-> IF u \in {t} THEN NULL ELSE Origins[u]]
    BY <2>1 DEF Origins
  <2>4. {t} \subseteq P!InFlight BY <2>1 DEF P!InFlight, From
  <2>5. \A u \in {t} : dst \in [v \in Tasks |-> CPUs][u] \ {Origins[u]}
    BY <2>1 DEF Origins
  <2> QED BY <2>2, <2>3, <2>4, <2>5 DEF P!Attach, Places, Origins, At, From
<1>5. CASE \E t \in Tasks, c \in CPUs : Starts(t, c) BY <1>2, <1>5 DEF P!Next
<1>6. CASE \E t \in Tasks : Detaches(t) BY <1>3, <1>6 DEF P!Next
<1>7. CASE \E t \in Tasks : Attaches(t)
  <2>1. PICK t \in Tasks : Attaches(t) BY <1>7
  <2>2. PICK dst \in CPUs : dst = env.dst BY <2>1 DEF Attaches
  <2>3. {t} \in SUBSET Tasks /\ P!Attach({t}, dst) BY <1>4, <2>1, <2>2
  <2> QED BY <2>3 DEF P!Next
<1> QED BY <1>1, <1>5, <1>6, <1>7 DEF Moves

\* At the start nobody is anywhere.
LEMMA InitPlaces == ASSUME Settled, Init PROVE P!Init
<1>1. \A t \in Tasks : Placed(t) BY PlacedNow
<1>2. \A t \in Tasks : se[t].task_on_rq = 0 BY DEF Init, NewEntity, Entities
<1>3. \A t \in Tasks : At(t) = NULL BY <1>1, <1>2 DEF Placed
<1>4. \A t \in Tasks : From(t) = NULL BY DEF Init, NoEnv, From, ToSet
<1>5. [t \in Tasks |-> CPUs] \in [Tasks -> SUBSET CPUs] OBVIOUS
<1> QED BY <1>3, <1>4, <1>5 DEF P!Init, At, From

\* Whatever the balancer chooses and however deep the handlers schedule, a task
\* that is not in flight is in one queue, one that detach_task (sched.hpp) took
\* comes from the CPU that all in flight come from, and attach_task puts it into
\* the queue of another CPU before any task is woken: the queues implement
\* Placement.
THEOREM QueuesImplementPlacement ==
    ASSUME TimelineContract, MemberContract PROVE Spec => ImplementsPlacement
<1>1. Settled /\ Init => P!Init BY InitPlaces
<1>2. Settled /\ Settled' /\ [Next]_vars => [P!Next]_(P!vars)
  <2>1. ASSUME Settled, Settled', Next PROVE [P!Next]_(P!vars)
    BY <2>1, StepMoves, MovesPlace
  <2>2. ASSUME UNCHANGED vars PROVE UNCHANGED P!vars
    BY <2>2 DEF P!vars, vars, QueuedOn, Queued
  <2> QED BY <2>1, <2>2
<1>3. Spec => P!Spec BY <1>1, <1>2, SettledAlways, PTL DEF Spec, P!Spec
<1> QED BY <1>3 DEF ImplementsPlacement

\* The ordered timelines that MCRunQueue and its configurations put in also keep
\* the contract on members: the theorems above hold for the checked model.
THEOREM OrderedTimelinesKeepMembers ==
    ASSUME ProperTimelines = {timeline \in [CPUs -> Seq(Tasks)] :
                                 \A c \in CPUs : IsInjective(timeline[c])},
           TLInit = OrderedInit(CPUs),
           \A timeline, c, e, key :
             TLInsert(timeline, c, e, key) = OrderedInsert(timeline, c, e, key),
           \A timeline, c, e : TLErase(timeline, c, e) = OrderedErase(timeline, c, e),
           \A timeline, c : TLFirst(timeline, c) = OrderedFirst(timeline, c, NULL),
           \A timeline, c : TLWalk(timeline, c) = OrderedWalk(timeline, c),
           \A timeline, c : TLMembers(timeline, c) = OrderedMembers(timeline, c),
           \A timeline : TLFault(timeline) = OrderedFault(timeline)
    PROVE  MemberContract
<1>1. TLInit \in ProperTimelines /\ \A c \in CPUs : TLMembers(TLInit, c) = {}
  <2>1. \A c \in CPUs : TLInit[c] = << >> BY DEF OrderedInit
  <2>2. TLInit \in [CPUs -> Seq(Tasks)]
    <3>1. << >> \in Seq(Tasks) OBVIOUS
    <3> QED BY <3>1 DEF OrderedInit
  <2>3. \A c \in CPUs : IsInjective(TLInit[c]) BY <2>1 DEF IsInjective
  <2>4. ASSUME NEW c \in CPUs PROVE OrderedMembers(TLInit, c) = {}
    <3>1. Len(TLInit[c]) = 0 BY <2>1
    <3> QED BY <3>1 DEF OrderedMembers
  <2> QED BY <2>2, <2>3, <2>4
<1>2. ASSUME NEW f \in ProperTimelines, NEW r, NEW c \in CPUs, NEW members,
             r \in [CPUs -> Seq(Tasks)], OrderedMembers(r, c) = members,
             \A d \in CPUs \ {c} : r[d] = f[d], IsInjective(r[c])
      PROVE  Becomes(f, r, c, members)
  <2>1. r \in ProperTimelines BY <1>2
  <2>2. \A d \in CPUs \ {c} : OrderedMembers(r, d) = OrderedMembers(f, d)
    BY <1>2 DEF OrderedMembers
  <2> QED BY <1>2, <2>1, <2>2 DEF Becomes
<1>3. ASSUME NEW f \in ProperTimelines, NEW c \in CPUs,
             NEW t \in Tasks \ TLMembers(f, c), NEW key
      PROVE  Becomes(f, TLInsert(f, c, t, key), c, TLMembers(f, c) \cup {t})
  <2>1. f \in [CPUs -> Seq(Tasks)] /\ IsInjective(f[c]) /\ t \notin OrderedMembers(f, c)
    BY <1>3
  <2>2. OrderedInsert(f, c, t, key) \in [CPUs -> Seq(Tasks)] BY <2>1, OrderedInsertType
  <2>3. LET r == OrderedInsert(f, c, t, key)
        IN  /\ OrderedMembers(r, c) = OrderedMembers(f, c) \cup {t}
            /\ \A d \in CPUs \ {c} : r[d] = f[d]
            /\ IsInjective(r[c])
    BY <2>1, InsertMembers
  <2> QED BY <1>2, <2>2, <2>3
<1>4. ASSUME NEW f \in ProperTimelines, NEW c \in CPUs, NEW t \in TLMembers(f, c)
      PROVE  Becomes(f, TLErase(f, c, t), c, TLMembers(f, c) \ {t})
  <2>1. f \in [CPUs -> Seq(Tasks)] /\ IsInjective(f[c]) /\ t \in OrderedMembers(f, c)
    BY <1>4
  <2>2. OrderedErase(f, c, t) \in [CPUs -> Seq(Tasks)] BY <2>1, OrderedEraseType
  <2>3. LET r == OrderedErase(f, c, t)
        IN  /\ OrderedMembers(r, c) = OrderedMembers(f, c) \ {t}
            /\ \A d \in CPUs \ {c} : r[d] = f[d]
            /\ IsInjective(r[c])
    BY <2>1, EraseMembers
  <2> QED BY <1>2, <2>2, <2>3
<1>5. ASSUME NEW f \in ProperTimelines, NEW c \in CPUs
      PROVE  /\ Becomes(f, TLWalk(f, c), c, TLMembers(f, c))
             /\ IF TLMembers(f, c) = {} THEN TLFirst(f, c) = NULL
                ELSE TLFirst(f, c) \in TLMembers(f, c)
  <2>1. TLWalk(f, c) = f BY DEF OrderedWalk
  <2>2. Becomes(f, f, c, TLMembers(f, c)) BY <1>2, <1>5
  <2>3. f[c] \in Seq(Tasks) BY <1>5
  <2>4. CASE f[c] = << >>
    <3>1. Len(f[c]) = 0 BY <2>4
    <3>2. OrderedMembers(f, c) = {} BY <3>1 DEF OrderedMembers
    <3>3. OrderedFirst(f, c, NULL) = NULL BY <2>4 DEF OrderedFirst
    <3> QED BY <2>1, <2>2, <3>2, <3>3
  <2>5. CASE f[c] # << >>
    <3>1. 1 \in 1 .. Len(f[c]) BY <2>3, <2>5
    <3>2. OrderedFirst(f, c, NULL) = f[c][1] BY <2>3, <2>5 DEF OrderedFirst
    <3>3. OrderedFirst(f, c, NULL) \in OrderedMembers(f, c)
      BY <3>1, <3>2 DEF OrderedMembers
    <3> QED BY <2>1, <2>2, <3>3
  <2> QED BY <2>4, <2>5
<1> QED BY <1>1, <1>3, <1>4, <1>5 DEF MemberContract

-----------------------------------------------------------------------------
(* The ledger: in which queues the load of a task is attached, and whether *)
(* the task has a last_update_time.                                        *)

\* What is attached in each queue beyond the load that p->cpu accounts for.
Off(s, t) ==
    [c \in CPUs |-> s.cfs[c].attached[t]
                       - One(s.se[t].last_update = 1 /\ s.se[t].cpu = c)]

\* All the ledger knows of t.
Entry(s, t) ==
    [last_update |-> s.se[t].last_update, task_on_rq |-> s.se[t].task_on_rq,
     cpu |-> s.se[t].cpu, off |-> Off(s, t)]

\* An entry after the task has come to the queue of c, after set_task_cpu,
\* and with another task_on_rq or p->cpu.
Landed(e, c) ==
    IF e.last_update = 1 THEN e
    ELSE [last_update |-> 1, task_on_rq |-> e.task_on_rq, cpu |-> e.cpu,
          off |-> [d \in CPUs |-> e.off[d] + One(c = d) - One(e.cpu = d)]]
Sent(e, dst) ==
    [last_update |-> IF e.cpu = dst THEN 1 ELSE 0, task_on_rq |-> e.task_on_rq,
     cpu |-> dst, off |-> e.off]
Marked(e, k) ==
    [last_update |-> e.last_update, task_on_rq |-> k, cpu |-> e.cpu, off |-> e.off]
Named(e, c) ==
    [last_update |-> e.last_update, task_on_rq |-> e.task_on_rq, cpu |-> c, off |-> e.off]

\* An operator that does not write the ledger, nor moves a task.
Untouched(s, r) ==
    /\ \A c \in CPUs : r.cfs[c].attached = s.cfs[c].attached
    /\ \A t \in Tasks : /\ r.se[t].last_update = s.se[t].last_update
                        /\ r.se[t].task_on_rq = s.se[t].task_on_rq
                        /\ r.se[t].cpu = s.se[t].cpu

\* An operator that writes the entry of one task.
Posts(s, r, t, e) ==
    /\ \A u \in Tasks \ {t} : Entry(r, u) = Entry(s, u)
    /\ Entry(r, t) = e

\* Composition of the two kinds of operators.
LEMMA UntouchedTrans ==
    ASSUME NEW s, NEW q, NEW r, Untouched(s, q), Untouched(q, r)
    PROVE  Untouched(s, r)
BY DEF Untouched

LEMMA UntouchedRefl == ASSUME NEW s PROVE Untouched(s, s)
BY DEF Untouched

\* What is not touched keeps its entry.
LEMMA UntouchedEntry ==
    ASSUME NEW s, NEW r, Untouched(s, r), NEW t \in Tasks
    PROVE  Entry(r, t) = Entry(s, t)
<1>1. Off(r, t) = Off(s, t) BY DEF Off, Untouched
<1> QED BY <1>1 DEF Entry, Untouched

\* As above.
LEMMA UntouchedThenPosts ==
    ASSUME NEW s, NEW q, NEW r, NEW t \in Tasks, NEW e,
           Untouched(s, q), Posts(q, r, t, e)
    PROVE  Posts(s, r, t, e)
<1>1. \A u \in Tasks : Entry(q, u) = Entry(s, u) BY UntouchedEntry
<1> QED BY <1>1 DEF Posts

LEMMA PostsThenUntouched ==
    ASSUME NEW s, NEW q, NEW r, NEW t \in Tasks, NEW e,
           Posts(s, q, t, e), Untouched(q, r)
    PROVE  Posts(s, r, t, e)
<1>1. \A u \in Tasks : Entry(r, u) = Entry(q, u) BY UntouchedEntry
<1> QED BY <1>1 DEF Posts

LEMMA PostsTwice ==
    ASSUME NEW s, NEW q, NEW r, NEW t \in Tasks, NEW d, NEW e,
           Posts(s, q, t, d), Posts(q, r, t, e)
    PROVE  Posts(s, r, t, e)
BY DEF Posts

\* Whoever else the ledger is about keeps his entry.
LEMMA OtherEntry ==
    ASSUME NEW s, NEW r, NEW u \in Tasks,
           \A d \in CPUs : r.cfs[d].attached[u] = s.cfs[d].attached[u],
           /\ r.se[u].last_update = s.se[u].last_update
           /\ r.se[u].task_on_rq = s.se[u].task_on_rq
           /\ r.se[u].cpu = s.se[u].cpu
    PROVE  Entry(r, u) = Entry(s, u)
<1>1. Off(r, u) = Off(s, u) BY DEF Off
<1> QED BY <1>1 DEF Entry

-----------------------------------------------------------------------------
(* class cfs_rq.                                                           *)

LEMMA VruntimeUntouched ==
    ASSUME NEW s \in Images, NEW t \in Entities, NEW v
    PROVE  Untouched(s, update_vruntime(s, t, v))
BY DEF Untouched, update_vruntime, Images, SeImages, SeType, Entities

\* One other field of an entity or of a fair queue is written.
LEMMA FieldUntouched ==
    ASSUME NEW s \in Images, NEW c \in CPUs, NEW t \in Entities, NEW x
    PROVE  /\ Untouched(s, [s EXCEPT !.se[t].on_rq = x])
           /\ Untouched(s, [s EXCEPT !.se[t].vruntime = x])
           /\ Untouched(s, [s EXCEPT !.se[t].RESCHED = x])
           /\ Untouched(s, [s EXCEPT !.cfs[c].curr = x])
           /\ Untouched(s, [s EXCEPT !.cfs[c].next = x])
BY DEF Untouched, Images, SeImages, SeType, CfsType, Entities

\* What charges the running task does not write the ledger,
LEMMA MinVruntimeUntouched ==
    ASSUME NEW s \in Images, NEW c \in CPUs
    PROVE  Untouched(s, update_min_vruntime(s, c))
<1>1. PICK m, e : update_min_vruntime(s, c) = [s EXCEPT !.cfs[c].min_vruntime = m,
                                                        !.cfs[c].curr = e]
  BY DEF update_min_vruntime
<1> QED BY <1>1 DEF Untouched, Images, CfsType

LEMMA CurrUntouched ==
    ASSUME TimelineContract, jiffies \in Nat, NEW s \in Images, NEW c \in CPUs
    PROVE  Untouched(s, update_curr(s, c))
<1>1. update_curr(s, c) = s
        \/ /\ s.cfs[c].curr # NULL
           /\ update_curr(s, c) = update_min_vruntime(Charged(s, c), c)
  BY DEF update_curr, Charged
<1>2. ASSUME s.cfs[c].curr # NULL
      PROVE  Untouched(s, update_min_vruntime(Charged(s, c), c))
  <2> DEFINE r == Charged(s, c)
  <2>1. r \in Images BY <1>2, ChargeCurr DEF Advances
  <2>2. Untouched(s, r)
    <3>1. s.cfs[c].curr \in Entities BY <1>2 DEF Images, CfsType, Entities
    <3>2. PICK e, w, x, v :
            /\ e \in Entities
            /\ r = update_vruntime([s EXCEPT !.se[e].exec_start = w,
                                             !.se[e].sum_exec_runtime = x], e, v)
      BY <3>1 DEF Charged
    <3> HIDE DEF r
    <3> QED BY <3>2 DEF update_vruntime, Untouched, Images, SeImages, SeType, Entities
  <2> HIDE DEF r
  <2>3. Untouched(r, update_min_vruntime(r, c)) BY <2>1, MinVruntimeUntouched
  <2> QED BY <2>2, <2>3, UntouchedTrans DEF r
<1> QED BY <1>1, <1>2, UntouchedRefl

\* The trees hold no load.
LEMMA TreesUntouched ==
    ASSUME NEW s \in Images, NEW c, NEW e
    PROVE  /\ Untouched(s, __enqueue_entity(s, c, e))
           /\ Untouched(s, __dequeue_entity(s, c, e))
           /\ Untouched(s, debug_tasktimeline(s, c))
           /\ Untouched(s, Crash(s))
<1>1. \A timeline : Untouched(s, TreeOp(s, timeline)) BY DEF Untouched, TreeOp, Images
<1>2. Untouched(s, Crash(s)) BY DEF Untouched, Crash, Images
<1> QED BY <1>1, <1>2, UntouchedRefl
    DEF __enqueue_entity, __dequeue_entity, debug_tasktimeline

\* attach_entity_load_avg posts a task that has no load anywhere.
LEMMA AttachPosts ==
    ASSUME jiffies \in Nat, jiffies > 0,
           NEW s \in Images, NEW c \in CPUs, NEW t \in Tasks, s.se[t].last_update = 0
    PROVE  Posts(s, attach_entity_load_avg(s, c, t), t, Landed(Entry(s, t), c))
<1> DEFINE r == attach_entity_load_avg(s, c, t)
<1>1. t \in Entities BY DEF Entities
<1>2. /\ r.se[t].last_update = 1 /\ r.se[t].task_on_rq = s.se[t].task_on_rq
      /\ r.se[t].cpu = s.se[t].cpu
      /\ r.cfs[c].attached[t] = s.cfs[c].attached[t] + 1
      /\ \A d \in CPUs \ {c} : r.cfs[d].attached = s.cfs[d].attached
      /\ \A u \in Tasks \ {t} : r.cfs[c].attached[u] = s.cfs[c].attached[u]
      /\ \A u \in Tasks \ {t} : r.se[u] = s.se[u]
  BY <1>1 DEF attach_entity_load_avg, Images, SeImages, SeType, CfsType, Entities
<1>3. \A d \in CPUs : s.cfs[d].attached[t] \in Int BY DEF Images, CfsType
<1> HIDE DEF r
<1>4. Off(r, t) = [d \in CPUs |-> Off(s, t)[d] + One(c = d) - One(s.se[t].cpu = d)]
  <2>1. ASSUME NEW d \in CPUs
        PROVE  Off(r, t)[d] = Off(s, t)[d] + One(c = d) - One(s.se[t].cpu = d)
    <3>1. Off(s, t)[d] = s.cfs[d].attached[t] BY <1>3 DEF Off, One
    <3>2. Off(r, t)[d] = r.cfs[d].attached[t] - One(s.se[t].cpu = d)
      BY <1>2 DEF Off
    <3>3. r.cfs[d].attached[t] = s.cfs[d].attached[t] + One(c = d)
      <4>1. CASE d = c BY <1>2, <4>1 DEF One
      <4>2. CASE d # c BY <1>2, <1>3, <4>2 DEF One
      <4> QED BY <4>1, <4>2
    <3> QED BY <1>3, <3>1, <3>2, <3>3 DEF One
  <2> QED BY <2>1 DEF Off
<1>5. Entry(r, t) = Landed(Entry(s, t), c)
  <2> DEFINE e == Entry(s, t)
  <2>1. /\ e.off = Off(s, t) /\ e.cpu = s.se[t].cpu /\ e.last_update = 0
        /\ e.task_on_rq = s.se[t].task_on_rq
    BY DEF Entry
  <2> HIDE DEF e
  <2>2. Off(r, t) = [d \in CPUs |-> e.off[d] + One(c = d) - One(e.cpu = d)]
    BY <1>4, <2>1
  <2>3. Landed(e, c) = [last_update |-> 1, task_on_rq |-> e.task_on_rq, cpu |-> e.cpu,
                        off |-> Off(r, t)]
    BY <2>1, <2>2 DEF Landed
  <2> QED BY <1>2, <2>1, <2>3 DEF Entry, e
<1>6. ASSUME NEW u \in Tasks \ {t} PROVE Entry(r, u) = Entry(s, u)
  <2>1. \A d \in CPUs : r.cfs[d].attached[u] = s.cfs[d].attached[u] BY <1>2
  <2> QED BY <1>2, <2>1, OtherEntry
<1> QED BY <1>5, <1>6 DEF Posts, r

\* update_load_avg attaches a load that has no last_update_time.
LEMMA LoadPosts ==
    ASSUME jiffies \in Nat, jiffies > 0,
           NEW s \in Images, NEW c \in CPUs, NEW t \in Tasks
    PROVE  Posts(s, update_load_avg(s, c, t), t, Landed(Entry(s, t), c))
<1>1. s.se[t].last_update \in {0, 1} BY DEF Images, SeImages, SeType, Bit, Entities
<1>2. CASE s.se[t].last_update = 0 BY <1>2, AttachPosts DEF update_load_avg
<1>3. CASE s.se[t].last_update = 1
  BY <1>3 DEF update_load_avg, Posts, Landed, Entry
<1> QED BY <1>1, <1>2, <1>3

\* The accounting of weights and counts does not write it.
LEMMA AccountUntouched ==
    ASSUME NEW s \in Images, NEW c \in CPUs, NEW t
    PROVE  /\ Untouched(s, account_entity_enqueue(s, c, t))
           /\ Untouched(s, account_entity_dequeue(s, c, t))
           /\ Untouched(s, clear_buddies(s, c, t))
           /\ Untouched(s, move_to_front_cfs_tasks(s, c, t))
<1>1. Untouched(s, account_entity_enqueue(s, c, t))
  BY DEF Untouched, account_entity_enqueue, Images, CfsType
<1>2. Untouched(s, account_entity_dequeue(s, c, t))
  BY DEF Untouched, account_entity_dequeue, Images, CfsType
<1>3. Untouched(s, clear_buddies(s, c, t))
  BY DEF Untouched, clear_buddies, Images, CfsType
<1>4. Untouched(s, move_to_front_cfs_tasks(s, c, t))
  BY DEF Untouched, move_to_front_cfs_tasks, Images, CfsType
<1> QED BY <1>1, <1>2, <1>3, <1>4

\* A task that comes to a queue has a load there.
LEMMA EnqueuePosts ==
    ASSUME TimelineContract, jiffies \in Nat, jiffies > 0,
           NEW s \in Images, NEW c \in CPUs, NEW t \in Tasks
    PROVE  Posts(s, enqueue_entity(s, c, t), t, Landed(Entry(s, t), c))
<1> DEFINE if_curr == s.cfs[c].curr = t
           renorm(x) == update_vruntime(x, t, x.se[t].vruntime + x.cfs[c].min_vruntime)
           s0 == IF if_curr THEN renorm(s) ELSE s
           s1 == update_curr(s0, c)
           r1 == IF if_curr THEN s1 ELSE renorm(s1)
           s2 == update_load_avg(r1, c, t)
           s3 == account_entity_enqueue(s2, c, t)
           s4 == IF if_curr THEN s3 ELSE __enqueue_entity(s3, c, t)
           s5 == [s4 EXCEPT !.se[t].on_rq = 1]
           r  == debug_tasktimeline(s5, c)
<1>1. enqueue_entity(s, c, t) = r BY DEF enqueue_entity
<1>2. t \in Entities BY DEF Entities
<1>3. \A x \in Images : renorm(x) \in Images /\ Untouched(x, renorm(x))
  <2> SUFFICES ASSUME NEW x \in Images
               PROVE  renorm(x) \in Images /\ Untouched(x, renorm(x))
    OBVIOUS
  <2>1. x.se[t].vruntime + x.cfs[c].min_vruntime \in ULong
    BY <1>2 DEF Images, SeImages, SeType, CfsType, ULong
  <2> QED BY <1>2, <2>1, UpdateVruntime, VruntimeUntouched DEF Advances
<1> HIDE DEF renorm
<1>4. s0 \in Images /\ Untouched(s, s0) BY <1>3, UntouchedRefl
<1> HIDE DEF s0
<1>5. s1 \in Images /\ Untouched(s0, s1) BY <1>4, UpdateCurr, CurrUntouched DEF Advances
<1> HIDE DEF s1
<1>6. r1 \in Images /\ Untouched(s1, r1) BY <1>3, <1>5, UntouchedRefl
<1> HIDE DEF r1
<1>7. Untouched(s, r1) BY <1>4, <1>5, <1>6, UntouchedTrans
<1>8. s2 \in Images /\ Posts(r1, s2, t, Landed(Entry(s, t), c))
  <2>1. Entry(r1, t) = Entry(s, t) BY <1>7, UntouchedEntry
  <2> QED BY <1>6, <2>1, UpdateLoad, LoadPosts DEF Advances
<1> HIDE DEF s2
<1>9. s3 \in Images /\ Untouched(s2, s3) BY <1>8, AccountEnqueue, AccountUntouched DEF Advances
<1> HIDE DEF s3
<1>10. s4 \in Images /\ Untouched(s3, s4)
  BY <1>9, EnqueueInTree, TreesUntouched, UntouchedRefl DEF Advances
<1> HIDE DEF s4
<1>11. s5 \in Images /\ Untouched(s4, s5)
  BY <1>2, <1>10, SetOnRq, FieldUntouched DEF Advances, Bit
<1> HIDE DEF s5
<1>12. Untouched(s5, r) BY <1>11, TreesUntouched
<1> HIDE DEF r
<1>13. Untouched(s2, r) BY <1>9, <1>10, <1>11, <1>12, UntouchedTrans
<1>14. Posts(s, s2, t, Landed(Entry(s, t), c)) BY <1>7, <1>8, UntouchedThenPosts
<1> QED BY <1>1, <1>13, <1>14, PostsThenUntouched

\* dequeue_entity keeps the load of a sleeping task attached.
LEMMA DequeueUntouched ==
    ASSUME TimelineContract, jiffies \in Nat,
           NEW s \in Images, NEW c \in CPUs, NEW t \in Tasks
    PROVE  Untouched(s, dequeue_entity(s, c, t))
<1> DEFINE s0 == update_curr(s, c)
           s1 == clear_buddies(s0, c, t)
           s2 == IF t # s1.cfs[c].curr THEN __dequeue_entity(s1, c, t) ELSE s1
           r2 == [s2 EXCEPT !.se[t].on_rq = 0]
           s3 == account_entity_dequeue(r2, c, t)
           s4 == [s3 EXCEPT !.se[t].vruntime = @ - s3.cfs[c].min_vruntime]
           r  == debug_tasktimeline(s4, c)
<1>1. dequeue_entity(s, c, t) = r BY DEF dequeue_entity
<1>2. t \in Entities BY DEF Entities
<1>3. s0 \in Images /\ Untouched(s, s0) BY UpdateCurr, CurrUntouched DEF Advances
<1> HIDE DEF s0
<1>4. s1 \in Images /\ Untouched(s0, s1) BY <1>3, ClearBuddies, AccountUntouched DEF Advances
<1> HIDE DEF s1
<1>5. s2 \in Images /\ Untouched(s1, s2)
  BY <1>4, DequeueFromTree, TreesUntouched, UntouchedRefl DEF Advances
<1> HIDE DEF s2
<1>6. r2 \in Images /\ Untouched(s2, r2)
  BY <1>2, <1>5, SetOnRq, FieldUntouched DEF Advances, Bit
<1> HIDE DEF r2
<1>7. s3 \in Images /\ Untouched(r2, s3) BY <1>6, AccountDequeue, AccountUntouched DEF Advances
<1> HIDE DEF s3
<1>8. s4 \in Images /\ Untouched(s3, s4)
  <2> DEFINE v == s3.se[t].vruntime - s3.cfs[c].min_vruntime
  <2>1. v \in ULong BY <1>2, <1>7 DEF Images, SeImages, SeType, CfsType, ULong
  <2>2. s4 = [s3 EXCEPT !.se[t].vruntime = v] BY <1>2, <1>7 DEF Images, SeImages
  <2> HIDE DEF v
  <2> QED BY <1>2, <1>7, <2>1, <2>2, SetVruntime, FieldUntouched DEF Advances
<1> HIDE DEF s4
<1>9. Untouched(s4, r) BY <1>8, TreesUntouched
<1> HIDE DEF r
<1> QED BY <1>1, <1>3, <1>4, <1>5, <1>6, <1>7, <1>8, <1>9, UntouchedTrans

\* Neither half of a switch writes it,
LEMMA PutPrevUntouched ==
    ASSUME TimelineContract, jiffies \in Nat,
           NEW s \in Images, NEW c \in CPUs, NEW prev \in Entities
    PROVE  Untouched(s, put_prev_entity(s, c, prev))
<1> DEFINE s0 == update_curr(s, c)
           s1 == IF s.se[prev].on_rq = 1 THEN __enqueue_entity(s0, c, prev) ELSE s
           s2 == [s1 EXCEPT !.cfs[c].curr = NULL]
<1>1. s.se[prev].on_rq = 1 => prev \in Tasks BY DEF Images, SeImages, Entities
<1>2. s0 \in Images /\ Untouched(s, s0) BY UpdateCurr, CurrUntouched DEF Advances
<1> HIDE DEF s0
<1>3. s1 \in Images /\ Untouched(s, s1)
  BY <1>1, <1>2, EnqueueInTree, TreesUntouched, UntouchedTrans, UntouchedRefl DEF Advances
<1> HIDE DEF s1
<1>4. s2 \in Images /\ Untouched(s1, s2)
  BY <1>3, SetCurr, FieldUntouched DEF Advances, Entities
<1>5. put_prev_entity(s, c, prev) = debug_tasktimeline(s2, c)
  BY DEF put_prev_entity, s1, s0
<1> HIDE DEF s2
<1>6. Untouched(s2, debug_tasktimeline(s2, c)) BY <1>4, TreesUntouched
<1> QED BY <1>3, <1>4, <1>5, <1>6, UntouchedTrans

LEMMA SetNextUntouched ==
    ASSUME TimelineContract, jiffies \in Nat,
           NEW s \in Images, NEW c \in CPUs, NEW t \in Tasks
    PROVE  Untouched(s, set_next_entity(s, c, t))
<1> DEFINE s1 == IF s.se[t].on_rq = 1 THEN __dequeue_entity(s, c, t) ELSE s
           s2 == [s1 EXCEPT !.se[t].exec_start = ExecStamp,
                            !.se[t].prev_sum_exec_runtime = s1.se[t].sum_exec_runtime,
                            !.cfs[c].curr = t]
<1>1. s1 \in Images /\ Untouched(s, s1)
  BY DequeueFromTree, TreesUntouched, UntouchedRefl DEF Advances
<1>2. set_next_entity(s, c, t) = debug_tasktimeline(s2, c) BY DEF set_next_entity
<1> HIDE DEF s1
<1>3. Untouched(s1, s2) /\ DOMAIN s2 = DOMAIN s1
  BY <1>1 DEF Untouched, Images, SeImages, SeType, CfsType, Entities
<1>4. Untouched(s2, debug_tasktimeline(s2, c))
  <2>1. s2.cfs = [s1.cfs EXCEPT ![c].curr = t] /\ s2.rq = s1.rq
        /\ s2.tl = s1.tl /\ s2.fault = s1.fault
    BY <1>1 DEF Images
  <2>2. \A timeline : TreeOp(s2, timeline).cfs = s2.cfs /\ TreeOp(s2, timeline).se = s2.se
    BY <1>1 DEF TreeOp, Images
  <2> HIDE DEF s2
  <2> QED BY <2>2, UntouchedRefl DEF debug_tasktimeline, Untouched
<1> HIDE DEF s2
<1> QED BY <1>1, <1>2, <1>3, <1>4, UntouchedTrans

\* What update_curr was told, sched_slice only weighs.
LEMMA SliceUntouched ==
    ASSUME NEW s \in Images, NEW c \in CPUs, NEW e
    PROVE  Untouched(s, sched_slice(s, c, e).image)
BY DEF sched_slice, Untouched, Images, CfsType

-----------------------------------------------------------------------------
(* class rq.                                                               *)

LEMMA ActivatePosts ==
    ASSUME TimelineContract, jiffies \in Nat, jiffies > 0,
           NEW s \in Images, NEW c \in CPUs, NEW t \in Tasks
    PROVE  Posts(s, activate_task(s, c, t), t, Landed(Entry(s, t), c))
<1> DEFINE q == enqueue_entity(s, c, t)
           r == activate_task(s, c, t)
<1>1. q \in Images /\ Posts(s, q, t, Landed(Entry(s, t), c))
  BY EnqueueEntity, EnqueuePosts DEF Advances
<1>2. r = [q EXCEPT !.cfs[c].h_nr_running = @ + 1, !.rq[c].nr_running = @ + 1]
  BY DEF activate_task
<1> HIDE DEF q, r
<1>3. Untouched(q, r) BY <1>1, <1>2 DEF Untouched, Images, CfsType
<1>4. Posts(s, r, t, Landed(Entry(s, t), c)) BY <1>1, <1>3, PostsThenUntouched
<1> QED BY <1>4 DEF r

\* nor do the marks, the preemption count, the wake-up check and the tick,
LEMMA DeactivateUntouched ==
    ASSUME TimelineContract, jiffies \in Nat,
           NEW s \in Images, NEW c \in CPUs, NEW t \in Tasks
    PROVE  Untouched(s, deactivate_task(s, c, t))
<1> DEFINE q == dequeue_entity(s, c, t)
           r == deactivate_task(s, c, t)
<1>1. q \in Images /\ Untouched(s, q) BY DequeueEntity, DequeueUntouched DEF Advances
<1>2. r = [q EXCEPT !.cfs[c].h_nr_running = @ - 1, !.rq[c].nr_running = @ - 1]
  BY DEF deactivate_task
<1> HIDE DEF q, r
<1>3. Untouched(q, r) BY <1>1, <1>2 DEF Untouched, Images, CfsType
<1>4. Untouched(s, r) BY <1>1, <1>3, UntouchedTrans
<1> QED BY <1>4 DEF r

LEMMA ReschedUntouched ==
    ASSUME NEW s \in Images, NEW c \in CPUs
    PROVE  Untouched(s, resched_curr(s, c))
<1>1. s.rq[c].curr \in Entities BY DEF Images, RqType
<1> QED BY <1>1 DEF resched_curr, Untouched, Images, SeImages, SeType, Entities

LEMMA CountUntouched ==
    ASSUME NEW s \in Images, NEW c \in CPUs
    PROVE  Untouched(s, preempt_disable(s, c)) /\ Untouched(s, preempt_count_dec(s, c))
BY DEF Untouched, preempt_disable, preempt_count_dec, Images

LEMMA WakeupUntouched ==
    ASSUME TimelineContract, jiffies \in Nat,
           NEW s \in Images, NEW c \in CPUs, NEW t \in Tasks
    PROVE  Untouched(s, check_preempt_wakeup(s, c, t))
<1> DEFINE s1 == update_curr(s, c)
           s2 == [s1 EXCEPT !.cfs[c].next = t]
<1>1. s1 \in Images /\ Untouched(s, s1) BY UpdateCurr, CurrUntouched DEF Advances
<1>2. check_preempt_wakeup(s, c, t) \in {s, s1, resched_curr(s, c), resched_curr(s2, c)}
  BY DEF check_preempt_wakeup
<1> HIDE DEF s1
<1>3. s2 \in Images /\ Untouched(s1, s2)
  BY <1>1, SetNext, FieldUntouched DEF Advances, Entities
<1> HIDE DEF s2
<1>4. Untouched(s, s2) BY <1>1, <1>3, UntouchedTrans
<1>5. Untouched(s2, resched_curr(s2, c)) BY <1>3, ReschedUntouched
<1>6. Untouched(s, resched_curr(s2, c)) BY <1>4, <1>5, UntouchedTrans
<1>7. Untouched(s, resched_curr(s, c)) BY ReschedUntouched
<1> QED BY <1>1, <1>2, <1>6, <1>7, UntouchedRefl

LEMMA TickFairUntouched ==
    ASSUME TimelineContract, jiffies \in Nat,
           NEW s \in Images, NEW c \in CPUs, NEW e \in Entities
    PROVE  Untouched(s, task_tick_fair(s, c, e))
<1> DEFINE s1 == update_curr(s, c)
           s2 == sched_slice(s1, c, e).image
           s3 == resched_curr(s2, c)
<1>1. s1 \in Images /\ Untouched(s, s1) BY UpdateCurr, CurrUntouched DEF Advances
<1>2. task_tick_fair(s, c, e) \in {clear_buddies(s3, c, e), s1, s2, Crash(s2), s3}
  BY DEF task_tick_fair, check_preempt_tick
<1> HIDE DEF s1
<1>3. s2 \in Images /\ Untouched(s1, s2) BY <1>1, SchedSlice, SliceUntouched DEF Advances
<1> HIDE DEF s2
<1>4. s3 \in Images /\ Untouched(s2, s3) BY <1>3, ReschedCurr, ReschedUntouched DEF Advances
<1> HIDE DEF s3
<1>5. Untouched(s3, clear_buddies(s3, c, e)) BY <1>4, AccountUntouched
<1>6. Untouched(s2, Crash(s2)) BY <1>3, TreesUntouched
<1>7. Untouched(s, s2) BY <1>1, <1>3, UntouchedTrans
<1>8. Untouched(s, s3) BY <1>4, <1>7, UntouchedTrans
<1> QED BY <1>1, <1>2, <1>5, <1>6, <1>7, <1>8, UntouchedTrans

\* nor any part of schedule.
LEMMA PickUntouched ==
    ASSUME TimelineContract, jiffies \in Nat,
           NEW s \in Images, NEW c \in CPUs, NEW prev \in Entities
    PROVE  Untouched(s, pick_next_task_fair(s, c, prev))
<1> DEFINE s1 == put_prev_entity(s, c, prev)
           e  == pick_next_entity(s1, c)
           r1 == clear_buddies(s1, c, e)
           s2 == set_next_entity(r1, c, e)
           s3 == move_to_front_cfs_tasks(s2, c, e)
           r  == pick_next_task_fair(s, c, prev)
<1>1. s1 \in Images /\ Untouched(s, s1) BY PutPrevEntity, PutPrevUntouched DEF Advances
<1>2. r \in {s1, Crash(s1)} \/ (e # NULL /\ r = s3) BY DEF pick_next_task_fair
<1> SUFFICES Untouched(s, r) OBVIOUS
<1> HIDE DEF s1, r
<1>3. Untouched(s, Crash(s1)) BY <1>1, TreesUntouched, UntouchedTrans
<1>4. ASSUME e # NULL PROVE Untouched(s, s3)
  <2>1. e \in Tasks BY <1>1, <1>4, PickNextEntity
  <2> HIDE DEF e
  <2>2. r1 \in Images /\ Untouched(s1, r1) BY <1>1, ClearBuddies, AccountUntouched DEF Advances
  <2> HIDE DEF r1
  <2>3. s2 \in Images /\ Untouched(r1, s2)
    BY <2>1, <2>2, SetNextEntity, SetNextUntouched DEF Advances
  <2> HIDE DEF s2
  <2>4. Untouched(s2, s3) BY <2>3, AccountUntouched
  <2> HIDE DEF s3
  <2> QED BY <1>1, <2>2, <2>3, <2>4, UntouchedTrans
<1> QED BY <1>1, <1>2, <1>3, <1>4

LEMMA ScheduleOnceUntouched ==
    ASSUME TimelineContract, jiffies \in Nat, NEW s \in Images, NEW c \in CPUs
    PROVE  Untouched(s, __schedule(s, c))
<1> DEFINE prev == s.rq[c].curr
           some == s.rq[c].nr_running # 0
           s1   == IF some THEN pick_next_task_fair(s, c, prev) ELSE s
           next == IF some THEN s1.cfs[c].curr ELSE idle[c]
           s2   == [s1 EXCEPT !.se[prev].RESCHED = 0, !.rq[c].NEED_RESCHED = 0,
                              !.rq[c].curr = next]
<1>1. prev \in Entities BY DEF Images, RqType
<1>2. s1 \in Images /\ Untouched(s, s1)
  BY <1>1, PickNextTask, PickUntouched, AdvancesRefl, UntouchedRefl DEF Advances
<1>3. __schedule(s, c) = IF Stopped(s1) THEN s1 ELSE s2 BY DEF __schedule
<1> HIDE DEF s1, next, prev
<1>4. Untouched(s1, s2)
  BY <1>1, <1>2 DEF Untouched, Images, SeImages, SeType, Entities
<1> HIDE DEF s2
<1> QED BY <1>2, <1>3, <1>4, UntouchedTrans

LEMMA ScheduleUntouched ==
    ASSUME TimelineContract, jiffies \in Nat, NEW s \in Images, NEW c \in CPUs
    PROVE  Untouched(s, schedule(s, c))
<1> DEFINE round(x) == IF Stopped(x) THEN x ELSE __schedule(x, c)
           s1 == round(s)
<1>1. \A x \in Images : round(x) \in Images /\ Untouched(x, round(x))
  BY ScheduleOnce, ScheduleOnceUntouched, UntouchedRefl DEF Advances
<1>2. schedule(s, c) \in {s1, round(s1)} BY DEF schedule
<1> HIDE DEF round
<1>3. s1 \in Images /\ Untouched(s, s1) BY <1>1
<1> HIDE DEF s1
<1>4. Untouched(s, round(s1)) BY <1>1, <1>3, UntouchedTrans
<1> QED BY <1>2, <1>3, <1>4

LEMMA EnableUntouched ==
    ASSUME TimelineContract, jiffies \in Nat, NEW s \in Images, NEW c \in CPUs
    PROVE  Untouched(s, preempt_enable(s, c))
<1> DEFINE s1 == preempt_count_dec(s, c)
           r1 == preempt_disable(s1, c)
           s2 == schedule(r1, c)
           s3 == preempt_count_dec(s2, c)
<1>1. preempt_enable(s, c) \in {s, s1, s3} BY DEF preempt_enable
<1>2. s1 \in Images /\ Untouched(s, s1) BY PreemptCountDec, CountUntouched DEF Advances
<1> HIDE DEF s1
<1>3. r1 \in Images /\ Untouched(s1, r1) BY <1>2, PreemptDisable, CountUntouched DEF Advances
<1> HIDE DEF r1
<1>4. s2 \in Images /\ Untouched(r1, s2) BY <1>3, ScheduleAll, ScheduleUntouched DEF Advances
<1> HIDE DEF s2
<1>5. Untouched(s2, s3) BY <1>4, CountUntouched
<1> HIDE DEF s3
<1> QED BY <1>1, <1>2, <1>3, <1>4, <1>5, UntouchedRefl, UntouchedTrans

\* set_task_cpu takes the load of a queued task away from the CPU that p->cpu
\* names, whichever that is, or does nothing but name the new one.
LEMMA TaskCpuPosts ==
    ASSUME NEW s \in Images, NEW t \in Tasks, NEW dst \in CPUs,
           s.se[t].last_update = 1, ~Stopped(set_task_cpu(s, t, dst))
    PROVE  Posts(s, set_task_cpu(s, t, dst), t, Sent(Entry(s, t), dst))
<1> DEFINE r == set_task_cpu(s, t, dst)
           c == s.se[t].cpu
<1>1. t \in Entities BY DEF Entities
<1>2. \A d \in CPUs : s.cfs[d].attached[t] \in Int BY DEF Images, CfsType
<1>3. ~Stopped(s)
  <2>1. CASE Stopped(s)
    <3>1. r = [s EXCEPT !.se[t].cpu = dst] BY <2>1 DEF set_task_cpu
    <3>2. r.fault = s.fault BY <3>1 DEF Images
    <3> QED BY <2>1, <3>2 DEF Stopped
  <2> QED BY <2>1
<1>4. CASE c = dst
  <2>1. r = [s EXCEPT !.se[t].cpu = dst] BY <1>4 DEF set_task_cpu
  <2> HIDE DEF r
  <2>2. Untouched(s, r)
    BY <1>1, <1>4, <2>1 DEF Untouched, Images, SeImages, SeType, Entities
  <2>3. \A u \in Tasks : Entry(r, u) = Entry(s, u) BY <2>2, UntouchedEntry
  <2>4. Sent(Entry(s, t), dst) = Entry(s, t) BY <1>4 DEF Sent, Entry
  <2> QED BY <2>3, <2>4 DEF Posts, r
<1>5. CASE c # dst /\ c \in CPUs
  <2>1. r = [migrate_task_rq(s, t) EXCEPT !.se[t].cpu = dst]
    BY <1>3, <1>5 DEF set_task_cpu
  <2> HIDE DEF r
  <2>2. /\ r.se[t].last_update = 0 /\ r.se[t].task_on_rq = s.se[t].task_on_rq
        /\ r.se[t].cpu = dst
        /\ r.cfs[c].attached[t] = s.cfs[c].attached[t] - 1
        /\ \A d \in CPUs \ {c} : r.cfs[d].attached = s.cfs[d].attached
        /\ \A u \in Tasks \ {t} : r.cfs[c].attached[u] = s.cfs[c].attached[u]
        /\ \A u \in Tasks \ {t} : r.se[u] = s.se[u]
    <3> DEFINE q == migrate_task_rq(s, t)
    <3>1. q = [s EXCEPT !.cfs[c].attached[t] = @ - 1,
                        !.se[t].last_update = 0, !.se[t].exec_start = 0]
      BY DEF migrate_task_rq
    <3>2. q \in Images BY <1>5, MigrateTaskRq DEF Advances
    <3> HIDE DEF q, c
    <3>3. /\ q.cfs[c].attached[t] = s.cfs[c].attached[t] - 1
          /\ \A d \in CPUs \ {c} : q.cfs[d].attached = s.cfs[d].attached
          /\ \A u \in Tasks \ {t} : q.cfs[c].attached[u] = s.cfs[c].attached[u]
      BY <1>5, <3>1 DEF Images, CfsType
    <3>4. /\ q.se[t].last_update = 0 /\ q.se[t].task_on_rq = s.se[t].task_on_rq
          /\ \A u \in Tasks \ {t} : q.se[u] = s.se[u]
      BY <1>1, <3>1 DEF Images, SeImages, SeType, Entities
    <3>5. /\ r.cfs = q.cfs /\ r.se[t].last_update = q.se[t].last_update
          /\ r.se[t].task_on_rq = q.se[t].task_on_rq /\ r.se[t].cpu = dst
          /\ \A u \in Tasks \ {t} : r.se[u] = q.se[u]
      BY <1>1, <2>1, <3>2 DEF q, Images, SeImages, SeType, Entities
    <3> QED BY <3>3, <3>4, <3>5
  <2>3. ASSUME NEW d \in CPUs PROVE Off(r, t)[d] = Off(s, t)[d]
    <3>1. Off(r, t)[d] = r.cfs[d].attached[t] - 0 BY <2>2 DEF Off, One
    <3>2. Off(s, t)[d] = s.cfs[d].attached[t] - One(c = d) BY DEF Off, One
    <3> HIDE DEF c
    <3>3. CASE d = c BY <1>2, <2>2, <3>1, <3>2, <3>3 DEF One
    <3>4. CASE d # c BY <1>2, <2>2, <3>1, <3>2, <3>4 DEF One
    <3> QED BY <3>3, <3>4
  <2>4. Off(r, t) = Off(s, t) BY <2>3 DEF Off
  <2>5. Entry(r, t) = Sent(Entry(s, t), dst) BY <1>5, <2>2, <2>4 DEF Entry, Sent
  <2>6. ASSUME NEW u \in Tasks \ {t} PROVE Entry(r, u) = Entry(s, u)
    <3> HIDE DEF c
    <3>1. \A d \in CPUs : r.cfs[d].attached[u] = s.cfs[d].attached[u] BY <2>2
    <3> QED BY <2>2, <3>1, OtherEntry
  <2> QED BY <2>5, <2>6 DEF Posts, r
<1>6. CASE c # dst /\ c \notin CPUs
  <2>1. r = [Crash(s) EXCEPT !.se[t].cpu = dst] BY <1>3, <1>6 DEF set_task_cpu
  <2>2. Stopped(r) BY <1>3, <2>1 DEF Crash, Stopped, Images
  <2> QED BY <2>2
<1> QED BY <1>4, <1>5, <1>6

-----------------------------------------------------------------------------
(* The handlers.                                                           *)

LEMMA TaskOnRqPosts ==
    ASSUME NEW s \in Images, NEW t \in Tasks, NEW k
    PROVE  Posts(s, [s EXCEPT !.se[t].task_on_rq = k], t, Marked(Entry(s, t), k))
<1> DEFINE r == [s EXCEPT !.se[t].task_on_rq = k]
<1>1. t \in Entities BY DEF Entities
<1>2. /\ r.se[t].last_update = s.se[t].last_update /\ r.se[t].task_on_rq = k
      /\ r.se[t].cpu = s.se[t].cpu
      /\ \A u \in Tasks \ {t} : r.se[u] = s.se[u]
      /\ r.cfs = s.cfs
  BY <1>1 DEF Images, SeImages, SeType, Entities
<1> HIDE DEF r
<1>3. Off(r, t) = Off(s, t) BY <1>2 DEF Off
<1>4. Entry(r, t) = Marked(Entry(s, t), k) BY <1>2, <1>3 DEF Entry, Marked
<1>5. \A u \in Tasks \ {t} : Entry(r, u) = Entry(s, u) BY <1>2, OtherEntry
<1> QED BY <1>4, <1>5 DEF Posts, r

\* detach_task: set_task_cpu takes the load away and clears the time.
LEMMA DetachPosts ==
    ASSUME TimelineContract, jiffies \in Nat,
           NEW s \in Images, NEW t \in Tasks, NEW src \in CPUs, NEW dst \in CPUs,
           s.se[t].last_update = 1, ~Stopped(detach_task(s, t, src, dst))
    PROVE  Posts(s, detach_task(s, t, src, dst), t, Marked(Sent(Entry(s, t), dst), 2))
<1> DEFINE s0 == [s EXCEPT !.se[t].task_on_rq = 2]
           s1 == deactivate_task(s0, src, t)
           r  == set_task_cpu(s1, t, dst)
<1>1. detach_task(s, t, src, dst) = r BY DEF detach_task
<1>2. s0 \in Images /\ Posts(s, s0, t, Marked(Entry(s, t), 2))
  <2>1. 2 \in 0 .. 2 OBVIOUS
  <2> QED BY <2>1, TaskOnRqPosts, SetTaskOnRq DEF Advances
<1> HIDE DEF s0
<1>3. s1 \in Images /\ Untouched(s0, s1)
  BY <1>2, DeactivateTask, DeactivateUntouched DEF Advances
<1> HIDE DEF s1
<1>4. Posts(s, s1, t, Marked(Entry(s, t), 2)) BY <1>2, <1>3, PostsThenUntouched
<1>5. Entry(s1, t) = Marked(Entry(s, t), 2) BY <1>4 DEF Posts
<1>6. s1.se[t].last_update = 1 BY <1>5 DEF Entry, Marked
<1>7. Posts(s1, r, t, Sent(Entry(s1, t), dst)) BY <1>1, <1>3, <1>6, TaskCpuPosts
<1>8. Sent(Entry(s1, t), dst) = Marked(Sent(Entry(s, t), dst), 2)
  BY <1>5 DEF Sent, Marked, Entry
<1> QED BY <1>1, <1>4, <1>7, <1>8, PostsTwice

\* activate_task of a task without a last_update_time attaches it.
LEMMA ActivatedPosts ==
    ASSUME TimelineContract, jiffies \in Nat, jiffies > 0,
           NEW s \in Images, NEW t \in Tasks, NEW c \in CPUs
    PROVE  LET r == check_preempt_wakeup(
                       [activate_task(s, c, t) EXCEPT !.se[t].task_on_rq = 1], c, t)
           IN  r \in Images /\ Posts(s, r, t, Marked(Landed(Entry(s, t), c), 1))
<1> DEFINE s1 == activate_task(s, c, t)
           s2 == [s1 EXCEPT !.se[t].task_on_rq = 1]
           r  == check_preempt_wakeup(s2, c, t)
           e  == Landed(Entry(s, t), c)
<1>1. s1 \in Images /\ Posts(s, s1, t, e) BY ActivateTask, ActivatePosts DEF Advances
<1> HIDE DEF s1, e
<1>2. s2 \in Images /\ Posts(s1, s2, t, Marked(e, 1))
  <2>1. 1 \in 0 .. 2 OBVIOUS
  <2>2. Posts(s1, s2, t, Marked(Entry(s1, t), 1)) BY <1>1, TaskOnRqPosts
  <2>3. Entry(s1, t) = e BY <1>1 DEF Posts
  <2> QED BY <1>1, <2>1, <2>2, <2>3, SetTaskOnRq DEF Advances
<1> HIDE DEF s2
<1>3. r \in Images /\ Untouched(s2, r)
  BY <1>2, CheckPreemptWakeup, WakeupUntouched DEF Advances
<1> HIDE DEF r
<1>4. Posts(s, s2, t, Marked(e, 1)) BY <1>1, <1>2, PostsTwice
<1>5. Posts(s, r, t, Marked(e, 1)) BY <1>3, <1>4, PostsThenUntouched
<1> QED BY <1>3, <1>5 DEF r, s2, s1, e

\* A started task has its load attached before it is queued.
LEMMA WakePosts ==
    ASSUME TimelineContract, jiffies \in Nat, jiffies > 0,
           NEW s \in Images, NEW t \in Tasks, NEW c \in CPUs, s.se[t].last_update = 0
    PROVE  Posts(s, wake_up_new_task(s, t, c), t, Marked(Landed(Entry(s, t), c), 1))
<1> DEFINE s0 == preempt_disable(s, c)
           s1 == attach_entity_load_avg(s0, c, t)
           r2 == check_preempt_wakeup(
                    [activate_task(s1, c, t) EXCEPT !.se[t].task_on_rq = 1], c, t)
           s3 == preempt_enable(r2, c)
           e  == Landed(Entry(s, t), c)
<1>1. wake_up_new_task(s, t, c) \in {s3, Crash(s3)} BY DEF wake_up_new_task
<1>2. s0 \in Images /\ Untouched(s, s0) BY PreemptDisable, CountUntouched DEF Advances
<1>3. Landed(e, c) = e BY DEF Landed, Entry
<1> HIDE DEF s0
<1>4. s1 \in Images /\ Posts(s0, s1, t, e)
  <2>1. Entry(s0, t) = Entry(s, t) BY <1>2, UntouchedEntry
  <2>2. s0.se[t].last_update = 0 BY <1>2 DEF Untouched
  <2>3. Posts(s0, s1, t, Landed(Entry(s0, t), c)) BY <1>2, <2>2, AttachPosts
  <2>4. s1 \in Images BY <1>2, AttachLoad DEF Advances
  <2> QED BY <2>1, <2>3, <2>4
<1> HIDE DEF s1, e
<1>5. r2 \in Images /\ Posts(s1, r2, t, Marked(e, 1))
  <2>1. Entry(s1, t) = e BY <1>4 DEF Posts
  <2> QED BY <1>3, <1>4, <2>1, ActivatedPosts
<1> HIDE DEF r2
<1>6. s3 \in Images /\ Untouched(r2, s3) BY <1>5, PreemptEnable, EnableUntouched DEF Advances
<1> HIDE DEF s3
<1>7. Posts(s, r2, t, Marked(e, 1)) BY <1>2, <1>4, <1>5, PostsTwice, UntouchedThenPosts
<1>8. Posts(s, s3, t, Marked(e, 1)) BY <1>6, <1>7, PostsThenUntouched
<1>9. Posts(s, Crash(s3), t, Marked(e, 1))
  <2>1. Untouched(s3, Crash(s3)) BY <1>6, TreesUntouched
  <2> QED BY <1>8, <2>1, PostsThenUntouched
<1> QED BY <1>1, <1>8, <1>9 DEF e

\* The whole tick.
LEMMA TickUntouched ==
    ASSUME TimelineContract, jiffies \in Nat, NEW s \in Images, NEW c \in CPUs
    PROVE  Untouched(s, scheduler_tick(s, c))
<1> DEFINE s1 == preempt_disable(s, c)
           e  == s1.rq[c].curr
           s2 == task_tick_fair(s1, c, e)
           b  == IF idle_cpu(s2, c) THEN 1 ELSE 0
           s3 == [s2 EXCEPT !.rq[c].idle_balance = b]
<1>1. scheduler_tick(s, c) = s3 BY DEF scheduler_tick
<1>2. s1 \in Images /\ Untouched(s, s1) BY PreemptDisable, CountUntouched DEF Advances
<1> HIDE DEF s1, b
<1>3. e \in Entities BY <1>2 DEF Images, RqType
<1> HIDE DEF e
<1>4. s2 \in Images /\ Untouched(s1, s2) BY <1>2, <1>3, TaskTickFair, TickFairUntouched DEF Advances
<1> HIDE DEF s2
<1>5. Untouched(s2, s3) BY <1>4 DEF Untouched, Images
<1> HIDE DEF s3
<1> QED BY <1>1, <1>2, <1>4, <1>5, UntouchedTrans

-----------------------------------------------------------------------------
(* The inductive invariant: an entry with the start h is off by what the   *)
(* start got wrong, a task has no last_update_time before it is started,   *)
(* and has one while it is queued;                                         *)

Right(e, h) ==
    /\ e.off = [c \in CPUs |-> One(h.on = c) - One(h.named = c)]
    /\ e.task_on_rq = 0 => e.last_update = 0 /\ h = NotStarted
    /\ e.task_on_rq = 1 => e.last_update = 1

\* and p->cpu names the CPU a task is queued on, if it did so at the start, and
\* the destination of one in flight.
Located(t) ==
    /\ se[t].task_on_rq = 1 /\ start[t].on = start[t].named =>
          \A c \in CPUs : t \in Listed(Memory, c) <=> se[t].cpu = c
    /\ se[t].task_on_rq = 2 =>
          /\ se[t].cpu = env.dst
          /\ start[t].on = start[t].named => se[t].last_update = 0

Posted ==
    /\ Settled /\ StartOK /\ jiffies > 0
    /\ \A t \in Tasks : Right(Entry(Memory, t), start[t]) /\ Located(t)

\* What a step does to the ledger: nothing,
Quiet == start' = start /\ \A u \in Tasks : Entry(Memory', u) = Entry(Memory, u)
\* or it starts a task on c while its p->cpu names another CPU, or none,
Opens(t, c, named) ==
    /\ Starts(t, c)
    /\ Posts(Memory, Memory', t,
             Marked(Landed(Named(Entry(Memory, t), named), c), 1))
    /\ start' = [start EXCEPT ![t] = [on |-> c, named |-> named]]
\* or detaches one,
Leaves(t) ==
    /\ env.src \in CPUs /\ env.src # env.dst /\ t \in Listed(Memory, env.src)
    /\ Posts(Memory, Memory', t, Marked(Sent(Entry(Memory, t), env.dst), 2))
    /\ env'.dst = env.dst /\ start' = start
\* or attaches one.
Lands(t) ==
    /\ se[t].task_on_rq = 2
    /\ Posts(Memory, Memory', t, Marked(Landed(Entry(Memory, t), env.dst), 1))
    /\ start' = start

Writes ==
    \/ Quiet
    \/ \E t \in Tasks, c \in CPUs, named \in UninitCpu : Opens(t, c, named)
    \/ \E t \in Tasks : Leaves(t)
    \/ \E t \in Tasks : Lands(t)

\* Which of them each action is.  A handler that stops writes nothing.
LEMMA CommitWrites ==
    ASSUME NEW s \in Images, Commit(s), start' = start,
           Stopped(s) \/ \A u \in Tasks : Entry(s, u) = Entry(Memory, u)
    PROVE  Quiet
BY CommitMemory DEF Quiet

LEMMA WakeWrites ==
    ASSUME TimelineContract, MemberContract, Posted,
           NEW t \in Tasks, NEW c \in CPUs, Wake(t, c)
    PROVE  Writes
<1>1. /\ fault = "none" /\ se[t].task_on_rq = 0 /\ jiffies \in Nat /\ jiffies > 0
      /\ IInv /\ Settled
  BY DEF Wake, Running, Posted, Settled, IInv
<1>2. PICK garbage \in UninitCpu :
        /\ Commit(wake_up_new_task([Image EXCEPT !.se[t].cpu = garbage], t, c))
        /\ start' = IF fault' # "none" THEN start
                    ELSE [start EXCEPT ![t] = [on |-> c, named |-> garbage]]
  BY DEF Wake
<1> DEFINE s == [Image EXCEPT !.se[t].cpu = garbage]
           r == wake_up_new_task(s, t, c)
<1>3. Memory \in Images /\ Memory = Image BY <1>1, MemoryImage
<1>4. s \in Images BY <1>3, SetCpu DEF Advances
<1>5. /\ s.cfs = Memory.cfs /\ s.se[t].cpu = garbage
      /\ s.se[t].last_update = Memory.se[t].last_update
      /\ s.se[t].task_on_rq = Memory.se[t].task_on_rq
      /\ \A u \in Tasks \ {t} : s.se[u] = Memory.se[u]
  BY <1>3 DEF Images, SeImages, SeType, Entities
<1>6. Commit(r) BY <1>2
<1> HIDE DEF s
<1>7. s.se[t].last_update = 0
  BY <1>1, <1>5 DEF Posted, Right, Entry, Memory
<1>8. Posts(Memory, s, t, Named(Entry(Memory, t), garbage))
  <2>1. Off(s, t) = Off(Memory, t) BY <1>5, <1>7 DEF Off, One
  <2>2. Entry(s, t) = Named(Entry(Memory, t), garbage)
    BY <1>5, <2>1 DEF Entry, Named
  <2>3. \A u \in Tasks \ {t} : Entry(s, u) = Entry(Memory, u) BY <1>5, OtherEntry
  <2> QED BY <2>2, <2>3 DEF Posts
<1>9. r \in Images BY <1>1, <1>4, WakeUpNewTask DEF Advances
<1>10. Posts(Memory, r, t, Marked(Landed(Named(Entry(Memory, t), garbage), c), 1))
  <2>1. Posts(s, r, t, Marked(Landed(Entry(s, t), c), 1)) BY <1>1, <1>4, <1>7, WakePosts
  <2>2. Entry(s, t) = Named(Entry(Memory, t), garbage) BY <1>8 DEF Posts
  <2> QED BY <1>8, <2>1, <2>2, PostsTwice
<1> HIDE DEF r
<1>11. CASE Stopped(r)
  <2>1. start' = start BY <1>2, <1>6, <1>9, <1>11, CommitMemory DEF Stopped
  <2>2. Quiet BY <1>6, <1>9, <1>11, <2>1, CommitWrites
  <2> QED BY <2>2 DEF Writes
<1>12. CASE ~Stopped(r)
  <2>1. Memory' = r /\ fault' = "none" BY <1>6, <1>9, <1>12, CommitMemory
  <2>2. Rests \/ Starts(t, c) BY <1>1, WakeMoves
  <2>3. Entry(r, t).task_on_rq = 1 BY <1>10 DEF Posts, Marked, Landed, Entry
  <2>4. Memory'.se[t].task_on_rq = 1 BY <2>1, <2>3 DEF Entry
  <2>5. ~Rests BY <1>1, <2>4 DEF Rests, Stays, Memory
  <2>6. Opens(t, c, garbage) BY <1>2, <1>10, <2>1, <2>2, <2>5 DEF Opens
  <2> QED BY <2>6 DEF Writes
<1> QED BY <1>11, <1>12

LEMMA DetachWrites ==
    ASSUME TimelineContract, MemberContract, Posted, NEW more \in BOOLEAN, DetachMove(more)
    PROVE  Writes
<1> DEFINE t == Last(rq[env.src].cfs_tasks)
           r == detach_task(Image, t, env.src, env.dst)
<1>1. /\ env.src \in CPUs /\ env.dst \in CPUs /\ t \in Listed(Memory, env.src)
      /\ Memory \in Images /\ Memory = Image /\ jiffies \in Nat
  BY LastListed DEF DetachMove, Posted
<1>2. Commit(r) /\ start' = start /\ env'.dst = env.dst BY DEF DetachMove
<1>3. env.src # env.dst BY DEF DetachMove, DetachLoops, Running, Posted, Settled, Phased
<1> HIDE DEF t
<1>4. t \in Tasks /\ Memory.se[t].on_rq = 1
  BY <1>1, ShapeCurr DEF Posted, Settled, Sound
<1>5. Memory.se[t].task_on_rq = 1
  BY <1>4 DEF Posted, Settled, Sound, Shape, TasksOnRq
<1>6. Memory.se[t].last_update = 1 BY <1>4, <1>5 DEF Posted, Right, Entry
<1>7. r \in Images BY <1>1, <1>4, DetachTask DEF Advances
<1>8. CASE Stopped(r)
  <2> HIDE DEF r
  <2> QED BY <1>2, <1>7, <1>8, CommitWrites DEF Writes
<1>9. CASE ~Stopped(r)
  <2>1. Posts(Memory, r, t, Marked(Sent(Entry(Memory, t), env.dst), 2))
    BY <1>1, <1>4, <1>6, <1>9, DetachPosts
  <2> HIDE DEF r
  <2>2. Memory' = r BY <1>2, <1>7, <1>9, CommitMemory
  <2>3. Leaves(t) BY <1>1, <1>2, <1>3, <2>1, <2>2 DEF Leaves
  <2> QED BY <1>4, <2>3 DEF Writes
<1> QED BY <1>8, <1>9

LEMMA AttachWrites ==
    ASSUME TimelineContract, MemberContract, Posted, AttachNext
    PROVE  Writes
<1> DEFINE t == Head(env.tasks)
           r == attach_task(Image, t, env.dst)
<1>1. /\ fault = "none" /\ env.dst \in CPUs /\ env.tasks # << >>
      /\ env.tasks \in Seq(Tasks) /\ jiffies \in Nat /\ jiffies > 0 /\ Settled /\ IInv
  BY DEF AttachNext, Running, Posted, Settled, IInv, EnvOK, EnvType
<1>2. Commit(r) /\ start' = start BY DEF AttachNext
<1>3. t \in Tasks /\ t \in ToSet(env.tasks) BY <1>1, TailElements DEF Settled, Flight
<1> HIDE DEF t
<1>4. se[t].task_on_rq = 2 BY <1>1, <1>3 DEF Settled, Flight
<1>5. Memory \in Images /\ Memory = Image BY <1>1, MemoryImage
<1>6. r \in Images /\ Posts(Memory, r, t, Marked(Landed(Entry(Memory, t), env.dst), 1))
  BY <1>1, <1>3, <1>5, ActivatedPosts DEF attach_task
<1> HIDE DEF r
<1>7. CASE Stopped(r) BY <1>2, <1>6, <1>7, CommitWrites DEF Writes
<1>8. CASE ~Stopped(r)
  <2>1. Memory' = r BY <1>2, <1>6, <1>8, CommitMemory
  <2>2. Lands(t) BY <1>2, <1>4, <1>6, <2>1 DEF Lands
  <2> QED BY <1>3, <2>2 DEF Writes
<1> QED BY <1>7, <1>8

LEMMA StepWrites ==
    ASSUME TimelineContract, MemberContract, Posted, Next
    PROVE  Writes
<1>1. IInv /\ jiffies \in Nat BY DEF Posted, Settled, IInv
<1>2. fault = "none" => Memory \in Images /\ Memory = Image BY <1>1, MemoryImage
<1>3. ASSUME NEW c \in CPUs, Schedule(c) PROVE Quiet
  <2> DEFINE r == schedule(Image, c)
  <2>1. fault = "none" /\ Commit(r) /\ start' = start BY <1>3 DEF Schedule, Running
  <2>2. r \in Images /\ Untouched(Memory, r)
    BY <1>1, <1>2, <2>1, ScheduleAll, ScheduleUntouched DEF Advances
  <2> HIDE DEF r
  <2> QED BY <2>1, <2>2, UntouchedEntry, CommitWrites
<1>4. ASSUME NEW c \in CPUs, Tick(c) PROVE Quiet
  <2> DEFINE r == scheduler_tick(Image, c)
  <2>1. fault = "none" /\ Commit(r) /\ start' = start BY <1>4 DEF Tick, Running
  <2>2. r \in Images /\ Untouched(Memory, r)
    BY <1>1, <1>2, <2>1, SchedulerTick, TickUntouched DEF Advances
  <2> HIDE DEF r
  <2> QED BY <2>1, <2>2, UntouchedEntry, CommitWrites
<1>5. CASE DetachKeep
  <2> DEFINE t == Last(rq[env.src].cfs_tasks)
             r == move_to_front_cfs_tasks(Image, env.src, t)
  <2>1. /\ env.src \in CPUs /\ t \in Listed(Memory, env.src)
        /\ Memory \in Images /\ Memory = Image
    BY <1>5, LastListed DEF DetachKeep, Posted
  <2>2. Commit(r) /\ start' = start BY <1>5 DEF DetachKeep
  <2> HIDE DEF t
  <2>3. t \in Tasks BY <2>1, ShapeCurr DEF Posted, Settled, Sound
  <2>4. r \in Images /\ Untouched(Memory, r)
    BY <2>1, <2>3, MoveToFront, AccountUntouched DEF Advances
  <2> HIDE DEF r
  <2>5. Quiet BY <2>2, <2>4, UntouchedEntry, CommitWrites
  <2> QED BY <2>5 DEF Writes
<1>6. CASE UNCHANGED <<rq, cfs, se, tl, start>>
  <2>1. Memory' = Memory BY <1>6 DEF Memory
  <2> QED BY <1>6, <2>1 DEF Quiet, Writes
<1>7. AdvanceJiffies \/ DetachEnd \/ AttachEnd \/ BalanceEnd
        => UNCHANGED <<rq, cfs, se, tl, start>>
  BY DEF AdvanceJiffies, DetachEnd, AttachEnd, BalanceEnd
<1>8. \A src \in CPUs : ChooseSrc(src) \/ MoreBalance(src)
        => UNCHANGED <<rq, cfs, se, tl, start>>
  BY DEF ChooseSrc, MoreBalance, BeginDetach
<1>9. CASE \E t \in Tasks, c \in CPUs : Wake(t, c) BY <1>9, WakeWrites
<1>10. CASE \E more \in BOOLEAN : DetachMove(more) BY <1>10, DetachWrites
<1>11. CASE AttachNext BY <1>11, AttachWrites
<1>12. CASE \E c \in CPUs : Schedule(c) \/ Tick(c) BY <1>3, <1>4, <1>12 DEF Writes
<1> QED BY <1>5, <1>6, <1>7, <1>8, <1>9, <1>10, <1>11, <1>12 DEF Next, BalanceStep

\* A step moves no task in the lists but the one it marks, and the task that
\* ends its flight lands in the queue of the destination alone.
LEMMA MovesListed ==
    ASSUME Settled, Moves, NEW u \in Tasks
    PROVE  /\ se'[u].task_on_rq = se[u].task_on_rq =>
                 \A c \in CPUs : u \in Listed(Memory', c) <=> u \in Listed(Memory, c)
           /\ se[u].task_on_rq = 2 /\ se'[u].task_on_rq = 1 =>
                 \A c \in CPUs : u \in Listed(Memory', c) <=> env.dst = c
<1>1. Memory.se = se /\ Memory'.se = se' BY DEF Memory
<1>2. \A c \in CPUs : u \in Listed(Memory, c) => se[u].task_on_rq = 1
  BY <1>1 DEF Settled, Sound, Shape, Accounted, TasksOnRq
<1>3. CASE Rests BY <1>1, <1>3 DEF Rests, Stays
<1>4. ASSUME NEW t \in Tasks, NEW c \in CPUs, Starts(t, c)
      PROVE  /\ t # u => /\ se'[u].task_on_rq = se[u].task_on_rq
                         /\ \A d \in CPUs : u \in Listed(Memory', d) <=> u \in Listed(Memory, d)
             /\ se[t].task_on_rq = 0 /\ se'[t].task_on_rq = 1
  BY <1>1, <1>4 DEF Starts, Arrived
<1>5. ASSUME NEW t \in Tasks, Detaches(t)
      PROVE  /\ t # u => /\ se'[u].task_on_rq = se[u].task_on_rq
                         /\ \A d \in CPUs : u \in Listed(Memory', d) <=> u \in Listed(Memory, d)
             /\ se'[t].task_on_rq = 2 /\ t = u => se[t].task_on_rq = 1
             /\ se'[t].task_on_rq = 2
  BY <1>1, <1>2, <1>5 DEF Detaches, Departed
<1>6. ASSUME NEW t \in Tasks, Attaches(t)
      PROVE  /\ t # u => /\ se'[u].task_on_rq = se[u].task_on_rq
                         /\ \A d \in CPUs : u \in Listed(Memory', d) <=> u \in Listed(Memory, d)
             /\ se[t].task_on_rq = 2 /\ se'[t].task_on_rq = 1
             /\ t = u => \A d \in CPUs : u \in Listed(Memory', d) <=> env.dst = d
  <2>1. env.tasks \in Seq(Tasks) BY DEF Settled, IInv, EnvOK, EnvType
  <2>2. t \in ToSet(env.tasks) BY <1>6, <2>1, TailElements DEF Attaches, Settled, Flight
  <2>3. se[t].task_on_rq = 2 BY <2>2 DEF Settled, Flight
  <2>4. t = u => \A d \in CPUs : u \notin Listed(Memory, d) BY <1>2, <2>3
  <2> QED BY <1>1, <1>6, <2>3, <2>4 DEF Attaches, Arrived
<1>7. CASE \E t \in Tasks, c \in CPUs : Starts(t, c) BY <1>4, <1>7
<1>8. CASE \E t \in Tasks : Detaches(t) BY <1>5, <1>8
<1>9. CASE \E t \in Tasks : Attaches(t) BY <1>6, <1>9
<1> QED BY <1>3, <1>7, <1>8, <1>9 DEF Moves

\* A started task is in the queue it was started in alone.
LEMMA StartsListed ==
    ASSUME Settled, NEW t \in Tasks, NEW c \in CPUs, Starts(t, c)
    PROVE  \A d \in CPUs : t \in Listed(Memory', d) <=> c = d
<1>1. \A d \in CPUs : t \notin Listed(Memory, d)
  BY DEF Starts, Settled, Sound, Shape, Accounted, TasksOnRq, Memory
<1> QED BY <1>1 DEF Starts, Arrived

\* The destination does not change while a task is in flight.
LEMMA FlightKeepsDst ==
    ASSUME Settled, Next, env.tasks # << >> PROVE env'.dst = env.dst
<1>1. env.phase \in {"detach", "attach"} BY DEF Settled, Phased
<1>2. env \in EnvType BY DEF Settled, IInv, EnvOK
<1>3. ~Running("none") /\ ~Running("balance") BY <1>1 DEF Running
<1>4. CASE BalanceStep
  <2>1. DetachEnd \/ AttachEnd \/ DetachKeep => env'.dst = env.dst
    BY <1>2 DEF DetachEnd, AttachEnd, DetachKeep, EnvType
  <2>2. AttachNext => env'.dst = env.dst BY <1>2 DEF AttachNext, EnvType
  <2>3. ASSUME NEW more \in BOOLEAN, DetachMove(more) PROVE env'.dst = env.dst
    BY <1>2, <2>3 DEF DetachMove, EnvType
  <2> QED BY <1>4, <2>1, <2>2, <2>3 DEF BalanceStep
<1>5. CASE ~BalanceStep
  <2>1. AdvanceJiffies => env' = env BY DEF AdvanceJiffies
  <2>2. BalanceStep \/ AdvanceJiffies
    BY <1>3 DEF Next, Wake, Schedule, Tick, ChooseSrc, MoreBalance, BeginDetach, BalanceEnd
  <2> QED BY <1>5, <2>1, <2>2
<1> QED BY <1>4, <1>5

\* A task that the step does not write stays right and located,
LEMMA OthersStay ==
    ASSUME Posted, Next, Moves, NEW u \in Tasks, Entry(Memory', u) = Entry(Memory, u),
           start'[u] = start[u]
    PROVE  Right(Entry(Memory', u), start'[u]) /\ Located(u)'
<1>1. Right(Entry(Memory, u), start[u]) /\ Located(u) /\ Settled BY DEF Posted
<1>2. /\ se'[u].task_on_rq = se[u].task_on_rq /\ se'[u].cpu = se[u].cpu
      /\ se'[u].last_update = se[u].last_update
  BY DEF Entry, Memory
<1>3. \A c \in CPUs : u \in Listed(Memory', c) <=> u \in Listed(Memory, c)
  BY <1>1, <1>2, MovesListed
<1>4. se[u].task_on_rq = 2 => env'.dst = env.dst
  <2>1. se[u].task_on_rq = 2 => env.tasks # << >> BY <1>1 DEF Settled, Flight, ToSet
  <2> QED BY <1>1, <2>1, FlightKeepsDst
<1> QED BY <1>1, <1>2, <1>3, <1>4 DEF Located

\* and so does the one it writes.
LEMMA OpenedRight ==
    ASSUME Posted, NEW t \in Tasks, NEW c \in CPUs, NEW named \in UninitCpu,
           Opens(t, c, named)
    PROVE  Right(Entry(Memory', t), start'[t]) /\ Located(t)'
<1> DEFINE e == Entry(Memory, t)
           f == Entry(Memory', t)
<1>1. /\ Right(e, start[t]) /\ se[t].task_on_rq = 0 /\ Settled /\ start'[t] = [on |-> c, named |-> named]
  BY DEF Posted, StartOK, Opens, Starts
<1>2. e.last_update = 0 /\ start[t] = NotStarted /\ e.task_on_rq = 0
  BY <1>1 DEF Right, Entry, Memory
<1>3. e.off = [d \in CPUs |-> 0]
  <2>1. \A d \in CPUs : NULL # d BY IdleAssumption
  <2> QED BY <1>1, <1>2, <2>1 DEF Right, NotStarted, One
<1>4. f = Marked(Landed(Named(e, named), c), 1) BY DEF Opens, Posts
<1>5. f.last_update = 1 /\ f.task_on_rq = 1 /\ f.cpu = named
  BY <1>2, <1>4 DEF Landed, Marked, Named
<1>6. f.off = [d \in CPUs |-> One(c = d) - One(named = d)]
  <2> DEFINE g == Named(e, named)
  <2>0. g.last_update = 0 /\ g.cpu = named /\ g.off = e.off BY <1>2 DEF Named
  <2> HIDE DEF g, e
  <2>1. f.off = [d \in CPUs |-> e.off[d] + One(c = d) - One(named = d)]
    BY <1>4, <2>0 DEF Landed, Marked, g
  <2>2. \A d \in CPUs : e.off[d] + One(c = d) - One(named = d) = One(c = d) - One(named = d)
    BY <1>3 DEF One
  <2> QED BY <2>1, <2>2
<1>7. Right(f, start'[t]) BY <1>1, <1>5, <1>6 DEF Right
<1>8. \A d \in CPUs : t \in Listed(Memory', d) <=> c = d BY <1>1, StartsListed DEF Opens
<1>9. se'[t].task_on_rq = 1 /\ se'[t].cpu = named BY <1>5 DEF Entry, Memory
<1> QED BY <1>1, <1>7, <1>8, <1>9 DEF Located

LEMMA LeftRight ==
    ASSUME Posted, NEW t \in Tasks, Leaves(t)
    PROVE  Right(Entry(Memory', t), start'[t]) /\ Located(t)'
<1> DEFINE e == Entry(Memory, t)
           f == Entry(Memory', t)
<1>1. Right(e, start[t]) /\ Located(t) /\ Settled BY DEF Posted
<1>2. se[t].task_on_rq = 1
  BY <1>1 DEF Leaves, Settled, Sound, Shape, Accounted, TasksOnRq, Memory
<1>3. f = Marked(Sent(e, env.dst), 2) BY DEF Leaves, Posts
<1>4. /\ f.off = e.off /\ f.task_on_rq = 2 /\ f.cpu = env.dst
      /\ e.cpu # env.dst => f.last_update = 0
  BY <1>3 DEF Entry, Sent, Marked
<1>5. Right(f, start'[t]) BY <1>1, <1>4 DEF Right, Leaves
<1>6. /\ se'[t].task_on_rq = 2 /\ se'[t].cpu = env.dst
      /\ se[t].cpu # env.dst => se'[t].last_update = 0
  BY <1>4 DEF Entry, Memory
<1>7. start[t].on = start[t].named => se[t].cpu = env.src
  BY <1>1, <1>2 DEF Located, Leaves
<1>8. env.src # env.dst /\ env'.dst = env.dst /\ start' = start BY DEF Leaves
<1> QED BY <1>5, <1>6, <1>7, <1>8 DEF Located

LEMMA LandedRight ==
    ASSUME Posted, Moves, NEW t \in Tasks, Lands(t)
    PROVE  Right(Entry(Memory', t), start'[t]) /\ Located(t)'
<1> DEFINE e == Entry(Memory, t)
           f == Entry(Memory', t)
<1>1. Right(e, start[t]) /\ Located(t) /\ Settled BY DEF Posted
<1>2. se[t].cpu = env.dst /\ e.cpu = env.dst BY <1>1 DEF Lands, Located, Entry, Memory
<1>3. f = Marked(Landed(e, env.dst), 1) BY DEF Lands, Posts
<1>4. f.last_update = 1 /\ f.task_on_rq = 1 /\ f.cpu = env.dst
  BY <1>2, <1>3 DEF Entry, Landed, Marked
<1>5. f.off = e.off
  <2>1. CASE e.last_update = 1 BY <1>3, <2>1 DEF Entry, Landed, Marked
  <2>2. CASE e.last_update # 1
    <3>1. f.off = [d \in CPUs |-> e.off[d] + One(env.dst = d) - One(e.cpu = d)]
      BY <1>3, <2>2 DEF Entry, Landed, Marked
    <3>2. \A d \in CPUs : e.off[d] \in Int BY <1>1 DEF Right, One
    <3>3. \A d \in CPUs : e.off[d] + One(env.dst = d) - One(e.cpu = d) = e.off[d]
      BY <1>2, <3>2 DEF One
    <3>4. e.off = [d \in CPUs |-> e.off[d]] BY <1>1 DEF Right
    <3> QED BY <3>1, <3>3, <3>4
  <2> QED BY <2>1, <2>2
<1>6. Right(f, start'[t]) BY <1>1, <1>4, <1>5 DEF Right, Lands
<1>7. se'[t].task_on_rq = 1 /\ se'[t].cpu = env.dst BY <1>4 DEF Entry, Memory
<1>8. \A c \in CPUs : t \in Listed(Memory', c) <=> env.dst = c
  BY <1>1, <1>7, MovesListed DEF Lands
<1> QED BY <1>6, <1>7, <1>8 DEF Located

\* Every step keeps every entry right.
LEMMA StepPosted ==
    ASSUME TimelineContract, MemberContract, Posted, Next, Moves, NEW u \in Tasks
    PROVE  Right(Entry(Memory', u), start'[u]) /\ Located(u)'
<1> DEFINE Keeps(v) == Right(Entry(Memory', v), start'[v]) /\ Located(v)'
<1>1. start \in [Tasks -> [on : CPUs \cup {NULL}, named : UninitCpu \cup {NULL}]]
  BY DEF Posted, StartOK
<1>2. CASE Quiet BY <1>2, OthersStay DEF Quiet
<1>3. ASSUME NEW t \in Tasks, NEW c \in CPUs, NEW named \in UninitCpu, Opens(t, c, named)
      PROVE  Keeps(u)
  <2>1. CASE u = t BY <1>3, <2>1, OpenedRight
  <2>2. CASE u # t
    <3>1. Entry(Memory', u) = Entry(Memory, u) /\ start'[u] = start[u]
      BY <1>1, <1>3, <2>2 DEF Opens, Posts
    <3> QED BY <3>1, OthersStay
  <2> QED BY <2>1, <2>2
<1>4. ASSUME NEW t \in Tasks, Leaves(t) PROVE Keeps(u)
  <2>1. CASE u = t BY <1>4, <2>1, LeftRight
  <2>2. CASE u # t
    <3>1. Entry(Memory', u) = Entry(Memory, u) /\ start'[u] = start[u]
      BY <1>4, <2>2 DEF Leaves, Posts
    <3> QED BY <3>1, OthersStay
  <2> QED BY <2>1, <2>2
<1>5. ASSUME NEW t \in Tasks, Lands(t) PROVE Keeps(u)
  <2>1. CASE u = t BY <1>5, <2>1, LandedRight
  <2>2. CASE u # t
    <3>1. Entry(Memory', u) = Entry(Memory, u) /\ start'[u] = start[u]
      BY <1>5, <2>2 DEF Lands, Posts
    <3> QED BY <3>1, OthersStay
  <2> QED BY <2>1, <2>2
<1> QED BY <1>2, <1>3, <1>4, <1>5, StepWrites DEF Writes

\* It holds at the start,
LEMMA InitPosted ==
    ASSUME TimelineContract, MemberContract, StartJiffies > 0, Init
    PROVE  Posted
<1>1. Settled /\ jiffies > 0 BY InitSettled DEF Init
<1>2. StartOK BY DEF Init, StartOK, NotStarted
<1>3. ASSUME NEW t \in Tasks PROVE Right(Entry(Memory, t), start[t]) /\ Located(t)
  <2>1. se[t].last_update = 0 /\ se[t].task_on_rq = 0 /\ start[t] = NotStarted
    BY DEF Init, NewEntity, Entities
  <2>2. \A c \in CPUs : cfs[c].attached[t] = 0 BY DEF Init, NewCfs
  <2>3. \A c \in CPUs : NULL # c BY IdleAssumption
  <2>4. Off(Memory, t) = [c \in CPUs |-> One(start[t].on = c) - One(start[t].named = c)]
    BY <2>1, <2>2, <2>3 DEF Off, Memory, One, NotStarted
  <2> QED BY <2>1, <2>4 DEF Right, Entry, Memory, Located
<1> QED BY <1>1, <1>2, <1>3 DEF Posted

\* hence always.
LEMMA PostedAlways ==
    ASSUME TimelineContract, MemberContract, StartJiffies > 0
    PROVE  Spec => []Posted
<1>1. Init => Posted BY InitPosted
<1>2. Posted /\ StartOK' /\ [Next]_vars => Posted'
  <2>1. ASSUME Posted, StartOK', Next PROVE Posted'
    <3>1. Settled' /\ Moves BY <2>1, StepMoves DEF Posted
    <3>2. \A t \in Tasks : Right(Entry(Memory', t), start'[t]) /\ Located(t)'
      BY <2>1, <3>1, StepPosted
    <3>3. jiffies' > 0
      <4>1. jiffies \in Nat /\ jiffies > 0 BY <2>1 DEF Posted, Settled, IInv
      <4>2. jiffies' \in {jiffies, jiffies + 1}
        BY <2>1 DEF Next, BalanceStep, AdvanceJiffies, Wake, Schedule, Tick, ChooseSrc,
           MoreBalance, BeginDetach, DetachKeep, DetachMove, DetachEnd, AttachNext,
           AttachEnd, BalanceEnd
      <4> QED BY <4>1, <4>2
    <3> QED BY <2>1, <3>1, <3>2, <3>3 DEF Posted
  <2>2. ASSUME Posted, UNCHANGED vars PROVE Posted'
    <3>1. Settled'
      <4>1. IInv' BY <2>2 DEF Posted, Settled, IInv, EnvOK, Image, vars
      <4>2. Memory' = Memory /\ Flight' /\ Phased'
        BY <2>2 DEF Posted, Settled, Memory, Flight, Phased, vars
      <4> QED BY <2>2, <4>1, <4>2 DEF Posted, Settled
    <3>2. Memory' = Memory /\ start' = start /\ jiffies' = jiffies BY <2>2 DEF Memory, vars
    <3>3. \A t \in Tasks : Located(t)'
      BY <2>2, <3>2 DEF Posted, Located, vars
    <3>4. StartOK' BY <2>2, <3>2 DEF Posted, StartOK
    <3> QED BY <2>2, <3>1, <3>2, <3>3, <3>4 DEF Posted
  <2> QED BY <2>1, <2>2
<1> QED BY <1>1, <1>2, StartAlways, PTL DEF Spec

\* attach_entity_load_avg, called when a task is started and when its queue
\* sees it without a last_update_time, and migrate_task_rq, called for the CPU
\* that p->cpu names.  In every queue: the load of a task is attached where
\* p->cpu names the queue, once, and nowhere while the task has no
\* last_update_time, except for what its start got wrong.  A task whose
\* uninitialised p->cpu named the CPU selected for it has its load in the queue
\* it is in and in no other, and one whose p->cpu did not leaves one load too
\* many in the queue it was started in and one too few in the one that was
\* named, for good, wherever it migrates.  The program starts with a clock that
\* has moved (main.cpp:22).
THEOREM LoadsCountedOnce ==
    ASSUME TimelineContract, MemberContract, StartJiffies > 0
    PROVE  Spec => []LoadCountedOnce
<1>1. Posted => LoadCountedOnce
  <2> SUFFICES ASSUME Posted, NEW t \in Tasks, NEW c \in CPUs
               PROVE  /\ cfs[c].attached[t] =
                            One(se[t].last_update = 1 /\ se[t].cpu = c)
                              + One(start[t].on = c) - One(start[t].named = c)
                      /\ start[t].on = start[t].named =>
                            cfs[c].attached[t] = One(t \in Queued(c))
    BY DEF LoadCountedOnce
  <2> DEFINE a == One(se[t].last_update = 1 /\ se[t].cpu = c)
  <2>1. cfs[c].attached[t] \in Int BY DEF Posted, Settled, IInv, Image, Images, CfsType
  <2>2. Off(Memory, t)[c] = One(start[t].on = c) - One(start[t].named = c)
    BY DEF Posted, Right, Entry
  <2>3. Off(Memory, t)[c] = cfs[c].attached[t] - a BY DEF Off, Memory
  <2>4. a \in Int BY DEF One
  <2> HIDE DEF a
  <2>5. cfs[c].attached[t] = a + One(start[t].on = c) - One(start[t].named = c)
    BY <2>1, <2>2, <2>3, <2>4 DEF One
  <2>6. ASSUME start[t].on = start[t].named PROVE cfs[c].attached[t] = One(t \in Queued(c))
    <3>1. cfs[c].attached[t] = a BY <2>1, <2>4, <2>5, <2>6 DEF One
    <3>2. Queued(c) = Listed(Memory, c) BY DEF Queued, Listed, Memory
    <3>3. t \in Listed(Memory, c) => se[t].task_on_rq = 1
      BY DEF Posted, Settled, Sound, Shape, Accounted, TasksOnRq, Memory
    <3>4. se[t].task_on_rq \in 0 .. 2
      BY DEF Posted, Settled, IInv, Image, Images, SeImages, SeType, Entities
    <3>5. CASE se[t].task_on_rq = 0
      <4>1. se[t].last_update = 0 BY <3>5 DEF Posted, Right, Entry, Memory
      <4> QED BY <3>1, <3>2, <3>3, <3>5, <4>1 DEF One, a
    <3>6. CASE se[t].task_on_rq = 1
      <4>1. se[t].last_update = 1 BY <3>6 DEF Posted, Right, Entry, Memory
      <4>2. t \in Listed(Memory, c) <=> se[t].cpu = c
        BY <2>6, <3>6 DEF Posted, Located
      <4> QED BY <3>1, <3>2, <4>1, <4>2 DEF One, a
    <3>7. CASE se[t].task_on_rq = 2
      <4>1. se[t].last_update = 0 BY <2>6, <3>7 DEF Posted, Located
      <4> QED BY <3>1, <3>2, <3>3, <3>7, <4>1 DEF One, a
    <3> QED BY <3>4, <3>5, <3>6, <3>7
  <2> QED BY <2>5, <2>6 DEF a
<1> QED BY <1>1, PostedAlways, PTL

-----------------------------------------------------------------------------
(* The vruntimes, and what the order of the timelines is for: min_vruntime *)
(* is a lower bound of its queue, so that no vruntime wraps below zero     *)
(* when it is made relative, and the task that gets the CPU is not far     *)
(* ahead of the ones it leaves waiting.  Paced is what is true of the      *)
(* vruntimes of an image; Steady says that an operator writes none.        *)
CONSTANT InOrder(_, _)     \* (tl, key): every timeline of tl is in order of key

\* What the picker may rely on of a timeline: it stays in the order it is
\* searched in as long as only the keys of entities change that are not in it,
\* and the first entity has the least key.
OrderContract ==
    /\ \A key \in [Entities -> ULong] : InOrder(TLInit, key)
    /\ \A timeline \in ProperTimelines, key \in [Entities -> ULong] :
          InOrder(timeline, key) =>
             /\ \A other \in [Entities -> ULong] :
                   (\A c \in CPUs : \A t \in TLMembers(timeline, c) : other[t] = key[t])
                      => InOrder(timeline, other)
             /\ \A c \in CPUs :
                   /\ \A t \in Tasks : t \notin TLMembers(timeline, c) =>
                         (TLFault(TLInsert(timeline, c, t, key)) = "none"
                            => InOrder(TLInsert(timeline, c, t, key), key))
                   /\ \A t \in TLMembers(timeline, c) :
                         /\ TLFault(TLErase(timeline, c, t)) = "none"
                               => InOrder(TLErase(timeline, c, t), key)
                         /\ ~ULess(key[t], key[TLFirst(timeline, c)])
                   /\ TLFault(TLWalk(timeline, c)) = "none"
                         => InOrder(TLWalk(timeline, c), key)

\* The keys the timelines are searched by: the copies in the tree nodes.
NodeKeys(s) == [e \in Entities |-> s.se[e].node_vruntime]

\* The copy of a queued task is right, and min_vruntime is not above it.
InStep(s, c, t) ==
    /\ s.se[t].node_vruntime = s.se[t].vruntime
    /\ s.se[t].vruntime >= s.cfs[c].min_vruntime

\* Vruntimes are not negative, a task that is not queued keeps its lag, and
\* nobody was charged for a time that is still to come.
Paced(s) ==
    /\ InOrder(s.tl, NodeKeys(s))
    /\ \A c \in CPUs : s.cfs[c].min_vruntime >= 0
    /\ \A t \in Tasks : s.se[t].vruntime >= 0 /\ s.se[t].exec_start <= Now
    /\ \A c \in CPUs : \A t \in Listed(s, c) : InStep(s, c, t)

\* The part of Shape that holds while a task changes its state, too.
Queues(s) == Live(s) /\ Accounted(s) /\ CurrListed(s) /\ WaitersTimed(s)

\* Nothing that the vruntimes depend on has changed.
Steady(s, r) ==
    /\ r.tl = s.tl
    /\ \A e \in Entities : /\ r.se[e].vruntime = s.se[e].vruntime
                           /\ r.se[e].node_vruntime = s.se[e].node_vruntime
                           /\ r.se[e].exec_start = s.se[e].exec_start
    /\ \A c \in CPUs : /\ r.cfs[c].min_vruntime = s.cfs[c].min_vruntime
                       /\ Listed(r, c) = Listed(s, c)
                       /\ r.rq[c].curr = s.rq[c].curr

\* The task that runs on c is at most wakeup_granularity ahead of the others.
FairOn(s, c) ==
    s.rq[c].curr \in Tasks =>
        \A t \in Listed(s, c) : s.se[t].vruntime + sysctl_sched_wakeup_granularity
                                   >= s.se[s.rq[c].curr].vruntime

-----------------------------------------------------------------------------
\* Only tasks are listed.
LEMMA ListedTasks ==
    ASSUME NEW s \in Images, NEW c \in CPUs
    PROVE  Listed(s, c) \subseteq Tasks /\ Listed(s, c) \subseteq Entities
<1>1. s.rq[c].cfs_tasks \in Seq(Tasks) BY DEF Images, RqType
<1>2. Listed(s, c) \subseteq Tasks BY <1>1 DEF Listed, ToSet
<1> QED BY <1>2 DEF Entities

\* What is steady stays paced, and the picks stay fair.
LEMMA SteadyPaced ==
    ASSUME NEW s \in Images, NEW r, Steady(s, r)
    PROVE  /\ Paced(s) => Paced(r)
           /\ \A c \in CPUs : FairOn(s, c) => FairOn(r, c)
<1>1. NodeKeys(r) = NodeKeys(s) BY DEF NodeKeys, Steady
<1>2. \A t \in Tasks : t \in Entities BY DEF Entities
<1>3. \A c \in CPUs : Listed(s, c) \subseteq Entities BY ListedTasks
<1>4. Paced(s) => Paced(r)
  <2> SUFFICES ASSUME Paced(s) PROVE Paced(r) OBVIOUS
  <2>1. InOrder(r.tl, NodeKeys(r)) BY <1>1 DEF Steady, Paced
  <2>2. \A c \in CPUs : r.cfs[c].min_vruntime >= 0 BY DEF Steady, Paced
  <2>3. \A t \in Tasks : r.se[t].vruntime >= 0 /\ r.se[t].exec_start <= Now
    BY <1>2 DEF Steady, Paced
  <2>4. ASSUME NEW c \in CPUs, NEW t \in Listed(r, c) PROVE InStep(r, c, t)
    <3>1. t \in Listed(s, c) /\ t \in Entities BY <1>3 DEF Steady
    <3>2. InStep(s, c, t) BY <3>1 DEF Paced
    <3> QED BY <3>1, <3>2 DEF InStep, Steady
  <2> QED BY <2>1, <2>2, <2>3, <2>4 DEF Paced
<1>5. ASSUME NEW c \in CPUs, FairOn(s, c) PROVE FairOn(r, c)
  <2>1. r.rq[c].curr = s.rq[c].curr /\ Listed(r, c) = Listed(s, c) BY DEF Steady
  <2>2. \A t \in Entities : r.se[t].vruntime = s.se[t].vruntime BY DEF Steady
  <2> QED BY <1>2, <1>3, <1>5, <2>1, <2>2 DEF FairOn
<1> QED BY <1>4, <1>5

\* The number types of an image.
LEMMA Numbers ==
    ASSUME NEW s \in Images
    PROVE  /\ \A e \in Entities : /\ s.se[e].vruntime \in Int
                                  /\ s.se[e].node_vruntime \in Int
                                  /\ s.se[e].exec_start \in Int
           /\ \A c \in CPUs : s.cfs[c].min_vruntime \in Int
           /\ NodeKeys(s) \in [Entities -> ULong]
BY DEF Images, SeImages, SeType, CfsType, ULong, NodeKeys

\* The share of a charge that a weight leaves is not negative.
LEMMA Quotient ==
    ASSUME NEW a \in Nat, NEW w \in Nat \ {0} PROVE a \div w \in Nat
OBVIOUS

\* Operators that write no vruntime keep the queues.
LEMMA SameQueues ==
    ASSUME NEW s \in Images, NEW r \in Images, Queues(s), Same(s, r), ~Stopped(r)
    PROVE  /\ Queues(r)
           /\ \A c \in CPUs : /\ Listed(r, c) = Listed(s, c)
                              /\ r.rq[c].curr = s.rq[c].curr
                              /\ r.cfs[c].curr = s.cfs[c].curr
           /\ \A e \in Entities : r.se[e].on_rq = s.se[e].on_rq
<1>1. /\ Live(r)
      /\ \A c \in CPUs : SameQueue(s, r, c)
      /\ \A e \in Entities : SameEntity(s, r, e)
  BY DEF Same, Queues, Live
<1>2. \A c \in CPUs : Listed(r, c) = Listed(s, c)
  BY <1>1 DEF Listed, SameQueue, SameRq
<1>3. \A t \in Tasks : t \in Entities BY DEF Entities
<1> USE <1>1 DEF SameQueue, SameRq, SameCfs, NoLighter, SameWaiters, SameEntity
<1>4. Accounted(r) BY <1>2, <1>3 DEF Queues, Accounted
<1>5. CurrListed(r) BY <1>2 DEF Queues, CurrListed
<1>6. WaitersTimed(r) BY <1>2 DEF Queues, WaitersTimed
<1> QED BY <1>2, <1>4, <1>5, <1>6 DEF Queues

\* Queues is a part of Shape.
LEMMA ShapeQueues == ASSUME NEW s, Shape(s) PROVE Queues(s)
BY DEF Shape, Queues

\* What the queues say of the running task of c.
LEMMA QueuesCurr ==
    ASSUME NEW s \in Images, Queues(s), NEW c \in CPUs
    PROVE  /\ CurrQueued(s, c)
           /\ s.cfs[c].curr # NULL
                 => /\ s.cfs[c].curr \in Listed(s, c) /\ s.cfs[c].curr \in Tasks
                    /\ s.rq[c].curr = s.cfs[c].curr
           /\ \A t \in Listed(s, c) : s.se[t].on_rq = 1
           /\ NULL \notin Tasks
           /\ \A t \in Tasks : s.se[t].on_rq # 1 =>
                 \A d \in CPUs : /\ t \notin Listed(s, d)
                                 /\ t \notin TLMembers(s.tl, d) /\ s.cfs[d].curr # t
           /\ \A d \in CPUs : s.cfs[c].curr \notin TLMembers(s.tl, d)
<1>1. NULL \notin Tasks BY IdleAssumption DEF Entities
<1>2. \A d \in CPUs : Listed(s, d) \subseteq Tasks BY ListedTasks
<1>3. \A d \in CPUs : s.cfs[d].curr # NULL
        => s.cfs[d].curr \in Listed(s, d) /\ s.rq[d].curr = s.cfs[d].curr
  BY DEF Queues, CurrListed
<1>4. \A d \in CPUs : \A t \in Listed(s, d) : s.se[t].on_rq = 1
  BY <1>2 DEF Queues, Accounted
<1>5. \A d \in CPUs : TLMembers(s.tl, d) = Listed(s, d) \ {s.cfs[d].curr}
  BY DEF Queues, WaitersTimed
<1>6. ASSUME NEW d \in CPUs, s.cfs[c].curr \in TLMembers(s.tl, d) PROVE FALSE
  <2>1. s.cfs[c].curr \in Listed(s, d) /\ s.cfs[c].curr # s.cfs[d].curr BY <1>5, <1>6
  <2>2. s.cfs[c].curr # NULL BY <1>1, <1>2, <2>1
  <2>3. c # d /\ s.cfs[c].curr \in Listed(s, c) BY <1>3, <2>1, <2>2
  <2> QED BY <2>1, <2>3 DEF Queues, Accounted
<1>7. ASSUME NEW t \in Tasks, s.se[t].on_rq # 1, NEW d \in CPUs
      PROVE  t \notin Listed(s, d) /\ t \notin TLMembers(s.tl, d) /\ s.cfs[d].curr # t
  BY <1>1, <1>3, <1>4, <1>5, <1>7
<1> QED BY <1>1, <1>2, <1>3, <1>4, <1>6, <1>7 DEF CurrQueued

-----------------------------------------------------------------------------
(* class cfs_rq.                                                           *)

\* Charging the running task moves it further ahead.
LEMMA ChargedPaced ==
    ASSUME OrderContract, jiffies \in Nat, NEW s \in Images, NEW c \in CPUs,
           Queues(s), Paced(s), s.cfs[c].curr # NULL
    PROVE  LET r == Charged(s, c)
           IN  /\ Paced(r) /\ r.rq = s.rq /\ r.cfs = s.cfs /\ r.tl = s.tl
               /\ r.fault = s.fault
               /\ \A e \in Entities : r.se[e].on_rq = s.se[e].on_rq
<1> DEFINE curr == s.cfs[c].curr
           v    == s.se[curr].vruntime
                     + ((Now - s.se[curr].exec_start) * NICE_0_LOAD) \div Weight[curr]
           r    == Charged(s, c)
<1>1. curr \in Tasks /\ curr \in Entities /\ curr \in Listed(s, c)
  BY QueuesCurr DEF Entities
<1>2. /\ r.rq = s.rq /\ r.cfs = s.cfs /\ r.tl = s.tl /\ r.fault = s.fault
      /\ \A e \in Entities \ {curr} : r.se[e] = s.se[e]
      /\ r.se[curr].vruntime = v /\ r.se[curr].node_vruntime = v
      /\ r.se[curr].exec_start = Now
      /\ \A e \in Entities : r.se[e].on_rq = s.se[e].on_rq
  <2> DEFINE x == s.se[curr].sum_exec_runtime + (Now - s.se[curr].exec_start)
  <2>1. r = update_vruntime([s EXCEPT !.se[curr].exec_start = Now,
                                      !.se[curr].sum_exec_runtime = x], curr, v)
    BY <1>1 DEF Charged, Images, SeImages, SeType
  <2> HIDE DEF r, v, x, curr
  <2> QED BY <1>1, <2>1 DEF update_vruntime, Images, SeImages, SeType
<1>3. Now \in Int BY DEF Now, jiffies_to_msecs
<1>4. v \in Int /\ v >= s.se[curr].vruntime
  <2> DEFINE delta == Now - s.se[curr].exec_start
  <2>1. s.se[curr].exec_start \in Int /\ s.se[curr].vruntime \in Int BY <1>1, Numbers
  <2>2. s.se[curr].exec_start <= Now BY <1>1 DEF Paced
  <2>3. delta \in Nat BY <1>3, <2>1, <2>2
  <2>4. Weight[curr] \in Nat \ {0} BY <1>1, WeightAssumption
  <2> HIDE DEF delta
  <2>5. delta * NICE_0_LOAD \in Nat BY <2>3 DEF NICE_0_LOAD
  <2>6. (delta * NICE_0_LOAD) \div Weight[curr] \in Nat BY <2>4, <2>5, Quotient
  <2> QED BY <2>1, <2>6 DEF delta
<1>5. r \in Images BY ChargeCurr DEF Advances
<1> HIDE DEF r, v
<1>6. InOrder(r.tl, NodeKeys(r))
  <2>1. s.tl \in ProperTimelines /\ InOrder(s.tl, NodeKeys(s))
    BY DEF Queues, Live, Paced
  <2>2. NodeKeys(s) \in [Entities -> ULong] /\ NodeKeys(r) \in [Entities -> ULong]
    BY <1>5, Numbers
  <2>3. ASSUME NEW d \in CPUs, NEW t \in TLMembers(s.tl, d)
        PROVE  NodeKeys(r)[t] = NodeKeys(s)[t]
    <3>1. t # curr BY QueuesCurr
    <3>2. t \in Entities BY ListedTasks DEF Queues, WaitersTimed
    <3> QED BY <1>2, <3>1, <3>2 DEF NodeKeys
  <2> QED BY <1>2, <2>1, <2>2, <2>3 DEF OrderContract
<1>7. \A d \in CPUs : r.cfs[d].min_vruntime >= 0 BY <1>2 DEF Paced
<1>8. ASSUME NEW t \in Tasks PROVE r.se[t].vruntime >= 0 /\ r.se[t].exec_start <= Now
  <2>1. t \in Entities /\ s.se[t].vruntime >= 0 /\ s.se[t].exec_start <= Now
    BY DEF Paced, Entities
  <2>2. CASE t = curr
    <3>1. s.se[curr].vruntime \in Int BY <1>1, Numbers
    <3> QED BY <1>2, <1>3, <1>4, <2>1, <2>2, <3>1
  <2>3. CASE t # curr BY <1>2, <2>1, <2>3
  <2> QED BY <2>2, <2>3
<1>9. ASSUME NEW d \in CPUs, NEW t \in Listed(r, d) PROVE InStep(r, d, t)
  <2>1. t \in Listed(s, d) BY <1>2 DEF Listed
  <2>2. t \in Entities BY <2>1, ListedTasks
  <2>3. InStep(s, d, t) BY <2>1 DEF Paced
  <2>4. CASE t = curr
    <3>1. s.se[curr].vruntime \in Int /\ s.cfs[d].min_vruntime \in Int BY <1>1, Numbers
    <3> QED BY <1>2, <1>4, <2>3, <2>4, <3>1 DEF InStep
  <2>5. CASE t # curr BY <1>2, <2>2, <2>3, <2>5 DEF InStep
  <2> QED BY <2>4, <2>5
<1>10. Paced(r) BY <1>6, <1>7, <1>8, <1>9 DEF Paced
<1> QED BY <1>2, <1>10 DEF r

\* Nobody who waits is behind the first entity of the timeline.
LEMMA FirstLeast ==
    ASSUME MemberContract, OrderContract, NEW s \in Images, NEW c \in CPUs,
           s.tl \in ProperTimelines, Paced(s), TLMembers(s.tl, c) \subseteq Listed(s, c),
           NEW t \in TLMembers(s.tl, c)
    PROVE  LET left == TLFirst(s.tl, c)
           IN  /\ left \in TLMembers(s.tl, c)
               /\ s.se[left].vruntime <= s.se[t].vruntime
<1> DEFINE left == TLFirst(s.tl, c)
           min  == s.cfs[c].min_vruntime
<1>1. left \in TLMembers(s.tl, c) BY DEF MemberContract
<1> HIDE DEF left
<1>2. \A u \in TLMembers(s.tl, c) :
         /\ u \in Entities /\ s.se[u].vruntime \in Int /\ s.se[u].vruntime >= min
         /\ s.se[u].node_vruntime = s.se[u].vruntime
  BY ListedTasks, Numbers DEF Paced, InStep
<1>3. min \in Int /\ min >= 0 BY Numbers DEF Paced
<1>4. NodeKeys(s) \in [Entities -> ULong] BY Numbers
<1>5. ~ULess(NodeKeys(s)[t], NodeKeys(s)[left]) BY <1>4 DEF OrderContract, Paced, left
<1>6. ~ULess(s.se[t].vruntime, s.se[left].vruntime) BY <1>1, <1>2, <1>5 DEF NodeKeys
<1>7. /\ s.se[t].vruntime \in Int /\ s.se[t].vruntime >= min
      /\ s.se[left].vruntime \in Int /\ s.se[left].vruntime >= min
  BY <1>1, <1>2
<1>8. s.se[left].vruntime <= s.se[t].vruntime BY <1>3, <1>6, <1>7 DEF ULess
<1> QED BY <1>1, <1>8 DEF left

\* min_vruntime moves, but not past anybody who is queued: the timeline has
\* its first entity in front.
LEMMA MinVruntimePaced ==
    ASSUME MemberContract, OrderContract, TimelineContract, NEW s \in Images, NEW c \in CPUs,
           Queues(s), Paced(s)
    PROVE  LET r == update_min_vruntime(s, c)
           IN  Paced(r) /\ r.rq = s.rq /\ r.se = s.se /\ r.tl = s.tl /\ r.fault = s.fault
<1> DEFINE curr == s.cfs[c].curr
           left == TLFirst(s.tl, c)
           runs == curr # NULL /\ s.se[curr].on_rq = 1
           v    == CASE runs /\ left # NULL  -> UMin(s.se[curr].vruntime,
                                                     s.se[left].node_vruntime)
                     [] runs /\ left = NULL  -> s.se[curr].vruntime
                     [] ~runs /\ left # NULL -> s.se[left].node_vruntime
                     [] OTHER                -> s.cfs[c].min_vruntime
           m    == UMax(s.cfs[c].min_vruntime, v)
           r    == update_min_vruntime(s, c)
<1>1. /\ r.rq = s.rq /\ r.se = s.se /\ r.tl = s.tl /\ r.fault = s.fault
      /\ \A d \in CPUs \ {c} : r.cfs[d].min_vruntime = s.cfs[d].min_vruntime
      /\ r.cfs[c].min_vruntime = m
  <2> HIDE DEF m
  <2>1. r = [s EXCEPT !.cfs[c].min_vruntime = m, !.cfs[c].curr = IF runs THEN curr ELSE NULL]
    BY ZenonT(30) DEF update_min_vruntime, m
  <2> HIDE DEF r
  <2> QED BY <2>1 DEF Images, CfsType
<1> DEFINE min == s.cfs[c].min_vruntime
<1>2. min \in Int /\ min >= 0 BY Numbers DEF Paced
<1>3. \A t \in Listed(s, c) : /\ t \in Tasks /\ t \in Entities
                              /\ s.se[t].vruntime \in Int /\ s.se[t].vruntime >= min
                              /\ s.se[t].node_vruntime = s.se[t].vruntime
  BY ListedTasks, Numbers DEF Paced, InStep
<1>4. /\ runs <=> curr # NULL
      /\ runs => curr \in Listed(s, c)
  BY QueuesCurr DEF CurrQueued
<1>5. TLMembers(s.tl, c) = Listed(s, c) \ {curr} /\ s.tl \in ProperTimelines
  BY DEF Queues, WaitersTimed, Live
<1>6. left = NULL => Listed(s, c) \subseteq {curr}
  <2>1. TLMembers(s.tl, c) # {} => left \in TLMembers(s.tl, c)
    BY <1>5 DEF MemberContract
  <2>2. NULL \notin Tasks BY QueuesCurr
  <2> QED BY <1>3, <1>5, <2>1, <2>2
<1>7. left # NULL => /\ left \in Listed(s, c)
                     /\ \A t \in Listed(s, c) \ {curr} :
                           s.se[left].vruntime <= s.se[t].vruntime
  <2> SUFFICES ASSUME left # NULL
               PROVE  /\ left \in Listed(s, c)
                      /\ \A t \in Listed(s, c) \ {curr} :
                            s.se[left].vruntime <= s.se[t].vruntime
    OBVIOUS
  <2>1. left \in TLMembers(s.tl, c) BY <1>5 DEF MemberContract
  <2>2. left \in Listed(s, c) BY <1>5, <2>1
  <2>3. TLMembers(s.tl, c) \subseteq Listed(s, c) BY <1>5
  <2>4. \A t \in TLMembers(s.tl, c) : s.se[left].vruntime <= s.se[t].vruntime
    BY <1>5, <2>3, FirstLeast
  <2> QED BY <1>5, <2>2, <2>4
<1> HIDE DEF curr, left, min, r
<1>8. /\ v \in Int /\ v >= min
      /\ \A t \in Listed(s, c) : v <= s.se[t].vruntime
  <2>1. CASE runs /\ left # NULL
    <3>1. v = UMin(s.se[curr].vruntime, s.se[left].vruntime) BY <1>3, <1>7, <2>1
    <3>2. s.se[curr].vruntime >= min /\ s.se[left].vruntime >= min
          /\ s.se[curr].vruntime \in Int /\ s.se[left].vruntime \in Int
      BY <1>3, <1>4, <1>7, <2>1
    <3>3. /\ v \in Int /\ v >= min /\ v <= s.se[curr].vruntime /\ v <= s.se[left].vruntime
      BY ONLY <1>2, <3>1, <3>2 DEF UMin, ULess
    <3> HIDE DEF v
    <3>4. ASSUME NEW t \in Listed(s, c) PROVE v <= s.se[t].vruntime
      <4>1. CASE t = curr BY <3>3, <4>1
      <4>2. CASE t # curr
        <5>1. s.se[left].vruntime <= s.se[t].vruntime BY <1>7, <2>1, <4>2
        <5> QED BY <1>3, <3>2, <3>3, <5>1
      <4> QED BY <4>1, <4>2
    <3> QED BY <3>3, <3>4
  <2>2. CASE runs /\ left = NULL
    <3>1. v = s.se[curr].vruntime BY <2>2
    <3> QED BY <1>3, <1>4, <1>6, <2>2, <3>1
  <2>3. CASE ~runs /\ left # NULL
    <3>1. v = s.se[left].vruntime BY <1>3, <1>7, <2>3
    <3>2. curr \notin Listed(s, c)
      <4>1. curr = NULL BY <1>4, <2>3
      <4> QED BY <1>3, <4>1, QueuesCurr
    <3> QED BY <1>3, <1>7, <2>3, <3>1, <3>2
  <2>4. CASE ~runs /\ left = NULL
    <3>1. v = min BY <2>4 DEF min
    <3> QED BY <1>2, <1>3, <3>1
  <2> QED BY <2>1, <2>2, <2>3, <2>4
<1> HIDE DEF v
<1>9. m = v BY <1>2, <1>8 DEF UMax, ULess, min
<1> HIDE DEF m
<1>10. ASSUME NEW d \in CPUs
       PROVE  /\ r.cfs[d].min_vruntime >= 0
              /\ \A t \in Listed(s, d) : s.se[t].vruntime >= r.cfs[d].min_vruntime
  <2>1. CASE d = c BY <1>1, <1>2, <1>3, <1>8, <1>9, <2>1
  <2>2. CASE d # c BY <1>1, <2>2 DEF Paced, InStep
  <2> QED BY <2>1, <2>2
<1>11. \A d \in CPUs : Listed(r, d) = Listed(s, d) BY <1>1 DEF Listed
<1>12. NodeKeys(r) = NodeKeys(s) BY <1>1 DEF NodeKeys
<1>13. Paced(r) BY <1>1, <1>10, <1>11, <1>12 DEF Paced, InStep
<1> QED BY <1>1, <1>13 DEF r

\* update_curr.
LEMMA CurrPaced ==
    ASSUME TimelineContract, MemberContract, OrderContract, jiffies \in Nat,
           NEW s \in Images, NEW c \in CPUs, Queues(s), Paced(s)
    PROVE  LET r == update_curr(s, c)
           IN  /\ r \in Images /\ Same(s, r) /\ Queues(r) /\ Paced(r)
               /\ r.fault = s.fault
<1> DEFINE r == update_curr(s, c)
           q == Charged(s, c)
<1>1. r = s \/ (s.cfs[c].curr # NULL /\ r = update_min_vruntime(q, c))
  BY DEF update_curr, Charged
<1>2. r \in Images /\ Same(s, r)
  BY UpdateCurr, SameCurr, QueuesCurr DEF Advances
<1>3. Paced(r) /\ r.fault = s.fault
  <2>1. CASE r = s BY <2>1
  <2>2. CASE s.cfs[c].curr # NULL /\ r = update_min_vruntime(q, c)
    <3>1. /\ Paced(q) /\ q.rq = s.rq /\ q.cfs = s.cfs /\ q.tl = s.tl /\ q.fault = s.fault
          /\ \A e \in Entities : q.se[e].on_rq = s.se[e].on_rq
      BY <2>2, ChargedPaced
    <3>2. q \in Images BY <2>2, ChargeCurr DEF Advances
    <3> HIDE DEF q
    <3>3. Queues(q)
      BY <3>1 DEF Queues, Live, Stopped, Accounted, CurrListed, WaitersTimed, Listed, Entities
    <3> QED BY <2>2, <3>1, <3>2, <3>3, MinVruntimePaced
  <2> QED BY <1>1, <2>1, <2>2
<1>4. ~Stopped(r) BY <1>3 DEF Queues, Live, Stopped
<1> HIDE DEF r
<1>5. Queues(r) BY <1>2, <1>4, SameQueues
<1> QED BY <1>2, <1>3, <1>5 DEF r

-----------------------------------------------------------------------------
(* The timeline.                                                           *)

\* Printing a timeline leaves it in order.
LEMMA WalkPaced ==
    ASSUME OrderContract, NEW s \in Images, NEW c \in CPUs, Live(s), Paced(s),
           ~Stopped(debug_tasktimeline(s, c))
    PROVE  LET r == debug_tasktimeline(s, c)
           IN  Paced(r) /\ r.rq = s.rq /\ r.cfs = s.cfs /\ r.se = s.se
<1> DEFINE r == TreeOp(s, TLWalk(s.tl, c))
<1>1. debug_tasktimeline(s, c) = r BY DEF debug_tasktimeline, Live
<1>2. /\ r.rq = s.rq /\ r.cfs = s.cfs /\ r.se = s.se
      /\ r.tl = TLWalk(s.tl, c) /\ r.fault = TLFault(r.tl)
  BY DEF TreeOp, Images
<1> HIDE DEF r
<1>3. NodeKeys(s) \in [Entities -> ULong] /\ NodeKeys(r) = NodeKeys(s)
  BY <1>2, Numbers DEF NodeKeys
<1>4. InOrder(r.tl, NodeKeys(r))
  <2>1. TLFault(TLWalk(s.tl, c)) = "none" BY <1>1, <1>2 DEF Stopped
  <2> QED BY <1>2, <1>3, <2>1 DEF OrderContract, Live, Paced
<1>5. Paced(r) BY <1>2, <1>4 DEF Paced, InStep, Listed
<1> QED BY <1>1, <1>2, <1>5

\* The search for the place of a task finds it if its node has its vruntime.
LEMMA InsertPaced ==
    ASSUME OrderContract, NEW s \in Images, NEW c \in CPUs, Live(s), Paced(s),
           NEW t \in Tasks, t \notin TLMembers(s.tl, c),
           s.se[t].node_vruntime = s.se[t].vruntime,
           ~Stopped(__enqueue_entity(s, c, t))
    PROVE  LET r == __enqueue_entity(s, c, t)
           IN  Paced(r) /\ r.rq = s.rq /\ r.cfs = s.cfs /\ r.se = s.se
<1> DEFINE key == [x \in Entities |-> IF x = t THEN s.se[x].vruntime
                                     ELSE s.se[x].node_vruntime]
           r   == TreeOp(s, TLInsert(s.tl, c, t, key))
<1>1. __enqueue_entity(s, c, t) = r BY DEF __enqueue_entity, Live
<1>2. key = NodeKeys(s) BY DEF NodeKeys
<1> HIDE DEF key
<1>3. /\ r.rq = s.rq /\ r.cfs = s.cfs /\ r.se = s.se
      /\ r.tl = TLInsert(s.tl, c, t, key) /\ r.fault = TLFault(r.tl)
  BY DEF TreeOp, Images
<1> HIDE DEF r
<1>4. NodeKeys(s) \in [Entities -> ULong] /\ NodeKeys(r) = NodeKeys(s)
  BY <1>3, Numbers DEF NodeKeys
<1>5. InOrder(r.tl, NodeKeys(r))
  <2>1. TLFault(TLInsert(s.tl, c, t, NodeKeys(s))) = "none"
    BY <1>1, <1>2, <1>3 DEF Stopped
  <2> QED BY <1>2, <1>3, <1>4, <2>1 DEF OrderContract, Live, Paced
<1>6. Paced(r) BY <1>3, <1>5 DEF Paced, InStep, Listed
<1> QED BY <1>1, <1>3, <1>6

\* Taking a task out leaves the others in order.
LEMMA ErasePaced ==
    ASSUME OrderContract, NEW s \in Images, NEW c \in CPUs, Live(s), Paced(s),
           NEW t \in TLMembers(s.tl, c), ~Stopped(__dequeue_entity(s, c, t))
    PROVE  LET r == __dequeue_entity(s, c, t)
           IN  Paced(r) /\ r.rq = s.rq /\ r.cfs = s.cfs /\ r.se = s.se
<1> DEFINE r == TreeOp(s, TLErase(s.tl, c, t))
<1>1. __dequeue_entity(s, c, t) = r BY DEF __dequeue_entity, Live
<1>2. /\ r.rq = s.rq /\ r.cfs = s.cfs /\ r.se = s.se
      /\ r.tl = TLErase(s.tl, c, t) /\ r.fault = TLFault(r.tl)
  BY DEF TreeOp, Images
<1> HIDE DEF r
<1>3. NodeKeys(s) \in [Entities -> ULong] /\ NodeKeys(r) = NodeKeys(s)
  BY <1>2, Numbers DEF NodeKeys
<1>4. InOrder(r.tl, NodeKeys(r))
  <2>1. TLFault(TLErase(s.tl, c, t)) = "none" BY <1>1, <1>2 DEF Stopped
  <2> QED BY <1>2, <1>3, <2>1 DEF OrderContract, Live, Paced
<1>5. Paced(r) BY <1>2, <1>4 DEF Paced, InStep, Listed
<1> QED BY <1>1, <1>2, <1>5

-----------------------------------------------------------------------------
(* Enqueueing and dequeueing.                                              *)

\* A task that is not queued may get any vruntime.
LEMMA RenormPaced ==
    ASSUME OrderContract, NEW s \in Images, Queues(s), Paced(s),
           NEW t \in Tasks, s.se[t].on_rq # 1, NEW v \in ULong, v >= 0
    PROVE  LET r == update_vruntime(s, t, v)
           IN  /\ Paced(r) /\ r.rq = s.rq /\ r.cfs = s.cfs /\ r.fault = s.fault
               /\ r.se[t].vruntime = v /\ r.se[t].node_vruntime = v
<1> DEFINE r == update_vruntime(s, t, v)
<1>1. t \in Entities BY DEF Entities
<1>2. /\ r.rq = s.rq /\ r.cfs = s.cfs /\ r.tl = s.tl /\ r.fault = s.fault
      /\ \A e \in Entities \ {t} : r.se[e] = s.se[e]
      /\ r.se[t].vruntime = v /\ r.se[t].node_vruntime = v
      /\ r.se[t].exec_start = s.se[t].exec_start
  BY <1>1 DEF update_vruntime, Images, SeImages, SeType
<1>3. r \in Images BY UpdateVruntime DEF Advances
<1> HIDE DEF r
<1>4. \A d \in CPUs : t \notin Listed(s, d) /\ t \notin TLMembers(s.tl, d)
  BY QueuesCurr
<1>5. InOrder(r.tl, NodeKeys(r))
  <2>1. s.tl \in ProperTimelines /\ InOrder(s.tl, NodeKeys(s))
    BY DEF Queues, Live, Paced
  <2>2. NodeKeys(s) \in [Entities -> ULong] /\ NodeKeys(r) \in [Entities -> ULong]
    BY <1>3, Numbers
  <2>3. ASSUME NEW d \in CPUs, NEW u \in TLMembers(s.tl, d)
        PROVE  NodeKeys(r)[u] = NodeKeys(s)[u]
    <3>1. u # t BY <1>4
    <3>2. u \in Entities BY ListedTasks DEF Queues, WaitersTimed
    <3> QED BY <1>2, <3>1, <3>2 DEF NodeKeys
  <2> QED BY <1>2, <2>1, <2>2, <2>3 DEF OrderContract
<1>6. ASSUME NEW u \in Tasks PROVE r.se[u].vruntime >= 0 /\ r.se[u].exec_start <= Now
  <2>1. u \in Entities /\ s.se[u].vruntime >= 0 /\ s.se[u].exec_start <= Now
    BY DEF Paced, Entities
  <2>2. CASE u = t BY <1>2, <2>1, <2>2
  <2>3. CASE u # t BY <1>2, <2>1, <2>3
  <2> QED BY <2>2, <2>3
<1>7. ASSUME NEW d \in CPUs, NEW u \in Listed(r, d) PROVE InStep(r, d, u)
  <2>1. u \in Listed(s, d) BY <1>2 DEF Listed
  <2>2. u \in Entities /\ u # t BY <1>4, <2>1, ListedTasks
  <2> QED BY <1>2, <2>1, <2>2 DEF Paced, InStep
<1>8. Paced(r) BY <1>2, <1>5, <1>6, <1>7 DEF Paced
<1> QED BY <1>2, <1>8 DEF r

\* Loads are not vruntimes.
LEMMA AttachSteady ==
    ASSUME NEW s \in Images, NEW c \in CPUs, NEW t \in Tasks
    PROVE  LET r == attach_entity_load_avg(s, c, t)
           IN  Steady(s, r) /\ r.fault = s.fault
BY DEF Steady, attach_entity_load_avg, Images, SeImages, SeType, CfsType, Entities, Listed

\* The load averages write no vruntime: update_load_avg,
LEMMA LoadSteady ==
    ASSUME NEW s \in Images, NEW c \in CPUs, NEW t \in Tasks
    PROVE  LET r == update_load_avg(s, c, t)
           IN  Steady(s, r) /\ r.fault = s.fault
<1>1. Steady(s, s) BY DEF Steady
<1> QED BY <1>1, AttachSteady DEF update_load_avg

\* A task that is in step joins the list.
LEMMA AccountPaced ==
    ASSUME NEW s \in Images, NEW c \in CPUs, NEW t \in Tasks, Paced(s), InStep(s, c, t)
    PROVE  LET r == account_entity_enqueue(s, c, t)
           IN  Paced(r) /\ r.tl = s.tl /\ r.se = s.se /\ r.fault = s.fault
<1> DEFINE r == account_entity_enqueue(s, c, t)
<1>1. /\ r.tl = s.tl /\ r.se = s.se /\ r.fault = s.fault
      /\ \A d \in CPUs : r.cfs[d].min_vruntime = s.cfs[d].min_vruntime
      /\ \A d \in CPUs \ {c} : r.rq[d].cfs_tasks = s.rq[d].cfs_tasks
      /\ r.rq[c].cfs_tasks = Cons(t, s.rq[c].cfs_tasks)
  BY DEF account_entity_enqueue, Images, RqType, CfsType
<1> HIDE DEF r
<1>2. \A d \in CPUs : \A u \in Listed(r, d) : u \in Listed(s, d) \/ (d = c /\ u = t)
  <2>1. \A d \in CPUs \ {c} : Listed(r, d) = Listed(s, d) BY <1>1 DEF Listed
  <2>2. Listed(r, c) = Listed(s, c) \cup {t}
    <3>1. s.rq[c].cfs_tasks \in Seq(Tasks) BY DEF Images, RqType
    <3> QED BY <1>1, <3>1, ConsElements DEF Listed
  <2> QED BY <2>1, <2>2
<1>3. NodeKeys(r) = NodeKeys(s) BY <1>1 DEF NodeKeys
<1>4. Paced(r) BY <1>1, <1>2, <1>3 DEF Paced, InStep
<1> QED BY <1>1, <1>4 DEF r

\* nor does on_rq say anything of one.
LEMMA OnRqSteady ==
    ASSUME NEW s \in Images, NEW t \in Tasks, NEW b
    PROVE  LET r == [s EXCEPT !.se[t].on_rq = b]
           IN  Steady(s, r) /\ r.fault = s.fault
BY DEF Steady, Images, SeImages, SeType, Listed, Entities

\* enqueue_entity makes the vruntime absolute before it searches the place.
LEMMA EnqueuePaced ==
    ASSUME TimelineContract, MemberContract, OrderContract, jiffies \in Nat,
           NEW s \in Images, NEW c \in CPUs, Queues(s), Paced(s),
           NEW t \in Tasks, s.se[t].on_rq # 1, ~Stopped(enqueue_entity(s, c, t))
    PROVE  Paced(enqueue_entity(s, c, t))
<1> DEFINE s0 == update_curr(s, c)
           v  == s0.se[t].vruntime + s0.cfs[c].min_vruntime
           s1 == update_vruntime(s0, t, v)
           s2 == update_load_avg(s1, c, t)
           s3 == account_entity_enqueue(s2, c, t)
           s4 == __enqueue_entity(s3, c, t)
           s5 == [s4 EXCEPT !.se[t].on_rq = 1]
           r  == debug_tasktimeline(s5, c)
<1>1. t \in Entities BY DEF Entities
<1>2. enqueue_entity(s, c, t) = r
  <2>1. s.cfs[c].curr # t BY QueuesCurr
  <2> QED BY <2>1 DEF enqueue_entity
<1>3. s0 \in Images /\ Same(s, s0) /\ Queues(s0) /\ Paced(s0) BY CurrPaced
<1> HIDE DEF s0
<1>4. s0.se[t].on_rq # 1 BY <1>1, <1>3, SameQueues DEF Queues, Live
<1>5. v \in ULong /\ v >= s0.cfs[c].min_vruntime /\ v >= 0
  <2>1. s0.se[t].vruntime \in Int /\ s0.cfs[c].min_vruntime \in Int BY <1>1, <1>3, Numbers
  <2> QED BY <1>3, <2>1 DEF Paced, ULong
<1> HIDE DEF v
<1>6. s1 \in Images /\ Same(s0, s1)
  BY <1>3, <1>5, UpdateVruntime, SameVruntime DEF Advances
<1>7. /\ Paced(s1) /\ s1.cfs = s0.cfs /\ s1.fault = s0.fault
      /\ s1.se[t].vruntime = v /\ s1.se[t].node_vruntime = v
  BY <1>3, <1>4, <1>5, RenormPaced
<1> HIDE DEF s1
<1>8. s2 \in Images /\ Same(s1, s2) /\ Steady(s1, s2) /\ s2.fault = s1.fault
  BY <1>6, UpdateLoad, SameLoad, LoadSteady DEF Advances
<1> HIDE DEF s2
<1>9. Paced(s2) /\ InStep(s2, c, t) BY <1>1, <1>5, <1>6, <1>7, <1>8, SteadyPaced
  DEF Steady, InStep
<1>10. ~Stopped(s2) BY <1>3, <1>7, <1>8 DEF Queues, Live, Stopped
<1>11. Queues(s2) /\ s2.se[t].on_rq # 1
  <2>1. Same(s0, s2) BY <1>6, <1>8, SameTrans
  <2> QED BY <1>1, <1>3, <1>4, <1>8, <1>10, <2>1, SameQueues
<1>12. Paced(s3) /\ s3.tl = s2.tl /\ s3.se = s2.se /\ s3.fault = s2.fault
  BY <1>8, <1>9, AccountPaced
<1>13. s3 \in Images BY <1>8, AccountEnqueue DEF Advances
<1> HIDE DEF s3
<1>14. Live(s3) /\ t \notin TLMembers(s3.tl, c)
  BY <1>8, <1>11, <1>12, QueuesCurr DEF Queues, Live, Stopped
<1>15. s4 \in Images BY <1>13, EnqueueInTree DEF Advances
<1> HIDE DEF s4
<1>16. Steady(s4, s5) /\ s5.fault = s4.fault /\ s5 \in Images
  BY <1>1, <1>15, OnRqSteady, SetOnRq DEF Advances, Bit
<1> HIDE DEF s5
<1>17. ~Stopped(s5) BY <1>2 DEF debug_tasktimeline
<1>18. ~Stopped(s4) BY <1>16, <1>17 DEF Stopped
<1>19. Paced(s4) /\ s4.tl \in ProperTimelines
  <2>1. s3.se[t].node_vruntime = s3.se[t].vruntime BY <1>9, <1>12 DEF InStep
  <2>2. Retimed(s3, s4, c, TLMembers(s3.tl, c) \cup {t})
    BY <1>13, <1>14, TreeInsert DEF s4
  <2> QED BY <1>13, <1>14, <1>12, <1>18, <2>1, <2>2, InsertPaced DEF s4, Retimed
<1>20. Paced(s5) /\ Live(s5)
  BY <1>15, <1>16, <1>17, <1>19, SteadyPaced DEF Steady, Live
<1> QED BY <1>2, <1>16, <1>20, WalkPaced

\* activate_task only counts, besides.
LEMMA ActivatePaced ==
    ASSUME TimelineContract, MemberContract, OrderContract, jiffies \in Nat,
           NEW s \in Images, NEW c \in CPUs, Queues(s), Paced(s),
           NEW t \in Tasks, s.se[t].on_rq # 1, ~Stopped(activate_task(s, c, t))
    PROVE  Paced(activate_task(s, c, t))
<1> DEFINE q == enqueue_entity(s, c, t)
           r == activate_task(s, c, t)
<1>1. q \in Images BY EnqueueEntity DEF Advances
<1>2. r = [q EXCEPT !.cfs[c].h_nr_running = @ + 1, !.rq[c].nr_running = @ + 1]
  BY DEF activate_task
<1> HIDE DEF q, r
<1>3. Steady(q, r) /\ r.fault = q.fault
  BY <1>1, <1>2 DEF Steady, Listed, Images, RqType, CfsType
<1>4. ~Stopped(q) BY <1>3 DEF Stopped, r
<1>5. Paced(q) BY <1>4, EnqueuePaced DEF q
<1>6. Paced(r) BY <1>1, <1>3, <1>5, SteadyPaced
<1> QED BY <1>6 DEF r

\* A task leaves the list.
LEMMA UnaccountPaced ==
    ASSUME NEW s \in Images, NEW c \in CPUs, NEW t \in Listed(s, c), Paced(s),
           IsInjective(s.rq[c].cfs_tasks)
    PROVE  LET r == account_entity_dequeue(s, c, t)
           IN  /\ Paced(r) /\ r.tl = s.tl /\ r.se = s.se /\ r.fault = s.fault
               /\ \A d \in CPUs : r.cfs[d].min_vruntime = s.cfs[d].min_vruntime
               /\ Listed(r, c) = Listed(s, c) \ {t}
               /\ \A d \in CPUs \ {c} : Listed(r, d) = Listed(s, d)
<1> DEFINE r == account_entity_dequeue(s, c, t)
<1>1. /\ r.tl = s.tl /\ r.se = s.se /\ r.fault = s.fault
      /\ \A d \in CPUs : r.cfs[d].min_vruntime = s.cfs[d].min_vruntime
      /\ \A d \in CPUs \ {c} : r.rq[d].cfs_tasks = s.rq[d].cfs_tasks
      /\ r.rq[c].cfs_tasks = RemoveFirst(s.rq[c].cfs_tasks, t)
  BY DEF account_entity_dequeue, Images, RqType, CfsType
<1> HIDE DEF r
<1>2. /\ Listed(r, c) = Listed(s, c) \ {t}
      /\ \A d \in CPUs \ {c} : Listed(r, d) = Listed(s, d)
  <2>1. s.rq[c].cfs_tasks \in Seq(Tasks) BY DEF Images, RqType
  <2>2. Listed(r, c) = Listed(s, c) \ {t} BY <1>1, <2>1, RemoveFirstElements DEF Listed
  <2> QED BY <1>1, <2>2 DEF Listed
<1>3. NodeKeys(r) = NodeKeys(s) BY <1>1 DEF NodeKeys
<1>4. \A d \in CPUs : Listed(r, d) \subseteq Listed(s, d) BY <1>2
<1>5. Paced(r) BY <1>1, <1>3, <1>4 DEF Paced, InStep
<1> QED BY <1>1, <1>2, <1>5 DEF r

\* A task that is in no list any more keeps what it is ahead of its queue.
LEMMA LagPaced ==
    ASSUME NEW s \in Images, NEW t \in Tasks, Paced(s), NEW v \in ULong, v >= 0,
           \A d \in CPUs : t \notin Listed(s, d)
    PROVE  LET r == [s EXCEPT !.se[t].vruntime = v]
           IN  Paced(r) /\ r.tl = s.tl /\ r.fault = s.fault
<1> DEFINE r == [s EXCEPT !.se[t].vruntime = v]
<1>1. t \in Entities BY DEF Entities
<1>2. /\ r.rq = s.rq /\ r.cfs = s.cfs /\ r.tl = s.tl /\ r.fault = s.fault
      /\ \A e \in Entities : /\ r.se[e].node_vruntime = s.se[e].node_vruntime
                             /\ r.se[e].exec_start = s.se[e].exec_start
                             /\ e # t => r.se[e].vruntime = s.se[e].vruntime
      /\ r.se[t].vruntime = v
  BY <1>1 DEF Images, SeImages, SeType
<1> HIDE DEF r
<1>3. NodeKeys(r) = NodeKeys(s) BY <1>2 DEF NodeKeys
<1>4. \A u \in Tasks : r.se[u].vruntime >= 0 /\ r.se[u].exec_start <= Now
  BY <1>2 DEF Paced, Entities
<1>5. ASSUME NEW d \in CPUs, NEW u \in Listed(r, d) PROVE InStep(r, d, u)
  <2>1. u \in Listed(s, d) BY <1>2 DEF Listed
  <2>2. u \in Entities /\ u # t BY <2>1, ListedTasks
  <2> QED BY <1>2, <2>1, <2>2 DEF Paced, InStep
<1>6. Paced(r) BY <1>2, <1>3, <1>4, <1>5 DEF Paced
<1> QED BY <1>2, <1>6 DEF r

\* The buddy is no vruntime.
LEMMA BuddiesSteady ==
    ASSUME NEW s \in Images, NEW c \in CPUs, NEW e
    PROVE  LET r == clear_buddies(s, c, e)
           IN  /\ Steady(s, r) /\ r.rq = s.rq /\ r.se = s.se /\ r.fault = s.fault
               /\ \A d \in CPUs : r.cfs[d].curr = s.cfs[d].curr
BY DEF Steady, clear_buddies, Images, CfsType, Listed

\* dequeue_entity leaves in the vruntime what the task is ahead of its queue.
LEMMA DequeuePaced ==
    ASSUME TimelineContract, MemberContract, OrderContract, jiffies \in Nat,
           NEW s \in Images, NEW c \in CPUs, Queues(s), Paced(s),
           NEW t \in TLMembers(s.tl, c), ~Stopped(dequeue_entity(s, c, t))
    PROVE  Paced(dequeue_entity(s, c, t))
<1> DEFINE s0 == update_curr(s, c)
           s1 == clear_buddies(s0, c, t)
           s2 == IF t # s1.cfs[c].curr THEN __dequeue_entity(s1, c, t) ELSE s1
           q2 == [s2 EXCEPT !.se[t].on_rq = 0]
           s3 == account_entity_dequeue(q2, c, t)
           v  == s3.se[t].vruntime - s3.cfs[c].min_vruntime
           s4 == [s3 EXCEPT !.se[t].vruntime = v]
           r  == debug_tasktimeline(s4, c)
<1>1. dequeue_entity(s, c, t) = r BY DEF dequeue_entity
<1>2. s0 \in Images /\ Same(s, s0) /\ Queues(s0) /\ Paced(s0) BY CurrPaced
<1>3. t \in TLMembers(s0.tl, c)
  BY <1>2 DEF Queues, Same, SameQueue, SameWaiters, Live
<1> HIDE DEF s0
<1>4. /\ t \in Listed(s0, c) /\ t \in Tasks /\ t \in Entities /\ t # s0.cfs[c].curr
      /\ \A d \in CPUs \ {c} : t \notin Listed(s0, d)
      /\ IsInjective(s0.rq[c].cfs_tasks)
  BY <1>2, <1>3, ListedTasks DEF Queues, WaitersTimed, Accounted
<1>5. s1 \in Images /\ Steady(s0, s1) /\ s1.rq = s0.rq /\ s1.fault = s0.fault
      /\ s1.cfs[c].curr = s0.cfs[c].curr
  BY <1>2, BuddiesSteady, ClearBuddies DEF Advances
<1> HIDE DEF s1
<1>6. Paced(s1) /\ Live(s1) /\ t \in TLMembers(s1.tl, c) /\ s2 = __dequeue_entity(s1, c, t)
  BY <1>2, <1>3, <1>4, <1>5, SteadyPaced DEF Queues, Live, Stopped, Steady
<1>7. s2 \in Images /\ Retimed(s1, s2, c, TLMembers(s1.tl, c) \ {t})
  BY <1>4, <1>5, <1>6, TreeErase, DequeueFromTree DEF Advances
<1> HIDE DEF s2
<1>8. q2 \in Images /\ Steady(s2, q2) /\ q2.rq = s2.rq /\ q2.fault = s2.fault
  <2>1. q2.rq = s2.rq BY <1>7 DEF Images
  <2> QED BY <1>4, <1>7, <2>1, OnRqSteady, SetOnRq DEF Advances, Bit
<1> HIDE DEF q2
<1>9. q2.rq = s0.rq BY <1>5, <1>7, <1>8 DEF Retimed
<1>10. t \in Listed(q2, c) /\ IsInjective(q2.rq[c].cfs_tasks)
       /\ \A d \in CPUs \ {c} : t \notin Listed(q2, d)
  BY <1>4, <1>9 DEF Listed
<1>11. s3 \in Images /\ s3.fault = q2.fault
  <2>1. s3 \in Images BY <1>4, <1>8, AccountDequeue DEF Advances
  <2>2. s3.fault = q2.fault BY <1>8 DEF account_entity_dequeue, Images
  <2> QED BY <2>1, <2>2
<1>12. s4.fault = s3.fault BY <1>11 DEF Images
<1>13. ~Stopped(s4) BY <1>1 DEF debug_tasktimeline
<1>14. ~Stopped(s2) BY <1>8, <1>11, <1>12, <1>13 DEF Stopped
<1>15. Paced(s2) /\ s2.tl \in ProperTimelines
  BY <1>5, <1>6, <1>7, <1>14, ErasePaced DEF Retimed
<1>16. Paced(q2) BY <1>7, <1>8, <1>15, SteadyPaced
<1>17. /\ Paced(s3) /\ s3.tl = q2.tl /\ s3.se = q2.se
       /\ s3.cfs[c].min_vruntime = q2.cfs[c].min_vruntime
       /\ \A d \in CPUs : t \notin Listed(s3, d)
  BY <1>8, <1>10, <1>16, UnaccountPaced
<1> HIDE DEF s3
<1>18. v \in ULong /\ v >= 0
  <2>1. InStep(q2, c, t) BY <1>10, <1>16 DEF Paced
  <2>2. q2.se[t].vruntime \in Int /\ q2.cfs[c].min_vruntime \in Int
    BY <1>4, <1>8, Numbers
  <2> QED BY <1>17, <2>1, <2>2 DEF InStep, ULong
<1> HIDE DEF v
<1>19. s4 \in Images BY <1>4, <1>11, <1>18, SetVruntime DEF Advances
<1>20. Paced(s4) /\ s4.tl = s3.tl BY <1>4, <1>11, <1>17, <1>18, LagPaced
<1> HIDE DEF s4
<1>21. Live(s4) BY <1>8, <1>13, <1>15, <1>17, <1>20 DEF Live, Steady
<1> QED BY <1>1, <1>19, <1>20, <1>21, WalkPaced

\* deactivate_task only counts, besides.
LEMMA DeactivatePaced ==
    ASSUME TimelineContract, MemberContract, OrderContract, jiffies \in Nat,
           NEW s \in Images, NEW c \in CPUs, Queues(s), Paced(s),
           NEW t \in TLMembers(s.tl, c), ~Stopped(deactivate_task(s, c, t))
    PROVE  Paced(deactivate_task(s, c, t))
<1> DEFINE q == dequeue_entity(s, c, t)
           r == deactivate_task(s, c, t)
<1>1. t \in Tasks BY ListedTasks DEF Queues, WaitersTimed
<1>2. q \in Images BY <1>1, DequeueEntity DEF Advances
<1>3. r = [q EXCEPT !.cfs[c].h_nr_running = @ - 1, !.rq[c].nr_running = @ - 1]
  BY DEF deactivate_task
<1> HIDE DEF q, r
<1>4. Steady(q, r) /\ r.fault = q.fault
  <2>1. r.tl = q.tl /\ r.se = q.se /\ r.fault = q.fault BY <1>2, <1>3 DEF Images
  <2>2. \A d \in CPUs : r.cfs[d].min_vruntime = q.cfs[d].min_vruntime
    BY <1>2, <1>3 DEF Images, CfsType
  <2>3. \A d \in CPUs : /\ r.rq[d].cfs_tasks = q.rq[d].cfs_tasks
                        /\ r.rq[d].curr = q.rq[d].curr
    BY <1>2, <1>3 DEF Images, RqType
  <2> QED BY <2>1, <2>2, <2>3 DEF Steady, Listed
<1>5. ~Stopped(q) BY <1>4 DEF Stopped, r
<1>6. Paced(q) BY <1>5, DequeuePaced DEF q
<1>7. Paced(r) BY <1>2, <1>4, <1>6, SteadyPaced
<1> QED BY <1>7 DEF r

-----------------------------------------------------------------------------
(* schedule.                                                               *)

\* Who runs is of no account to cfs_rq->curr.
LEMMA CurrSteady ==
    ASSUME NEW s \in Images, NEW c \in CPUs, NEW e
    PROVE  LET r == [s EXCEPT !.cfs[c].curr = e]
           IN  Steady(s, r) /\ r.fault = s.fault
BY DEF Steady, Images, CfsType, Listed

\* The task that has run is charged before it is put back.
LEMMA PutPrevPaced ==
    ASSUME TimelineContract, MemberContract, OrderContract, jiffies \in Nat,
           NEW s \in Images, NEW c \in CPUs, Shape(s), Paced(s),
           ~Stopped(put_prev_entity(s, c, s.rq[c].curr))
    PROVE  Paced(put_prev_entity(s, c, s.rq[c].curr))
<1> DEFINE prev == s.rq[c].curr
           s0 == update_curr(s, c)
           s1 == IF s.se[prev].on_rq = 1 THEN __enqueue_entity(s0, c, prev) ELSE s
           s2 == [s1 EXCEPT !.cfs[c].curr = NULL]
           r  == debug_tasktimeline(s2, c)
<1>1. put_prev_entity(s, c, prev) = r BY DEF put_prev_entity
<1>2. Queues(s) BY ShapeQueues
<1>3. s1 \in Images /\ (~Stopped(s1) => Paced(s1) /\ s1.tl \in ProperTimelines)
  <2>1. CASE s.se[prev].on_rq = 1
    <3>1. prev # idle[c] BY <2>1 DEF Images, SeImages
    <3>2. prev = s.cfs[c].curr /\ prev \in Listed(s, c) /\ prev \in Tasks /\ prev # NULL
      BY <3>1, ShapeCurr, IdleAssumption DEF Shape, CurrListed, Entities
    <3>3. s0 \in Images /\ Same(s, s0) /\ Queues(s0) /\ Paced(s0) BY <1>2, CurrPaced
    <3>4. s1 = __enqueue_entity(s0, c, prev) BY <2>1
    <3> HIDE DEF s0, s1, prev
    <3>5. s1 \in Images BY <3>2, <3>3, <3>4, EnqueueInTree DEF Advances
    <3>6. s0.cfs[c].curr = prev
      BY <1>2, <3>2, <3>3 DEF Same, SameQueue, SameCfs, Queues, Live
    <3>7. prev \in Listed(s0, c) /\ prev \notin TLMembers(s0.tl, c) /\ Live(s0)
      BY <3>2, <3>3, <3>6, QueuesCurr DEF Queues
    <3>8. s0.se[prev].node_vruntime = s0.se[prev].vruntime
      BY <3>3, <3>7 DEF Paced, InStep
    <3>9. Retimed(s0, s1, c, TLMembers(s0.tl, c) \cup {prev})
      BY <3>2, <3>3, <3>4, <3>7, TreeInsert
    <3> QED BY <3>2, <3>3, <3>4, <3>5, <3>7, <3>8, <3>9, InsertPaced DEF Retimed
  <2>2. CASE s.se[prev].on_rq # 1
    <3>1. s1 = s BY <2>2
    <3> QED BY <3>1 DEF Shape, Live
  <2> QED BY <2>1, <2>2
<1> HIDE DEF s1
<1>4. Steady(s1, s2) /\ s2.fault = s1.fault /\ s2 \in Images
  BY <1>3, CurrSteady, SetCurr DEF Advances
<1> HIDE DEF s2
<1>5. ~Stopped(s2) BY <1>1 DEF debug_tasktimeline
<1>6. Paced(s2) /\ Live(s2)
  BY <1>3, <1>4, <1>5, SteadyPaced DEF Steady, Live, Stopped
<1> QED BY <1>1, <1>4, <1>6, WalkPaced

\* Whoever is picked is hardly ahead of the first one, which nobody is behind.
LEMMA PickNearFirst ==
    ASSUME MemberContract, OrderContract, NEW s, NEW r \in Images, NEW c \in CPUs,
           Shape(s), s \in Images, Parked(s, r, c), Paced(r),
           pick_next_entity(r, c) # NULL, NEW t \in Listed(r, c)
    PROVE  r.se[t].vruntime + sysctl_sched_wakeup_granularity
              >= r.se[pick_next_entity(r, c)].vruntime
<1> DEFINE left == TLFirst(r.tl, c)
           next == r.cfs[c].next
           e    == pick_next_entity(r, c)
<1>1. r.tl \in ProperTimelines BY DEF Parked, Live
<1>2. TLMembers(r.tl, c) = Listed(r, c) /\ Listed(r, c) = Listed(s, c)
  BY DEF Parked, SameRq, Listed
<1>3. left \in Listed(r, c) /\ r.se[left].vruntime <= r.se[t].vruntime
  BY <1>1, <1>2, FirstLeast
<1>4. e \in Listed(r, c) BY <1>2, PickIsListed
<1>5. \A u \in Listed(r, c) : r.se[u].vruntime \in Int BY ListedTasks, Numbers
<1>6. e = left \/ (e = next /\ wake_up_preempt_entity(r, next, left) < 1)
  BY DEF pick_next_entity
<1> HIDE DEF left, next, e
<1>7. /\ r.se[t].vruntime \in Int /\ r.se[left].vruntime \in Int
      /\ r.se[e].vruntime \in Int
  BY <1>3, <1>4, <1>5
<1>8. r.se[e].vruntime <= r.se[left].vruntime + sysctl_sched_wakeup_granularity
  <2>1. CASE e = left BY <1>7, <2>1 DEF sysctl_sched_wakeup_granularity
  <2>2. CASE e = next /\ wake_up_preempt_entity(r, next, left) < 1
    <3>1. wake_up_preempt_entity(r, e, left) < 1 BY <2>2
    <3> QED BY <1>7, <3>1 DEF wake_up_preempt_entity, sysctl_sched_wakeup_granularity
  <2> QED BY <1>6, <2>1, <2>2
<1>9. r.se[t].vruntime + sysctl_sched_wakeup_granularity >= r.se[e].vruntime
  BY <1>3, <1>7, <1>8 DEF sysctl_sched_wakeup_granularity
<1> QED BY <1>9 DEF e

\* The task e gets the CPU: it is charged from a time that has passed.
Stamped(s, c, e) ==
    [s EXCEPT !.se[e].exec_start = ExecStamp,
              !.se[e].prev_sum_exec_runtime = s.se[e].sum_exec_runtime,
              !.cfs[c].curr = e]

\* A task that starts to run is stamped with the time, which is past.
LEMMA StampPaced ==
    ASSUME jiffies \in Nat, NEW s \in Images, NEW c \in CPUs, NEW e \in Tasks, Paced(s)
    PROVE  LET r == Stamped(s, c, e)
           IN  /\ Paced(r) /\ r.rq = s.rq /\ r.tl = s.tl /\ r.fault = s.fault
               /\ \A u \in Entities : r.se[u].vruntime = s.se[u].vruntime
<1> DEFINE x == s.se[e].sum_exec_runtime
           r == [s EXCEPT !.se[e].exec_start = ExecStamp,
                          !.se[e].prev_sum_exec_runtime = x,
                          !.cfs[c].curr = e]
<1> HIDE DEF x
<1>1. e \in Entities BY DEF Entities
<1>2. r.rq = s.rq /\ r.tl = s.tl /\ r.fault = s.fault BY DEF Images
<1>3. \A u \in Entities : /\ r.se[u].vruntime = s.se[u].vruntime
                          /\ r.se[u].node_vruntime = s.se[u].node_vruntime
                          /\ u # e => r.se[u].exec_start = s.se[u].exec_start
  BY <1>1 DEF Images, SeImages, SeType
<1>4. r.se[e].exec_start = ExecStamp BY <1>1 DEF Images, SeImages, SeType
<1>5. \A d \in CPUs : r.cfs[d].min_vruntime = s.cfs[d].min_vruntime BY DEF Images, CfsType
<1> HIDE DEF r
<1>6. ExecStamp <= Now BY DEF ExecStamp, Now, jiffies_to_msecs
<1>7. \A u \in Tasks : r.se[u].vruntime >= 0 /\ r.se[u].exec_start <= Now
  BY <1>3, <1>4, <1>6 DEF Paced, Entities
<1>8. NodeKeys(r) = NodeKeys(s) BY <1>3 DEF NodeKeys
<1>9. \A d \in CPUs : Listed(r, d) = Listed(s, d) /\ Listed(s, d) \subseteq Entities
  BY <1>2, ListedTasks DEF Listed
<1>10. Paced(r) BY <1>2, <1>3, <1>5, <1>7, <1>8, <1>9 DEF Paced, InStep
<1>11. Stamped(s, c, e) = r BY DEF Stamped, r, x
<1> QED BY <1>2, <1>3, <1>10, <1>11

\* The image with the stamp is one.
LEMMA StampImages ==
    ASSUME jiffies \in Nat, NEW s \in Images, NEW c \in CPUs, NEW e \in Tasks
    PROVE  Stamped(s, c, e) \in Images
<1> DEFINE x  == [s.se[e] EXCEPT !.exec_start = ExecStamp,
                                 !.prev_sum_exec_runtime = s.se[e].sum_exec_runtime]
           r1 == [s EXCEPT !.se = [s.se EXCEPT ![e] = x]]
           r  == [s EXCEPT !.se[e].exec_start = ExecStamp,
                           !.se[e].prev_sum_exec_runtime = s.se[e].sum_exec_runtime,
                           !.cfs[c].curr = e]
<1>1. e \in Entities /\ ExecStamp \in ULong
  BY DEF Entities, ExecStamp, jiffies_to_msecs, ULong
<1>2. s.se[e] \in SeType BY <1>1 DEF Images, SeImages
<1>3. x \in SeType BY <1>1, <1>2 DEF SeType
<1>4. r = [r1 EXCEPT !.cfs[c].curr = e] BY <1>1 DEF Images, SeImages
<1> HIDE DEF x, r
<1>5. r1 \in Images BY <1>1, <1>3, SetSe DEF Advances
<1> HIDE DEF r1
<1>6. r \in Images BY <1>1, <1>4, <1>5, SetCurr DEF Advances
<1> QED BY <1>6 DEF r, Stamped

\* The front of the list is a matter of the balancer.
LEMMA FrontSteady ==
    ASSUME NEW s \in Images, NEW c \in CPUs, NEW t \in ToSet(s.rq[c].cfs_tasks),
           IsInjective(s.rq[c].cfs_tasks)
    PROVE  Steady(s, move_to_front_cfs_tasks(s, c, t))
<1> DEFINE r == move_to_front_cfs_tasks(s, c, t)
<1>1. /\ r.cfs = s.cfs /\ r.se = s.se /\ r.tl = s.tl
      /\ \A d \in CPUs : /\ r.rq[d].curr = s.rq[d].curr
                         /\ d # c => r.rq[d].cfs_tasks = s.rq[d].cfs_tasks
      /\ r.rq[c].cfs_tasks = Cons(t, RemoveFirst(s.rq[c].cfs_tasks, t))
  BY DEF move_to_front_cfs_tasks, Images, RqType
<1> HIDE DEF r
<1>2. Listed(r, c) = Listed(s, c)
  <2>1. s.rq[c].cfs_tasks \in Seq(Tasks) BY DEF Images, RqType
  <2> QED BY <1>1, <2>1, FrontElements DEF Listed
<1>3. \A d \in CPUs : Listed(r, d) = Listed(s, d) BY <1>1, <1>2 DEF Listed
<1>4. Steady(s, r) BY <1>1, <1>3 DEF Steady
<1> QED BY <1>4 DEF r

\* Every CPU runs what it ran before,
Keeps(s, r) ==
    Paced(r) /\ \A c \in CPUs : r.rq[c].curr = s.rq[c].curr
\* or a task that is not far ahead.
Picks(s, r) ==
    Paced(r) /\ \A c \in CPUs : r.rq[c].curr # s.rq[c].curr => FairOn(r, c)

\* clear_buddies, set_next_entity and move_to_front_cfs_tasks.
LEMMA SetNextPaced ==
    ASSUME TimelineContract, MemberContract, OrderContract, jiffies \in Nat,
           NEW q \in Images, NEW c \in CPUs, NEW e \in Listed(q, c), Live(q), Paced(q),
           TLMembers(q.tl, c) = Listed(q, c), IsInjective(q.rq[c].cfs_tasks),
           q.se[e].on_rq = 1,
           ~Stopped(move_to_front_cfs_tasks(
                        set_next_entity(clear_buddies(q, c, e), c, e), c, e))
    PROVE  LET r == move_to_front_cfs_tasks(
                        set_next_entity(clear_buddies(q, c, e), c, e), c, e)
           IN  /\ Paced(r) /\ Listed(r, c) = Listed(q, c) /\ r.cfs[c].curr = e
               /\ \A d \in CPUs : r.rq[d].curr = q.rq[d].curr
               /\ \A u \in Entities : r.se[u].vruntime = q.se[u].vruntime
<1> DEFINE q1 == clear_buddies(q, c, e)
           s1 == IF q1.se[e].on_rq = 1 THEN __dequeue_entity(q1, c, e) ELSE q1
           s2 == Stamped(s1, c, e)
           s3 == debug_tasktimeline(s2, c)
           r  == move_to_front_cfs_tasks(s3, c, e)
<1>1. e \in Tasks /\ e \in Entities BY ListedTasks
<1>2. s3 = set_next_entity(q1, c, e) BY DEF set_next_entity, Stamped
<1>3. /\ q1 \in Images /\ Steady(q, q1) /\ q1.rq = q.rq /\ q1.se = q.se
      /\ q1.fault = q.fault
  BY <1>1, BuddiesSteady, ClearBuddies DEF Advances
<1>4. ~Stopped(r) BY <1>2
<1> HIDE DEF q1
<1>5. Paced(q1) /\ Live(q1) /\ e \in TLMembers(q1.tl, c) /\ s1 = __dequeue_entity(q1, c, e)
  BY <1>3, SteadyPaced DEF Live, Stopped, Steady
<1>6. s1 \in Images /\ Retimed(q1, s1, c, TLMembers(q1.tl, c) \ {e})
  BY <1>1, <1>3, <1>5, TreeErase, DequeueFromTree DEF Advances
<1>7. s3 \in Images
  BY <1>1, <1>2, <1>3, SetNextEntity DEF Advances
<1> HIDE DEF s1
<1>8. s2.fault = s1.fault BY <1>6 DEF Stamped, Images
<1>9. ~Stopped(s3)
  <2>1. r.fault = s3.fault BY <1>7 DEF move_to_front_cfs_tasks, Images
  <2> QED BY <1>4, <2>1 DEF Stopped
<1>10. ~Stopped(s2) BY <1>9 DEF debug_tasktimeline
<1>11. ~Stopped(s1) BY <1>8, <1>10 DEF Stopped
<1>12. Paced(s1) /\ s1.tl \in ProperTimelines
  BY <1>3, <1>5, <1>6, <1>11, ErasePaced DEF Retimed
<1>13. /\ Paced(s2) /\ s2.rq = s1.rq /\ s2.tl = s1.tl
       /\ \A u \in Entities : s2.se[u].vruntime = s1.se[u].vruntime
  BY <1>1, <1>6, <1>12, StampPaced
<1>14. s2 \in Images /\ Live(s2) /\ s2.cfs[c].curr = e
  <2>1. s2 \in Images BY <1>1, <1>6, StampImages
  <2>2. s2.cfs[c].curr = e BY <1>6 DEF Stamped, Images, CfsType
  <2> QED BY <1>10, <1>12, <1>13, <2>1, <2>2 DEF Live
<1> HIDE DEF s2
<1>15. Paced(s3) /\ s3.rq = s2.rq /\ s3.cfs = s2.cfs /\ s3.se = s2.se
  BY <1>9, <1>13, <1>14, WalkPaced
<1> HIDE DEF s3
<1>16. s3.rq = q.rq /\ \A u \in Entities : s3.se[u].vruntime = q.se[u].vruntime
  BY <1>3, <1>6, <1>13, <1>15 DEF Retimed
<1>17. Steady(s3, r)
  <2>1. s3.rq[c].cfs_tasks \in Seq(Tasks) BY <1>7 DEF Images, RqType
  <2>2. e \in ToSet(s3.rq[c].cfs_tasks) /\ IsInjective(s3.rq[c].cfs_tasks)
    BY <1>16 DEF Listed
  <2> QED BY <1>7, <2>1, <2>2, FrontSteady
<1>18. Paced(r) BY <1>7, <1>15, <1>17, SteadyPaced
<1>19. Listed(r, c) = Listed(q, c) BY <1>16, <1>17 DEF Steady, Listed
<1>20. \A u \in Entities : r.se[u].vruntime = q.se[u].vruntime
  BY <1>16, <1>17 DEF Steady
<1>21. r.cfs[c].curr = e
  <2>1. r.cfs = s3.cfs BY <1>7 DEF move_to_front_cfs_tasks, Images
  <2> QED BY <1>14, <1>15, <2>1
<1>22. \A d \in CPUs : r.rq[d].curr = q.rq[d].curr BY <1>16, <1>17 DEF Steady
<1> QED BY <1>2, <1>18, <1>19, <1>20, <1>21, <1>22 DEF r, q1

\* One round: the picked task is near the first one, and no vruntime is
\* written after the pick.
LEMMA ScheduleOncePicks ==
    ASSUME TimelineContract, MemberContract, OrderContract, jiffies \in Nat,
           NEW s \in Images, NEW c \in CPUs, Sound(s), Paced(s), ~Stopped(__schedule(s, c))
    PROVE  Picks(s, __schedule(s, c))
<1> DEFINE prev == s.rq[c].curr
           some == s.rq[c].nr_running # 0
           q    == IF some THEN pick_next_task_fair(s, c, prev) ELSE s
           n    == IF some THEN q.cfs[c].curr ELSE idle[c]
           r    == __schedule(s, c)
<1>1. prev \in Entities BY DEF Images, RqType
<1>2. r = IF Stopped(q) THEN q ELSE Switched(s, q, c, n)
  BY DEF __schedule, Switched
<1>3. ~Stopped(q) BY <1>2
<1>4. q \in Images BY <1>1, PickNextTask DEF Advances
<1> HIDE DEF r
<1>5. /\ Paced(q) /\ \A d \in CPUs \ {c} : q.rq[d].curr = s.rq[d].curr
      /\ n \in Tasks => \A t \in Listed(q, c) :
            q.se[t].vruntime + sysctl_sched_wakeup_granularity >= q.se[n].vruntime
  <2>1. CASE some
    <3> DEFINE s1 == put_prev_entity(s, c, prev)
               e  == pick_next_entity(s1, c)
               s2 == move_to_front_cfs_tasks(
                        set_next_entity(clear_buddies(s1, c, e), c, e), c, e)
    <3>1. q = IF Stopped(s1) THEN s1 ELSE IF e = NULL THEN Crash(s1) ELSE s2
      BY <2>1 DEF pick_next_task_fair
    <3>2. s1 \in Images BY <1>1, PutPrevEntity DEF Advances
    <3>3. ~Stopped(s1) BY <1>3, <3>1
    <3>4. e # NULL
      <4>1. Stopped(Crash(s1)) BY <3>2, <3>3 DEF Crash, Stopped, Images
      <4> QED BY <1>3, <3>1, <3>3, <4>1
    <3>5. Parked(s, s1, c) /\ Paced(s1)
      BY <3>3, PutPrevParks, PutPrevPaced DEF Sound
    <3> HIDE DEF s1
    <3>6. /\ e \in Listed(s, c) /\ Listed(s1, c) = Listed(s, c)
          /\ s1.rq[c].cfs_tasks = s.rq[c].cfs_tasks
      BY <3>2, <3>4, <3>5, PickIsListed DEF Sound, Parked, SameRq, Listed
    <3>7. \A t \in Listed(s1, c) :
             s1.se[t].vruntime + sysctl_sched_wakeup_granularity >= s1.se[e].vruntime
      BY <3>2, <3>4, <3>5, PickNearFirst DEF Sound
    <3>8. q = s2 BY <3>1, <3>3, <3>4
    <3> HIDE DEF e
    <3>9. /\ Live(s1) /\ TLMembers(s1.tl, c) = Listed(s1, c)
          /\ IsInjective(s1.rq[c].cfs_tasks)
          /\ e \in Tasks /\ e \in Entities /\ s1.se[e].on_rq = 1
      <4>1. e \in Tasks /\ s.se[e].on_rq = 1 BY <3>6, ShapeCurr DEF Sound
      <4> QED BY <3>5, <3>6, <4>1
          DEF Parked, SameEntity, Sound, Shape, Accounted, Entities
    <3>10. ~Stopped(s2) BY <1>3, <3>8
    <3>11. /\ Paced(s2) /\ Listed(s2, c) = Listed(s1, c) /\ s2.cfs[c].curr = e
           /\ \A d \in CPUs : s2.rq[d].curr = s1.rq[d].curr
           /\ \A u \in Entities : s2.se[u].vruntime = s1.se[u].vruntime
      BY <3>2, <3>5, <3>6, <3>9, <3>10, SetNextPaced
    <3>12. n = e BY <2>1, <3>8, <3>11
    <3>13. \A d \in CPUs \ {c} : s1.rq[d].curr = s.rq[d].curr
      BY <3>5 DEF Parked, SameQueue, SameRq
    <3>14. Listed(s1, c) \subseteq Entities BY <3>2, ListedTasks
    <3> HIDE DEF q, s2, n
    <3> QED BY <3>7, <3>8, <3>9, <3>11, <3>12, <3>13, <3>14
  <2>2. CASE ~some
    <3>1. q = s /\ n = idle[c] BY <2>2
    <3> QED BY <3>1, IdleAssumption
  <2> QED BY <2>1, <2>2
<1> HIDE DEF q, n
<1>6. r = Switched(s, q, c, n) BY <1>2, <1>3
<1>7. /\ r.cfs = q.cfs /\ r.tl = q.tl
      /\ \A d \in CPUs \ {c} : r.rq[d] = q.rq[d]
      /\ r.rq[c].curr = n /\ r.rq[c].cfs_tasks = q.rq[c].cfs_tasks
      /\ \A e \in Entities : /\ r.se[e].vruntime = q.se[e].vruntime
                             /\ r.se[e].node_vruntime = q.se[e].node_vruntime
                             /\ r.se[e].exec_start = q.se[e].exec_start
  BY <1>1, <1>4, <1>6 DEF Switched, Images, SeImages, SeType, RqType
<1>8. \A d \in CPUs : Listed(r, d) = Listed(q, d) /\ Listed(q, d) \subseteq Entities
  BY <1>4, <1>7, ListedTasks DEF Listed
<1>9. NodeKeys(r) = NodeKeys(q) BY <1>7 DEF NodeKeys
<1>10. \A t \in Tasks : t \in Entities BY DEF Entities
<1>11. Paced(r) BY <1>5, <1>7, <1>8, <1>9, <1>10 DEF Paced, InStep
<1>12. FairOn(r, c) BY <1>5, <1>7, <1>8, <1>10 DEF FairOn
<1>13. \A d \in CPUs \ {c} : r.rq[d].curr = s.rq[d].curr BY <1>5, <1>7
<1>14. Picks(s, r) BY <1>11, <1>12, <1>13 DEF Picks
<1> QED BY <1>14 DEF r

\* schedule takes one round.
LEMMA SchedulePicks ==
    ASSUME TimelineContract, MemberContract, OrderContract, jiffies \in Nat,
           NEW s \in Images, NEW c \in CPUs, Sound(s), Paced(s), ~Stopped(schedule(s, c))
    PROVE  Picks(s, schedule(s, c))
<1> DEFINE round(x) == IF Stopped(x) THEN x ELSE __schedule(x, c)
           s1 == __schedule(s, c)
           r  == schedule(s, c)
<1>1. round(s) = s1 BY DEF Sound, Shape, Live
<1>2. r = IF ~Stopped(s1) /\ need_resched(s1, c) THEN round(s1) ELSE s1
  BY <1>1 DEF schedule
<1>3. ~Stopped(s1) BY <1>2
<1>4. Sound(s1) /\ s1.rq[c].NEED_RESCHED = 0 BY <1>3, ScheduleOnceSound
<1>5. Picks(s, s1) BY <1>3, ScheduleOncePicks
<1> HIDE DEF s1, r
<1>6. ~need_resched(s1, c) BY <1>4 DEF need_resched, Sound, Shape, MarksRun
<1>7. r = s1 BY <1>2, <1>6
<1> QED BY <1>5, <1>7 DEF r

-----------------------------------------------------------------------------
(* The handlers.                                                           *)

\* Keeps composes with both, and is the stronger.
LEMMA KeepsTrans ==
    ASSUME NEW s, NEW q, NEW r, Keeps(s, q)
    PROVE  /\ Keeps(q, r) => Keeps(s, r)
           /\ Picks(q, r) => Picks(s, r)
           /\ Picks(s, q)
BY DEF Keeps, Picks

\* So does Steady, with either.
LEMMA SteadyKeeps ==
    ASSUME NEW s, NEW q \in Images, NEW r, Steady(q, r)
    PROVE  /\ Keeps(s, q) => Keeps(s, r)
           /\ Picks(s, q) => Picks(s, r)
           /\ Paced(q) => Keeps(q, r)
<1>1. Paced(q) => Paced(r) BY SteadyPaced
<1>2. \A c \in CPUs : FairOn(q, c) => FairOn(r, c) BY SteadyPaced
<1>3. \A c \in CPUs : r.rq[c].curr = q.rq[c].curr BY DEF Steady
<1> QED BY <1>1, <1>2, <1>3 DEF Keeps, Picks

\* Operators that write marks, counts, buddies and states.
LEMMA DisableSteady ==
    ASSUME NEW s \in Images, NEW c \in CPUs
    PROVE  LET r == preempt_disable(s, c) IN Steady(s, r) /\ r.fault = s.fault
BY DEF Steady, preempt_disable, Images, RqType, Listed

\* preempt_count_dec, as preempt_disable.
LEMMA CountDecSteady ==
    ASSUME NEW s \in Images, NEW c \in CPUs
    PROVE  LET r == preempt_count_dec(s, c) IN Steady(s, r) /\ r.fault = s.fault
BY DEF Steady, preempt_count_dec, Images, RqType, Listed

\* Neither a mark,
LEMMA ReschedSteady ==
    ASSUME NEW s \in Images, NEW c \in CPUs
    PROVE  LET r == resched_curr(s, c) IN Steady(s, r) /\ r.fault = s.fault
<1>1. s.rq[c].curr \in Entities BY DEF Images, RqType
<1>2. CASE need_resched(s, c) BY <1>2 DEF resched_curr, Steady
<1>3. CASE ~need_resched(s, c)
  <2> DEFINE e == s.rq[c].curr
             r == [s EXCEPT !.se[e].RESCHED = 1, !.rq[c].NEED_RESCHED = 1]
  <2>1. resched_curr(s, c) = r BY <1>3 DEF resched_curr
  <2> HIDE DEF e
  <2>2. Steady(s, r) /\ r.fault = s.fault
    BY DEF Steady, Images, SeImages, SeType, RqType, Listed
  <2> QED BY <2>1, <2>2
<1> QED BY <1>2, <1>3

\* a buddy,
LEMMA BuddySteady ==
    ASSUME NEW s \in Images, NEW c \in CPUs, NEW t
    PROVE  LET r == [s EXCEPT !.cfs[c].next = t] IN Steady(s, r) /\ r.fault = s.fault
BY DEF Steady, Images, CfsType, Listed

\* a state,
LEMMA StateSteady ==
    ASSUME NEW s \in Images, NEW t \in Tasks, NEW n
    PROVE  LET r == [s EXCEPT !.se[t].task_on_rq = n] IN Steady(s, r) /\ r.fault = s.fault
BY DEF Steady, Images, SeImages, SeType, Listed, Entities

\* a cpu field,
LEMMA CpuSteady ==
    ASSUME NEW s \in Images, NEW t \in Tasks, NEW n
    PROVE  LET r == [s EXCEPT !.se[t].cpu = n] IN Steady(s, r) /\ r.fault = s.fault
BY DEF Steady, Images, SeImages, SeType, Listed, Entities

\* the flag of the idle balancer,
LEMMA BalanceSteady ==
    ASSUME NEW s \in Images, NEW c \in CPUs, NEW b
    PROVE  LET r == [s EXCEPT !.rq[c].idle_balance = b] IN Steady(s, r) /\ r.fault = s.fault
BY DEF Steady, Images, RqType, Listed

\* nor a slice is a vruntime.
LEMMA SliceSteady ==
    ASSUME NEW s \in Images, NEW c \in CPUs, NEW e
    PROVE  LET r == sched_slice(s, c, e).image IN Steady(s, r) /\ r.fault = s.fault
<1> DEFINE r == sched_slice(s, c, e).image
<1>1. PICK w : r = [s EXCEPT !.cfs[c].weight = w] BY DEF sched_slice
<1> HIDE DEF r
<1>2. Steady(s, r) /\ r.fault = s.fault BY <1>1 DEF Steady, Images, CfsType, Listed
<1> QED BY <1>2 DEF r

\* update_curr charges the running task and does not change who runs.
LEMMA CurrKeeps ==
    ASSUME TimelineContract, MemberContract, OrderContract, jiffies \in Nat,
           NEW s \in Images, NEW c \in CPUs, Queues(s), Paced(s)
    PROVE  LET r == update_curr(s, c)
           IN  r \in Images /\ Keeps(s, r) /\ Queues(r) /\ r.fault = s.fault
<1> DEFINE r == update_curr(s, c)
<1>1. r \in Images /\ Same(s, r) /\ Queues(r) /\ Paced(r) /\ r.fault = s.fault
  BY CurrPaced
<1> HIDE DEF r
<1>2. \A d \in CPUs : r.rq[d].curr = s.rq[d].curr BY <1>1, SameQueues DEF Queues, Live
<1> QED BY <1>1, <1>2 DEF Keeps, r

\* A woken task is compared with the running one, which is charged first.
LEMMA WakeupKeeps ==
    ASSUME TimelineContract, MemberContract, OrderContract, jiffies \in Nat,
           NEW s \in Images, NEW c \in CPUs, NEW t \in Tasks, Queues(s), Paced(s)
    PROVE  Keeps(s, check_preempt_wakeup(s, c, t))
<1> DEFINE s1 == update_curr(s, c)
           s2 == [s1 EXCEPT !.cfs[c].next = t]
           r  == check_preempt_wakeup(s, c, t)
<1>1. r = s \/ r = resched_curr(s, c) \/ r = s1 \/ r = resched_curr(s2, c)
  BY DEF check_preempt_wakeup
<1>2. s1 \in Images /\ Keeps(s, s1) BY CurrKeeps
<1> HIDE DEF s1, r
<1>3. Keeps(s, s) BY DEF Keeps
<1>4. Keeps(s, resched_curr(s, c)) BY <1>3, ReschedSteady, SteadyKeeps
<1>5. s2 \in Images /\ Keeps(s, s2)
  BY <1>2, SetNext, BuddySteady, SteadyKeeps DEF Advances
<1> HIDE DEF s2
<1>6. Keeps(s, resched_curr(s2, c)) BY <1>5, ReschedSteady, SteadyKeeps
<1> QED BY <1>1, <1>2, <1>3, <1>4, <1>6 DEF r

\* The tick charges the running task; the rest of it only marks.
LEMMA TickKeeps ==
    ASSUME TimelineContract, MemberContract, OrderContract, jiffies \in Nat,
           NEW s \in Images, NEW c \in CPUs, Queues(s), Paced(s),
           ~Stopped(scheduler_tick(s, c))
    PROVE  Keeps(s, scheduler_tick(s, c))
<1> DEFINE s1 == preempt_disable(s, c)
           e  == s1.rq[c].curr
           s2 == update_curr(s1, c)
           s3 == task_tick_fair(s1, c, e)
           b  == IF idle_cpu(s3, c) THEN 1 ELSE 0
           r  == [s3 EXCEPT !.rq[c].idle_balance = b]
           q1 == sched_slice(s2, c, e).image
           q2 == resched_curr(q1, c)
           q3 == clear_buddies(q2, c, e)
<1>1. scheduler_tick(s, c) = r BY DEF scheduler_tick
<1>2. s1 \in Images /\ Same(s, s1) /\ Steady(s, s1) /\ s1.fault = s.fault
  BY PreemptDisable, SameDisable, DisableSteady DEF Advances
<1> HIDE DEF s1
<1>3. Queues(s1) /\ Keeps(s, s1)
  <2>1. ~Stopped(s1) BY <1>2 DEF Queues, Live, Stopped
  <2> QED BY <1>2, <2>1, SameQueues, SteadyKeeps
<1>4. e \in Entities BY <1>2 DEF Images, RqType
<1>5. s2 \in Images /\ Keeps(s, s2) /\ Queues(s2) /\ s2.fault = s1.fault
  BY <1>2, <1>3, CurrKeeps, KeepsTrans DEF Keeps
<1>6. s3 = s2 \/ s3 = check_preempt_tick(s2, c, e) BY DEF task_tick_fair
<1>7. s3 \in Images BY <1>2, <1>4, TaskTickFair DEF Advances
<1> HIDE DEF s2, s3, e, b
<1>8. check_preempt_tick(s2, c, e) \in {q3, q1, Crash(q1), q2}
  BY DEF check_preempt_tick
<1>9. q1 \in Images /\ Keeps(s, q1)
  BY <1>4, <1>5, SchedSlice, SliceSteady, SteadyKeeps DEF Advances
<1> HIDE DEF q1
<1>10. q2 \in Images /\ Keeps(s, q2)
  BY <1>9, ReschedCurr, ReschedSteady, SteadyKeeps DEF Advances
<1> HIDE DEF q2
<1>11. Keeps(s, q3) BY <1>10, BuddiesSteady, SteadyKeeps
<1> HIDE DEF q3
<1>12. Steady(s3, r) /\ r.fault = s3.fault BY <1>7, BalanceSteady
<1>13. ~Stopped(s3) BY <1>1, <1>12 DEF Stopped
<1>14. Stopped(Crash(q1)) BY <1>9 DEF Crash, Stopped, Images
<1>15. Keeps(s, s3) BY <1>5, <1>6, <1>8, <1>9, <1>10, <1>11, <1>13, <1>14
<1>16. Keeps(s, r) BY <1>7, <1>12, <1>15, SteadyKeeps
<1> QED BY <1>1, <1>16

\* preempt_enable lets schedule pick.
LEMMA EnablePicks ==
    ASSUME TimelineContract, MemberContract, OrderContract, jiffies \in Nat,
           NEW s \in Images, NEW c \in CPUs, Sound(s), Paced(s),
           ~Stopped(preempt_enable(s, c))
    PROVE  Picks(s, preempt_enable(s, c))
<1> DEFINE s1 == preempt_count_dec(s, c)
           q1 == preempt_disable(s1, c)
           s2 == schedule(q1, c)
           s3 == preempt_count_dec(s2, c)
           r  == preempt_enable(s, c)
<1>1. r = s1 \/ r = s3 BY DEF preempt_enable, Sound, Shape, Live
<1>2. s1 \in Images /\ Same(s, s1) /\ Steady(s, s1) /\ s1.fault = s.fault
  BY SameCountDec, CountDecSteady, PreemptCountDec DEF Advances
<1> HIDE DEF s1, r
<1>3. ~Stopped(s1) BY <1>2 DEF Sound, Shape, Live, Stopped
<1>4. Sound(s1) /\ Keeps(s, s1) BY <1>2, <1>3, SoundSame, SteadyKeeps
<1>5. CASE r = s1 BY <1>4, <1>5, KeepsTrans DEF r
<1>6. CASE r = s3
  <2>1. q1 \in Images /\ Same(s1, q1) /\ Steady(s1, q1) /\ q1.fault = s1.fault
    BY <1>2, SameDisable, DisableSteady, PreemptDisable DEF Advances
  <2> HIDE DEF q1
  <2>2. ~Stopped(q1) BY <1>3, <2>1 DEF Stopped
  <2>3. Sound(q1) /\ Keeps(s, q1) /\ Paced(q1)
    BY <1>2, <1>4, <2>1, <2>2, SoundSame, SteadyKeeps DEF Keeps
  <2>4. s2 \in Images BY <2>1, ScheduleAll DEF Advances
  <2>5. Steady(s2, s3) /\ s3.fault = s2.fault BY <2>4, CountDecSteady
  <2>6. ~Stopped(s2) BY <1>6, <2>5 DEF Stopped, r
  <2>7. Picks(q1, s2) BY <2>1, <2>3, <2>6, SchedulePicks
  <2> HIDE DEF s2, s3
  <2>8. Picks(s, s2) BY <2>3, <2>7, KeepsTrans
  <2>9. Picks(s, s3) BY <2>4, <2>5, <2>8, SteadyKeeps
  <2> QED BY <1>6, <2>9 DEF r
<1> QED BY <1>1, <1>5, <1>6

\* The balancer takes a task out, and charges it on its new CPU from the start
\* of time.
LEMMA QueuesFields ==
    ASSUME NEW s, NEW r, Queues(s), r.rq = s.rq, r.cfs = s.cfs, r.tl = s.tl,
           r.fault = s.fault, \A t \in Tasks : r.se[t].on_rq = s.se[t].on_rq
    PROVE  Queues(r)
BY DEF Queues, Live, Stopped, Accounted, CurrListed, WaitersTimed, Listed

\* migrate_task_rq makes the stamp zero, which is past as well.
LEMMA MigratePaced ==
    ASSUME jiffies \in Nat, NEW s \in Images, NEW t \in Tasks, Paced(s)
    PROVE  LET r == migrate_task_rq(s, t)
           IN  Paced(r) /\ r.rq = s.rq
<1> DEFINE r == migrate_task_rq(s, t)
<1>1. t \in Entities BY DEF Entities
<1>2. PICK d : r = [s EXCEPT !.cfs[d].attached[t] = @ - 1, !.se[t].last_update = 0,
                             !.se[t].exec_start = 0]
  BY <1>1 DEF migrate_task_rq
<1> HIDE DEF r
<1>3. /\ r.rq = s.rq /\ r.tl = s.tl
      /\ \A c \in CPUs : r.cfs[c].min_vruntime = s.cfs[c].min_vruntime
  BY <1>2 DEF Images, CfsType
<1>4. /\ \A e \in Entities : /\ r.se[e].vruntime = s.se[e].vruntime
                             /\ r.se[e].node_vruntime = s.se[e].node_vruntime
                             /\ e # t => r.se[e].exec_start = s.se[e].exec_start
      /\ r.se[t].exec_start = 0
  BY <1>1, <1>2 DEF Images, SeImages, SeType
<1>5. 0 <= Now BY DEF Now, jiffies_to_msecs
<1>6. \A u \in Tasks : r.se[u].vruntime >= 0 /\ r.se[u].exec_start <= Now
  BY <1>4, <1>5 DEF Paced, Entities
<1>7. NodeKeys(r) = NodeKeys(s) BY <1>4 DEF NodeKeys
<1>8. \A c \in CPUs : Listed(r, c) = Listed(s, c) /\ Listed(s, c) \subseteq Entities
  BY <1>3, ListedTasks DEF Listed
<1>9. Paced(r) BY <1>3, <1>4, <1>6, <1>7, <1>8 DEF Paced, InStep
<1> QED BY <1>3, <1>9 DEF r

\* set_task_cpu is migrate_task_rq and a write of the cpu field, or crashes.
LEMMA TaskCpuKeeps ==
    ASSUME jiffies \in Nat, NEW s \in Images, NEW t \in Tasks, NEW c \in CPUs, Paced(s),
           ~Stopped(set_task_cpu(s, t, c))
    PROVE  Keeps(s, set_task_cpu(s, t, c))
<1> DEFINE old == s.se[t].cpu
           s1  == IF old = c \/ Stopped(s) THEN s
                  ELSE IF old \notin CPUs THEN Crash(s) ELSE migrate_task_rq(s, t)
           r   == [s1 EXCEPT !.se[t].cpu = c]
<1>1. set_task_cpu(s, t, c) = r BY DEF set_task_cpu
<1>2. CASE s1 = s
  <2>1. Keeps(s, s) BY DEF Keeps
  <2> QED BY <1>1, <1>2, <2>1, CpuSteady, SteadyKeeps
<1>3. CASE s1 = Crash(s)
  <2>1. r.fault = Crash(s).fault BY <1>3 DEF Crash, Images
  <2>2. Stopped(r) BY <2>1 DEF Crash, Stopped, Images
  <2> QED BY <1>1, <2>2
<1>4. CASE s1 = migrate_task_rq(s, t) /\ old \in CPUs
  <2> DEFINE q == migrate_task_rq(s, t)
  <2>1. Keeps(s, q) BY MigratePaced DEF Keeps
  <2>2. q \in Images BY <1>4, MigrateTaskRq DEF Advances
  <2>3. r = [q EXCEPT !.se[t].cpu = c] BY <1>4
  <2> HIDE DEF q, r
  <2>4. Keeps(s, r) BY <2>1, <2>2, <2>3, CpuSteady, SteadyKeeps
  <2> QED BY <1>1, <2>4
<1> QED BY <1>2, <1>3, <1>4

\* detach_task takes a waiting task out, with its lag.
LEMMA DetachKeeps ==
    ASSUME TimelineContract, MemberContract, OrderContract, jiffies \in Nat,
           NEW s \in Images, NEW src \in CPUs, NEW dst \in CPUs, Sound(s), Paced(s),
           NEW t \in Listed(s, src), t # s.rq[src].curr,
           ~Stopped(detach_task(s, t, src, dst))
    PROVE  Keeps(s, detach_task(s, t, src, dst))
<1> DEFINE q  == [s EXCEPT !.se[t].task_on_rq = 2]
           s1 == deactivate_task(q, src, t)
           r  == detach_task(s, t, src, dst)
<1>1. t \in Tasks /\ t \in Entities /\ \A u \in Tasks : u \in Entities
  BY ShapeCurr DEF Sound, Entities
<1>2. q \in Images
  <2>1. 2 \in 0 .. 2 OBVIOUS
  <2> QED BY <1>1, <2>1, SetTaskOnRq DEF Advances
<1>3. /\ q.rq = s.rq /\ q.cfs = s.cfs /\ q.tl = s.tl /\ q.fault = s.fault
      /\ \A e \in Entities : q.se[e].on_rq = s.se[e].on_rq
  BY <1>1 DEF Images, SeImages, SeType
<1>4. Steady(s, q) BY <1>1, StateSteady
<1> HIDE DEF q
<1>5. Queues(q) /\ Keeps(s, q) /\ Paced(q)
  BY <1>1, <1>3, <1>4, ShapeQueues, QueuesFields, SteadyKeeps DEF Sound, Keeps
<1>6. t \in TLMembers(q.tl, src)
  <2>1. t # s.cfs[src].curr BY ShapeCurr DEF Sound
  <2> QED BY <1>3, <2>1 DEF Sound, Shape, WaitersTimed
<1>7. r = set_task_cpu(s1, t, dst) BY DEF detach_task, q
<1>8. s1 \in Images /\ Dequeued(q, s1, src, t, 1)
  <2>1. CurrQueued(q, src) /\ q.cfs[src].curr # t
    BY <1>2, <1>5, <1>6, QueuesCurr
  <2> QED BY <1>1, <1>2, <1>5, <1>6, <2>1, DeactivateEffect, DeactivateTask
      DEF Advances, Queues
<1>9. ~Stopped(s1)
  <2>1. Same(s1, r) BY <1>1, <1>7, <1>8, SameTaskCpu
  <2> QED BY <2>1 DEF Same
<1>10. Paced(s1) BY <1>2, <1>5, <1>6, <1>9, DeactivatePaced
<1> HIDE DEF s1
<1>11. Keeps(q, s1)
  <2>1. s1.rq[src].curr = q.rq[src].curr
        /\ \A d \in CPUs \ {src} : s1.rq[d].curr = q.rq[d].curr
    BY <1>5, <1>8, <1>9 DEF Dequeued, Queues, SameQueue, SameRq
  <2> QED BY <1>10, <2>1 DEF Keeps
<1>12. Keeps(s1, r) BY <1>1, <1>7, <1>8, <1>10, TaskCpuKeeps
<1> QED BY <1>5, <1>11, <1>12, KeepsTrans

\* The queue it comes to gives it a vruntime of its own.
LEMMA AttachKeeps ==
    ASSUME TimelineContract, MemberContract, OrderContract, jiffies \in Nat,
           NEW s \in Images, NEW c \in CPUs, Sound(s), Paced(s),
           NEW t \in Tasks, s.se[t].task_on_rq # 1, ~Stopped(attach_task(s, t, c))
    PROVE  Keeps(s, attach_task(s, t, c))
<1> DEFINE s1 == activate_task(s, c, t)
           s2 == [s1 EXCEPT !.se[t].task_on_rq = 1]
           r  == check_preempt_wakeup(s2, c, t)
<1>1. attach_task(s, t, c) = r BY DEF attach_task
<1>2. t \in Entities BY DEF Entities
<1>3. s.se[t].on_rq = 0
  <2>1. s.se[t].on_rq # 1 BY DEF Sound, Shape, TasksOnRq
  <2> QED BY <1>2, <2>1 DEF Images, SeImages, SeType, Bit
<1>4. Queues(s) BY ShapeQueues DEF Sound
<1>5. s1 \in Images /\ Enqueued(s, s1, c, t, 1)
  <2>1. CurrQueued(s, c) /\ s.cfs[c].curr # t /\ t \notin TLMembers(s.tl, c)
    BY <1>3, <1>4, QueuesCurr
  <2> QED BY <1>4, <2>1, ActivateEffect, ActivateTask DEF Advances, Queues
<1>6. s2 \in Images /\ Steady(s1, s2) /\ s2.fault = s1.fault
  <2>1. 1 \in 0 .. 2 OBVIOUS
  <2> HIDE DEF s1
  <2> QED BY <1>5, <2>1, StateSteady, SetTaskOnRq DEF Advances
<1>7. ~Stopped(s1)
  <2>1. Stopped(s2) => r = s2 BY DEF check_preempt_wakeup
  <2> QED BY <1>1, <1>6, <2>1 DEF Stopped
<1>8. Paced(s1) BY <1>3, <1>4, <1>7, ActivatePaced
<1> HIDE DEF s1
<1>9. Keeps(s, s1)
  <2>1. s1.rq[c].curr = s.rq[c].curr
        /\ \A d \in CPUs \ {c} : s1.rq[d].curr = s.rq[d].curr
    BY <1>4, <1>5, <1>7 DEF Enqueued, Queues, SameQueue, SameRq
  <2> QED BY <1>8, <2>1 DEF Keeps
<1>10. Queues(s2) BY <1>3, <1>5, <1>7, Arrival, ShapeQueues DEF Sound
<1> HIDE DEF s2
<1>11. Keeps(s, s2) /\ Paced(s2) BY <1>5, <1>6, <1>9, SteadyKeeps DEF Keeps
<1>12. Keeps(s2, r) BY <1>6, <1>10, <1>11, WakeupKeeps
<1> QED BY <1>1, <1>11, <1>12, KeepsTrans

\* wake_up_new_task attaches, and may schedule where it enables preemption.
LEMMA WakePicks ==
    ASSUME TimelineContract, MemberContract, OrderContract, jiffies \in Nat,
           NEW s \in Images, NEW c \in CPUs, Sound(s), Paced(s),
           NEW t \in Tasks, s.se[t].task_on_rq # 1, ~Stopped(wake_up_new_task(s, t, c))
    PROVE  Picks(s, wake_up_new_task(s, t, c))
<1> DEFINE s0 == preempt_disable(s, c)
           s1 == attach_entity_load_avg(s0, c, t)
           s2 == attach_task(s1, t, c)
           s3 == preempt_enable(s2, c)
           r  == wake_up_new_task(s, t, c)
<1>1. r = s3 \/ r = Crash(s3) BY DEF wake_up_new_task, attach_task
<1>2. s0 \in Images /\ Same(s, s0) /\ Steady(s, s0) /\ s0.fault = s.fault
  BY SameDisable, PreemptDisable, DisableSteady DEF Advances
<1> HIDE DEF s0
<1>3. s1 \in Images /\ Same(s0, s1) /\ Steady(s0, s1) /\ s1.fault = s0.fault
  BY <1>2, SameAttach, AttachLoad, AttachSteady DEF Advances
<1> HIDE DEF s1
<1>4. ~Stopped(s1) BY <1>2, <1>3 DEF Sound, Shape, Live, Stopped
<1>5. Sound(s1) /\ Stays(s, s1) BY <1>2, <1>3, <1>4, SameTrans, SoundSame
<1>6. Keeps(s, s1) /\ Paced(s1) BY <1>2, <1>3, SteadyKeeps DEF Keeps
<1>7. s2 \in Images BY <1>3, AttachTask DEF Advances
<1>8. s3 \in Images BY <1>7, PreemptEnable DEF Advances
<1>9. ~Stopped(s3) /\ r = s3
  <2>1. Stopped(Crash(s3)) BY <1>8 DEF Crash, Stopped, Images
  <2>2. Stopped(s3) => Crash(s3) = s3 BY DEF Crash
  <2> QED BY <1>1, <2>1, <2>2
<1> HIDE DEF r
<1>10. ~Stopped(s2)
  <2>1. Stopped(s2) => s3 = s2 BY DEF preempt_enable
  <2> QED BY <1>9, <2>1
<1>11. s1.se[t].task_on_rq # 1 BY <1>5 DEF Stays
<1>12. Sound(s2) /\ Keeps(s1, s2)
  BY <1>3, <1>5, <1>6, <1>10, <1>11, AttachSound, AttachKeeps
<1> HIDE DEF s2
<1>13. Picks(s2, s3) BY <1>7, <1>9, <1>12, EnablePicks DEF Keeps
<1>14. Picks(s, s3) BY <1>6, <1>12, <1>13, KeepsTrans
<1> QED BY <1>9, <1>14 DEF r

\* The task that the balancer keeps only moves in the list.
LEMMA KeepKeeps ==
    ASSUME NEW s \in Images, NEW c \in CPUs, Sound(s), Paced(s), NEW t \in Listed(s, c)
    PROVE  Keeps(s, move_to_front_cfs_tasks(s, c, t))
<1>1. IsInjective(s.rq[c].cfs_tasks) BY DEF Sound, Shape, Accounted
<1>2. t \in ToSet(s.rq[c].cfs_tasks) BY DEF Listed
<1>3. Steady(s, move_to_front_cfs_tasks(s, c, t)) BY <1>1, <1>2, FrontSteady
<1> QED BY <1>3, SteadyKeeps

-----------------------------------------------------------------------------
(* The steps of the system.                                                *)

\* The inductive invariant.
Even == Settled /\ Paced(Memory)

\* It holds at the start: nobody is queued, and nothing has run.
LEMMA InitEven ==
    ASSUME TimelineContract, MemberContract, OrderContract, Init PROVE Even
<1>1. Settled BY InitSettled
<1>2. jiffies \in Nat BY <1>1 DEF Settled, IInv
<1>3. Memory \in Images BY <1>1, <1>2, MemoryImage DEF Settled, Init
<1>4. NodeKeys(Memory) \in [Entities -> ULong] BY <1>3, Numbers
<1>5. Memory.tl = TLInit /\ Memory.cfs = cfs /\ Memory.se = se /\ Memory.rq = rq
  BY DEF Memory, Init
<1>6. InOrder(Memory.tl, NodeKeys(Memory)) BY <1>4, <1>5 DEF OrderContract
<1>7. \A c \in CPUs : Memory.cfs[c].min_vruntime >= 0
  <2>1. \A c \in CPUs : cfs[c].min_vruntime = 0 BY DEF Init, NewCfs
  <2> QED BY <1>5, <2>1
<1>8. \A t \in Tasks : Memory.se[t].vruntime >= 0 /\ Memory.se[t].exec_start <= Now
  <2>1. \A t \in Tasks : se[t].vruntime = 0 /\ se[t].exec_start = 0
    BY DEF Init, NewEntity, Entities
  <2>2. 0 <= Now BY <1>2 DEF Now, jiffies_to_msecs
  <2> QED BY <1>5, <2>1, <2>2
<1>9. \A c \in CPUs : Listed(Memory, c) = {}
  <2>1. \A c \in CPUs : rq[c].cfs_tasks = << >> BY DEF Init, NewRq
  <2>2. ToSet(<< >>) = {} BY DEF ToSet
  <2> QED BY <1>5, <2>1, <2>2 DEF Listed
<1> QED BY <1>1, <1>6, <1>7, <1>8, <1>9 DEF Even, Paced

\* A handler that stops leaves the memory as it was.
LEMMA CommitPicks ==
    ASSUME NEW r \in Images, Commit(r), Paced(Memory),
           ~Stopped(r) => Picks(Memory, r)
    PROVE  Picks(Memory, Memory')
<1>1. CASE Stopped(r)
  <2>1. Memory' = Memory BY <1>1, CommitMemory
  <2>2. Picks(Memory, Memory) BY DEF Picks
  <2> QED BY <2>1, <2>2
<1>2. CASE ~Stopped(r)
  <2>1. Memory' = r BY <1>2, CommitMemory
  <2> QED BY <1>2, <2>1
<1> QED BY <1>1, <1>2

\* What each action does.
LEMMA WakeStep ==
    ASSUME TimelineContract, MemberContract, OrderContract, Even,
           NEW t \in Tasks, NEW c \in CPUs, Wake(t, c)
    PROVE  Picks(Memory, Memory')
<1>1. fault = "none" /\ se[t].task_on_rq = 0 /\ jiffies \in Nat
  BY DEF Wake, Running, Even, Settled, IInv
<1>2. PICK garbage \in UninitCpu :
        Commit(wake_up_new_task([Image EXCEPT !.se[t].cpu = garbage], t, c))
  BY DEF Wake
<1> DEFINE s == [Image EXCEPT !.se[t].cpu = garbage]
           r == wake_up_new_task(s, t, c)
<1>3. Memory \in Images /\ Memory = Image BY <1>1, MemoryImage DEF Even, Settled
<1>4. s \in Images BY <1>3, SetCpu DEF Advances
<1>5. /\ s.rq = Memory.rq /\ s.cfs = Memory.cfs /\ s.tl = Memory.tl
      /\ s.fault = Memory.fault /\ \A e \in Entities : SameEntity(Memory, s, e)
  BY <1>3 DEF SameEntity, Images, SeImages, SeType
<1>6. Steady(Memory, s) BY <1>3, CpuSteady
<1>7. Commit(r) BY <1>2
<1> HIDE DEF s
<1>8. Same(Memory, s) /\ ~Stopped(s)
  BY <1>5 DEF Same, SameQueue, SameRq, SameCfs, NoLighter, SameWaiters, Live, Stopped, Memory
<1>9. Sound(s) /\ Stays(Memory, s) BY <1>3, <1>4, <1>8, SoundSame DEF Even, Settled
<1>10. s.se[t].task_on_rq # 1 BY <1>1, <1>9 DEF Stays, Memory
<1>11. r \in Images BY <1>1, <1>4, WakeUpNewTask DEF Advances
<1>12. Keeps(Memory, s) /\ Paced(s) BY <1>3, <1>6, SteadyKeeps DEF Even, Keeps
<1>13. ~Stopped(r) => Picks(s, r)
  BY <1>1, <1>4, <1>9, <1>10, <1>12, WakePicks
<1> HIDE DEF r
<1>14. ~Stopped(r) => Picks(Memory, r) BY <1>12, <1>13, KeepsTrans
<1> QED BY <1>7, <1>11, <1>14, CommitPicks DEF Even

\* As above, for schedule and the tick.
LEMMA HandlerStep ==
    ASSUME TimelineContract, MemberContract, OrderContract, Even,
           NEW c \in CPUs, Schedule(c) \/ Tick(c)
    PROVE  Picks(Memory, Memory')
<1>1. fault = "none" /\ jiffies \in Nat BY DEF Schedule, Tick, Running, Even, Settled, IInv
<1>2. Memory \in Images /\ Memory = Image BY <1>1, MemoryImage DEF Even, Settled
<1>3. CASE Schedule(c)
  <2> DEFINE r == schedule(Image, c)
  <2>1. Commit(r) BY <1>3 DEF Schedule
  <2>2. r \in Images BY <1>1, <1>2, ScheduleAll DEF Advances
  <2>3. ~Stopped(r) => Picks(Memory, r)
    BY <1>1, <1>2, SchedulePicks DEF Even, Settled
  <2> HIDE DEF r
  <2> QED BY <2>1, <2>2, <2>3, CommitPicks DEF Even
<1>4. CASE Tick(c)
  <2> DEFINE r == scheduler_tick(Image, c)
  <2>1. Commit(r) BY <1>4 DEF Tick
  <2>2. r \in Images BY <1>1, <1>2, SchedulerTick DEF Advances
  <2>3. ~Stopped(r) => Picks(Memory, r)
    <3>1. Queues(Memory) BY ShapeQueues DEF Even, Settled, Sound
    <3>2. ~Stopped(r) => Keeps(Memory, r) BY <1>1, <1>2, <3>1, TickKeeps DEF Even
    <3> QED BY <3>2, KeepsTrans
  <2> HIDE DEF r
  <2> QED BY <2>1, <2>2, <2>3, CommitPicks DEF Even
<1> QED BY <1>3, <1>4

\* As above, for detach_tasks.
LEMMA DetachStep ==
    ASSUME TimelineContract, MemberContract, OrderContract, Even,
           DetachKeep \/ \E more \in BOOLEAN : DetachMove(more)
    PROVE  Picks(Memory, Memory')
<1> DEFINE t == Last(rq[env.src].cfs_tasks)
<1>1. DetachLoops BY DEF DetachKeep, DetachMove
<1>2. /\ env.src \in CPUs /\ env.dst \in CPUs /\ t \in Listed(Memory, env.src)
      /\ Memory \in Images /\ Memory = Image /\ jiffies \in Nat
  BY <1>1, LastListed DEF Even
<1> HIDE DEF t
<1>3. t \in Tasks BY <1>2, ShapeCurr DEF Even, Settled, Sound
<1>4. CASE DetachKeep
  <2> DEFINE r == move_to_front_cfs_tasks(Image, env.src, t)
  <2>1. Commit(r) BY <1>4 DEF DetachKeep, t
  <2>2. r \in Images BY <1>2, <1>3, MoveToFront DEF Advances
  <2>3. Keeps(Memory, r) BY <1>2, KeepKeeps DEF Even, Settled
  <2> HIDE DEF r
  <2>4. Picks(Memory, r) BY <2>3, KeepsTrans
  <2> QED BY <2>1, <2>2, <2>4, CommitPicks DEF Even
<1>5. CASE \E more \in BOOLEAN : DetachMove(more)
  <2> DEFINE r == detach_task(Image, t, env.src, env.dst)
  <2>1. Commit(r) /\ t # rq[env.src].curr BY <1>5 DEF DetachMove, t
  <2>2. r \in Images BY <1>2, <1>3, DetachTask DEF Advances
  <2>3. t # Memory.rq[env.src].curr BY <2>1 DEF Memory
  <2>4. ~Stopped(r) => Keeps(Memory, r) BY <1>2, <2>3, DetachKeeps DEF Even, Settled
  <2> HIDE DEF r
  <2>5. ~Stopped(r) => Picks(Memory, r) BY <2>4, KeepsTrans
  <2> QED BY <2>1, <2>2, <2>5, CommitPicks DEF Even
<1> QED BY <1>4, <1>5

\* As above, for attach_tasks.
LEMMA AttachStep ==
    ASSUME TimelineContract, MemberContract, OrderContract, Even, AttachNext
    PROVE  Picks(Memory, Memory')
<1> DEFINE t == Head(env.tasks)
           r == attach_task(Image, t, env.dst)
<1>1. /\ env.dst \in CPUs /\ jiffies \in Nat /\ fault = "none"
      /\ env.tasks # << >> /\ env.tasks \in Seq(Tasks)
  BY DEF AttachNext, Running, Even, Settled, IInv, EnvOK, EnvType
<1>2. Commit(r) BY DEF AttachNext
<1>3. t \in Tasks /\ t \in ToSet(env.tasks)
  <2>1. t \in ToSet(env.tasks) BY <1>1, TailElements DEF Even, Settled, Flight
  <2> QED BY <1>1, <2>1
<1> HIDE DEF t
<1>4. Memory \in Images /\ Memory = Image BY <1>1, MemoryImage DEF Even, Settled
<1>5. Memory.se[t].task_on_rq # 1 BY <1>3 DEF Even, Settled, Flight, Memory
<1>6. r \in Images BY <1>1, <1>3, <1>4, AttachTask DEF Advances
<1>7. ~Stopped(r) => Keeps(Memory, r)
  BY <1>1, <1>3, <1>4, <1>5, AttachKeeps DEF Even, Settled
<1> HIDE DEF r
<1>8. ~Stopped(r) => Picks(Memory, r) BY <1>7, KeepsTrans
<1> QED BY <1>2, <1>6, <1>8, CommitPicks DEF Even

\* The time only goes on.
LEMMA LaterPaced ==
    ASSUME NEW s \in Images, jiffies \in Nat, jiffies' \in Nat,
           jiffies' = jiffies \/ jiffies' = jiffies + 1,
           s = Memory', Paced(s)
    PROVE  Paced(Memory)'
<1>1. Now \in Int /\ Now' \in Int /\ Now <= Now'
  <2>1. \A n \in Nat : \A m \in {n, n + 1} :
           4 * n * 20 \in Int /\ 4 * m * 20 \in Int /\ 4 * n * 20 <= 4 * m * 20
    OBVIOUS
  <2>2. jiffies' \in {jiffies, jiffies + 1} OBVIOUS
  <2> QED BY <2>1, <2>2 DEF Now, jiffies_to_msecs
<1>2. \A t \in Tasks : s.se[t].exec_start <= Now'
  <2>1. \A t \in Tasks : s.se[t].exec_start \in Int /\ s.se[t].exec_start <= Now
    BY Numbers DEF Paced, Entities
  <2> QED BY <1>1, <2>1
<1>3. /\ InOrder(s.tl, NodeKeys(s)) /\ \A c \in CPUs : s.cfs[c].min_vruntime >= 0
      /\ \A t \in Tasks : s.se[t].vruntime >= 0
      /\ \A c \in CPUs : \A t \in Listed(s, c) : InStep(s, c, t)
  BY DEF Paced
<1> QED BY <1>2, <1>3 DEF Paced, NodeKeys, Listed, InStep

\* The image of the next state is one.
LEMMA NextMemory == (IInv => Memory \in Images)'
<1>1. IInv => Memory \in Images BY MemoryImage
<1> QED BY <1>1, PTL

\* Every step.
LEMMA StepPicks ==
    ASSUME TimelineContract, MemberContract, OrderContract, Even, Next
    PROVE  Even' /\ Picks(Memory, Memory')
<1>1. Settled' BY StepMoves DEF Even
<1>2. jiffies \in Nat /\ jiffies' \in Nat BY <1>1 DEF Even, Settled, IInv
<1>3. jiffies' = jiffies \/ jiffies' = jiffies + 1
  <2>1. CASE AdvanceJiffies BY <2>1 DEF AdvanceJiffies
  <2>2. CASE \E t \in Tasks, c \in CPUs : Wake(t, c) BY <2>2 DEF Wake
  <2>3. CASE \E c \in CPUs : Schedule(c) \/ Tick(c) BY <2>3 DEF Schedule, Tick
  <2>4. CASE (\E src \in CPUs : ChooseSrc(src)) \/ (\E dst \in CPUs : MoreBalance(dst))
    BY <2>4 DEF ChooseSrc, MoreBalance, BeginDetach
  <2>5. CASE BalanceStep \/ BalanceEnd
    BY <2>5 DEF BalanceStep, BalanceEnd, DetachKeep, DetachMove, DetachEnd, AttachNext,
       AttachEnd
  <2> QED BY <2>1, <2>2, <2>3, <2>4, <2>5 DEF Next
<1>4. Picks(Memory, Memory) BY DEF Even, Picks
<1>5. Picks(Memory, Memory')
  <2>1. CASE AdvanceJiffies \/ BalanceEnd \/ DetachEnd \/ AttachEnd
    <3>1. Memory' = Memory
      BY <2>1 DEF AdvanceJiffies, BalanceEnd, DetachEnd, AttachEnd, Memory
    <3> QED BY <1>4, <3>1
  <2>2. CASE \E t \in Tasks, c \in CPUs : Wake(t, c) BY <2>2, WakeStep
  <2>3. CASE \E c \in CPUs : Schedule(c) \/ Tick(c) BY <2>3, HandlerStep
  <2>4. CASE (\E src \in CPUs : ChooseSrc(src)) \/ (\E dst \in CPUs : MoreBalance(dst))
    <3>1. Memory' = Memory BY <2>4 DEF ChooseSrc, MoreBalance, BeginDetach, Memory
    <3> QED BY <1>4, <3>1
  <2>5. CASE DetachKeep \/ \E more \in BOOLEAN : DetachMove(more) BY <2>5, DetachStep
  <2>6. CASE AttachNext BY <2>6, AttachStep
  <2> QED BY <2>1, <2>2, <2>3, <2>4, <2>5, <2>6 DEF Next, BalanceStep
<1>6. Memory \in Images BY <1>2, MemoryImage DEF Even, Settled
<1>7. Paced(Memory') BY <1>5 DEF Picks
<1>8. Paced(Memory)'
  <2>1. Memory' \in Images BY <1>1, NextMemory DEF Settled
  <2> QED BY <1>2, <1>3, <1>7, <2>1, LaterPaced
<1> QED BY <1>1, <1>5, <1>8 DEF Even

-----------------------------------------------------------------------------
(* The theorems.                                                           *)

\* The invariant is inductive.
LEMMA EvenAlways ==
    ASSUME TimelineContract, MemberContract, OrderContract PROVE Spec => []Even
<1>1. Init => Even BY InitEven
<1>2. Even /\ [Next]_vars => Even'
  <2>1. ASSUME Even, Next PROVE Even' BY <2>1, StepPicks
  <2>2. ASSUME Even, UNCHANGED vars PROVE Even'
    <3>1. IInv' BY <2>2 DEF Even, Settled, IInv, EnvOK, Image, vars
    <3>2. Flight' /\ Phased' BY <2>2 DEF Even, Settled, Flight, Phased, vars
    <3>3. Memory' = Memory /\ jiffies' = jiffies BY <2>2 DEF Memory, vars
    <3>4. Settled' BY <2>2, <3>1, <3>2, <3>3 DEF Even, Settled
    <3>5. Memory \in Images /\ jiffies \in Nat BY <2>2, MemoryImage DEF Even, Settled, IInv
    <3>6. Paced(Memory)' BY <2>2, <3>3, <3>5, LaterPaced DEF Even
    <3> QED BY <3>4, <3>6 DEF Even
  <2> QED BY <2>1, <2>2
<1> QED BY <1>1, <1>2, PTL DEF Spec

\* The vruntime of a task that leaves a queue is made relative to min_vruntime
\* (dequeue_entity, runqueue.cpp:90), and absolute in the one it enters
\* (enqueue_entity, 53 and 58): as min_vruntime is a lower bound of its queue,
\* the unsigned subtraction never wraps.
THEOREM VruntimesDoNotWrap ==
    ASSUME TimelineContract, MemberContract, OrderContract
    PROVE  Spec => []VruntimeDoesNotWrap
<1>1. Even => VruntimeDoesNotWrap
  <2>1. ASSUME Even, NEW t \in Tasks
        PROVE  /\ se[t].vruntime >= 0
               /\ \A c \in QueuedOn(t) : se[t].vruntime >= cfs[c].min_vruntime
    <3>1. Memory.se = se /\ Memory.cfs = cfs
          /\ \A c \in CPUs : Listed(Memory, c) = Queued(c)
      BY DEF Memory, Listed, Queued
    <3> QED BY <2>1, <3>1 DEF Even, Paced, InStep, QueuedOn
  <2> QED BY <2>1 DEF VruntimeDoesNotWrap
<1> QED BY <1>1, EvenAlways, PTL

\* pick_next_entity (runqueue.cpp:149-187) may prefer the buddy to the leftmost task,
\* but only within wakeup_granularity; and no handler but the one that picks
\* puts a task on the CPU.
THEOREM PicksAreFair ==
    ASSUME TimelineContract, MemberContract, OrderContract
    PROVE  Spec => PickIsFair
<1> DEFINE Fair == \A c \in CPUs :
                      LET e == rq'[c].curr
                      IN  e # rq[c].curr /\ e \in Tasks =>
                            \A t \in ToSet(rq'[c].cfs_tasks) :
                                se'[t].vruntime + sysctl_sched_wakeup_granularity
                                    >= se'[e].vruntime
<1>1. Even /\ [Next]_vars => [Fair]_vars
  <2>1. ASSUME Even, Next PROVE Fair
    <3>1. Picks(Memory, Memory') BY <2>1, StepPicks
    <3>2. Memory.rq = rq /\ Memory'.rq = rq' /\ Memory'.se = se'
          /\ \A c \in CPUs : Listed(Memory', c) = ToSet(rq'[c].cfs_tasks)
      BY DEF Memory, Listed
    <3> QED BY <3>1, <3>2 DEF Picks, FairOn
  <2> QED BY <2>1
<1>2. Spec => [][Fair]_vars BY <1>1, EvenAlways, PTL DEF Spec
<1> QED BY <1>2 DEF PickIsFair

\* The timelines of Timeline, which MCRunQueue gives the queues and which
\* RbTimeline compares with the tree, meet the contract: in order is what
\* the abstract timelines below are.
THEOREM OrderedTimelinesKeepOrder ==
    ASSUME ProperTimelines = {timeline \in [CPUs -> Seq(Tasks)] :
                                 \A c \in CPUs : IsInjective(timeline[c])},
           \A timeline, key :
             InOrder(timeline, key) <=> \A c \in CPUs : SortedBy(timeline[c], key),
           TLInit = OrderedInit(CPUs),
           \A timeline, c, e, key :
             TLInsert(timeline, c, e, key) = OrderedInsert(timeline, c, e, key),
           \A timeline, c, e : TLErase(timeline, c, e) = OrderedErase(timeline, c, e),
           \A timeline, c : TLFirst(timeline, c) = OrderedFirst(timeline, c, NULL),
           \A timeline, c : TLWalk(timeline, c) = OrderedWalk(timeline, c),
           \A timeline, c : TLMembers(timeline, c) = OrderedMembers(timeline, c)
    PROVE  OrderContract
<1>1. ASSUME NEW key \in [Entities -> ULong] PROVE InOrder(TLInit, key)
  <2>1. \A c \in CPUs : Len(TLInit[c]) = 0 BY DEF OrderedInit
  <2>2. \A c \in CPUs : SortedBy(TLInit[c], key) BY <2>1 DEF SortedBy
  <2> QED BY <2>2
<1> SUFFICES ASSUME NEW f \in ProperTimelines, NEW key \in [Entities -> ULong],
                    InOrder(f, key)
             PROVE
   /\ \A other \in [Entities -> ULong] :
         (\A c \in CPUs : \A t \in TLMembers(f, c) : other[t] = key[t])
            => InOrder(f, other)
   /\ \A c \in CPUs :
         /\ \A t \in Tasks : t \notin TLMembers(f, c) =>
               (TLFault(TLInsert(f, c, t, key)) = "none"
                  => InOrder(TLInsert(f, c, t, key), key))
         /\ \A t \in TLMembers(f, c) :
               /\ TLFault(TLErase(f, c, t)) = "none"
                     => InOrder(TLErase(f, c, t), key)
               /\ ~ULess(key[t], key[TLFirst(f, c)])
         /\ TLFault(TLWalk(f, c)) = "none" => InOrder(TLWalk(f, c), key)
  BY <1>1 DEF OrderContract
<1>2. f \in [CPUs -> Seq(Tasks)] /\ \A c \in CPUs : SortedBy(f[c], key) OBVIOUS
<1>3. Tasks \subseteq Entities BY DEF Entities
<1>4. \A c \in CPUs : f[c] \in Seq(Tasks) /\ f[c] \in Seq(Entities) BY <1>2, <1>3
<1>5. f \in [CPUs -> Seq(Entities)] BY <1>2, <1>4
<1>6. \A c \in CPUs : TLMembers(f, c) = {f[c][i] : i \in 1 .. Len(f[c])}
  BY DEF OrderedMembers
<1>7. ASSUME NEW other \in [Entities -> ULong],
             \A c \in CPUs : \A t \in TLMembers(f, c) : other[t] = key[t]
      PROVE  InOrder(f, other)
  <2>1. ASSUME NEW c \in CPUs PROVE SortedBy(f[c], other)
    <3>1. \A i \in 1 .. Len(f[c]) : other[f[c][i]] = key[f[c][i]] BY <1>6, <1>7
    <3> QED BY <1>2, <3>1 DEF SortedBy
  <2> QED BY <2>1
<1>8. ASSUME NEW r, NEW c \in CPUs, SortedBy(r[c], key), \A d \in CPUs \ {c} : r[d] = f[d]
      PROVE  InOrder(r, key)
  <2>1. \A d \in CPUs : SortedBy(r[d], key) BY <1>2, <1>8
  <2> QED BY <2>1
<1>9. ASSUME NEW c \in CPUs, NEW t \in Tasks PROVE InOrder(TLInsert(f, c, t, key), key)
  <2> DEFINE r == OrderedInsert(f, c, t, key)
  <2>1. SortedBy(r[c], key) BY <1>2, <1>3, <1>5, InsertSorted
  <2>2. \A d \in CPUs \ {c} : r[d] = f[d] BY <1>5 DEF OrderedInsert
  <2> HIDE DEF r
  <2>3. InOrder(r, key) BY <1>8, <2>1, <2>2
  <2> QED BY <2>3 DEF r
<1>10. ASSUME NEW c \in CPUs, NEW t \in TLMembers(f, c)
       PROVE  /\ InOrder(TLErase(f, c, t), key)
              /\ ~ULess(key[t], key[TLFirst(f, c)])
  <2> DEFINE r == OrderedErase(f, c, t)
  <2>1. t \in OrderedMembers(f, c) OBVIOUS
  <2>2. SortedBy(r[c], key) BY <1>2, <1>5, <2>1, EraseSorted
  <2>3. \A d \in CPUs \ {c} : r[d] = f[d] BY <1>5 DEF OrderedErase
  <2> HIDE DEF r
  <2>4. InOrder(r, key) BY <1>8, <2>2, <2>3
  <2>5. PICK i \in 1 .. Len(f[c]) : t = f[c][i] BY <1>6
  <2>6. f[c] # << >> /\ 1 \in 1 .. Len(f[c]) /\ Len(f[c]) \in Nat BY <1>4, <2>5
  <2>7. TLFirst(f, c) = f[c][1] BY <1>4, <2>6 DEF OrderedFirst
  <2>8. ~ULess(key[f[c][i]], key[f[c][1]])
    <3>1. CASE i = 1
      <4>1. key[t] \in ULong BY <1>4, <1>3, <2>5
      <4> QED BY <2>5, <3>1, <4>1, ULessTotalOrder
    <3>2. CASE 1 < i BY <1>2, <2>6, <3>2 DEF SortedBy
    <3> QED BY <2>6, <3>1, <3>2
  <2> QED BY <2>4, <2>5, <2>7, <2>8 DEF r
<1>11. \A c \in CPUs : InOrder(TLWalk(f, c), key) BY DEF OrderedWalk
<1> QED BY <1>7, <1>9, <1>10, <1>11

-----------------------------------------------------------------------------
(* The timelines by themselves: what the abstract timelines of             *)
(* TimelineSpec, which RbTimeline compares the tree with, promise the      *)
(* picker for any number of CPUs and entities and any keys.                *)
CONSTANT  Keys
VARIABLES queues, keys

Queue == INSTANCE TimelineSpec WITH timeline <- queues, key <- keys

QueueTypes ==
    /\ queues \in [CPUs -> Seq(Entities)]
    /\ keys \in [Entities -> Keys]

InKeyOrder == \A c \in CPUs : SortedBy(queues[c], keys)

\* An entity has one place in one queues.
OnePlace ==
    \A c, d \in CPUs :
        \A i \in 1 .. Len(queues[c]), j \in 1 .. Len(queues[d]) :
            queues[c][i] = queues[d][j] => c = d /\ i = j

QueuesInv == QueueTypes /\ InKeyOrder /\ OnePlace

\* TimelineSpec works with the operators the run queues work with.
LEMMA QueueOperators ==
    /\ Queue!OrderedInit(CPUs) = OrderedInit(CPUs)
    /\ \A f, c, e, k : Queue!OrderedInsert(f, c, e, k) = OrderedInsert(f, c, e, k)
    /\ \A f, c, e : Queue!OrderedErase(f, c, e) = OrderedErase(f, c, e)
    /\ \A f, c : Queue!OrderedMembers(f, c) = OrderedMembers(f, c)
<1>1. Queue!OrderedInit(CPUs) = OrderedInit(CPUs) BY DEF Queue!OrderedInit, OrderedInit
<1>2. \A f, c, e, k : Queue!OrderedInsert(f, c, e, k) = OrderedInsert(f, c, e, k)
  BY DEF Queue!OrderedInsert, OrderedInsert, Queue!RankOf, RankOf, Queue!ULess, ULess
<1>3. \A f, c, e : Queue!OrderedErase(f, c, e) = OrderedErase(f, c, e)
  BY DEF Queue!OrderedErase, OrderedErase
<1>4. \A f, c : Queue!OrderedMembers(f, c) = OrderedMembers(f, c)
  BY DEF Queue!OrderedMembers, OrderedMembers
<1> QED BY <1>1, <1>2, <1>3, <1>4

\* One place each: no queues has an entity twice, no two have the same.
LEMMA PlacesApart ==
    ASSUME NEW f \in [CPUs -> Seq(Entities)]
    PROVE  (\A c, d \in CPUs :
               \A i \in 1 .. Len(f[c]), j \in 1 .. Len(f[d]) :
                   f[c][i] = f[d][j] => c = d /\ i = j)
           <=> /\ \A c \in CPUs : IsInjective(f[c])
               /\ \A c, d \in CPUs :
                     c # d => OrderedMembers(f, c) \cap OrderedMembers(f, d) = {}
<1>1. \A c \in CPUs : DOMAIN f[c] = 1 .. Len(f[c])
  <2>1. \A c \in CPUs : f[c] \in Seq(Entities) OBVIOUS
  <2> QED BY <2>1
<1>2. ASSUME \A c, d \in CPUs : \A i \in 1 .. Len(f[c]), j \in 1 .. Len(f[d]) :
                 f[c][i] = f[d][j] => c = d /\ i = j
      PROVE  /\ \A c \in CPUs : IsInjective(f[c])
             /\ \A c, d \in CPUs :
                   c # d => OrderedMembers(f, c) \cap OrderedMembers(f, d) = {}
  <2>1. ASSUME NEW c \in CPUs PROVE IsInjective(f[c])
    BY <1>1, <1>2 DEF IsInjective
  <2>2. ASSUME NEW c \in CPUs, NEW d \in CPUs, c # d
        PROVE  OrderedMembers(f, c) \cap OrderedMembers(f, d) = {}
    BY <1>2, <2>2 DEF OrderedMembers
  <2> QED BY <2>1, <2>2
<1>3. ASSUME \A c \in CPUs : IsInjective(f[c]),
             \A c, d \in CPUs :
                c # d => OrderedMembers(f, c) \cap OrderedMembers(f, d) = {},
             NEW c \in CPUs, NEW d \in CPUs,
             NEW i \in 1 .. Len(f[c]), NEW j \in 1 .. Len(f[d]), f[c][i] = f[d][j]
      PROVE  c = d /\ i = j
  <2>1. f[c][i] \in OrderedMembers(f, c) /\ f[d][j] \in OrderedMembers(f, d)
    BY DEF OrderedMembers
  <2>2. c = d BY <1>3, <2>1
  <2> QED BY <1>1, <1>3, <2>2 DEF IsInjective
<1> QED BY <1>2, <1>3

\* An entity that waits nowhere is queued with a keys of its own: the others
\* stay in order of theirs.
LEMMA EnqueueKeeps ==
    ASSUME Keys \subseteq ULong, QueuesInv,
           NEW c \in CPUs, NEW e \in Entities, NEW k \in Keys, Queue!Enqueue(c, e, k)
    PROVE  QueuesInv'
<1>1. queues \in [CPUs -> Seq(Entities)] /\ keys \in [Entities -> Keys]
  BY DEF QueuesInv, QueueTypes
<1>2. /\ keys' = [keys EXCEPT ![e] = k] /\ keys' \in [Entities -> Keys]
      /\ keys' \in [Entities -> ULong]
  BY <1>1, QueueOperators DEF Queue!Enqueue
<1>3. /\ queues' = OrderedInsert(queues, c, e, keys')
      /\ queues' \in [CPUs -> Seq(Entities)]
  BY <1>1, OrderedInsertType, QueueOperators DEF Queue!Enqueue
<1>4. \A d \in CPUs : e \notin OrderedMembers(queues, d) BY QueueOperators DEF Queue!Enqueue, Queue!Waiting
<1>5. /\ \A d \in CPUs : IsInjective(queues[d])
      /\ \A d, f \in CPUs :
            d # f => OrderedMembers(queues, d) \cap OrderedMembers(queues, f) = {}
  BY <1>1, PlacesApart DEF QueuesInv, OnePlace
<1>6. /\ OrderedMembers(queues', c) = OrderedMembers(queues, c) \cup {e}
      /\ \A d \in CPUs \ {c} : queues'[d] = queues[d]
      /\ IsInjective(queues'[c])
  <2> DEFINE r == OrderedInsert(queues, c, e, keys')
  <2>1. IsInjective(queues[c]) /\ e \notin OrderedMembers(queues, c) BY <1>4, <1>5
  <2>2. /\ OrderedMembers(r, c) = OrderedMembers(queues, c) \cup {e}
        /\ \A d \in CPUs \ {c} : r[d] = queues[d]
        /\ IsInjective(r[c])
    BY <1>1, <2>1, InsertMembers
  <2> QED BY <1>3, <2>2
<1>7. \A d \in CPUs \ {c} : OrderedMembers(queues', d) = OrderedMembers(queues, d)
  BY <1>6 DEF OrderedMembers
<1>8. InKeyOrder'
  <2>1. ASSUME NEW d \in CPUs PROVE SortedBy(queues[d], keys')
    <3>1. queues[d] \in Seq(Entities) BY <1>1
    <3>2. \A i \in 1 .. Len(queues[d]) : queues[d][i] # e BY <1>4 DEF OrderedMembers
    <3>3. \A i \in 1 .. Len(queues[d]) : keys'[queues[d][i]] = keys[queues[d][i]]
      BY <1>1, <1>2, <3>1, <3>2
    <3> QED BY <3>3 DEF QueuesInv, InKeyOrder, SortedBy
  <2>2. SortedBy(queues'[c], keys')
    <3>1. SortedBy(queues[c], keys') BY <2>1
    <3>2. SortedBy(OrderedInsert(queues, c, e, keys')[c], keys')
      BY <1>1, <1>2, <3>1, InsertSorted
    <3> QED BY <1>3, <3>2
  <2> QED BY <1>6, <2>1, <2>2 DEF InKeyOrder
<1>9. OnePlace'
  <2>1. \A d \in CPUs : IsInjective(queues'[d]) BY <1>5, <1>6
  <2>2. \A d, f \in CPUs :
          d # f => OrderedMembers(queues', d) \cap OrderedMembers(queues', f) = {}
    BY <1>4, <1>5, <1>6, <1>7
  <2> QED BY <1>3, <2>1, <2>2, PlacesApart DEF OnePlace
<1> QED BY <1>2, <1>3, <1>8, <1>9 DEF QueuesInv, QueueTypes

\* An entity that leaves closes the gap.
LEMMA DequeueKeeps ==
    ASSUME QueuesInv, NEW c \in CPUs, NEW e \in Entities, Queue!Dequeue(c, e)
    PROVE  QueuesInv'
<1>1. queues \in [CPUs -> Seq(Entities)] /\ keys \in [Entities -> Keys]
  BY DEF QueuesInv, QueueTypes
<1>2. keys' = keys /\ e \in OrderedMembers(queues, c) BY QueueOperators DEF Queue!Dequeue
<1>3. /\ queues' = OrderedErase(queues, c, e)
      /\ queues' \in [CPUs -> Seq(Entities)]
  BY <1>1, OrderedEraseType, QueueOperators DEF Queue!Dequeue
<1>4. /\ \A d \in CPUs : IsInjective(queues[d])
      /\ \A d, f \in CPUs :
            d # f => OrderedMembers(queues, d) \cap OrderedMembers(queues, f) = {}
  BY <1>1, PlacesApart DEF QueuesInv, OnePlace
<1>5. /\ OrderedMembers(queues', c) = OrderedMembers(queues, c) \ {e}
      /\ \A d \in CPUs \ {c} : queues'[d] = queues[d]
      /\ IsInjective(queues'[c])
  <2> DEFINE r == OrderedErase(queues, c, e)
  <2>1. IsInjective(queues[c]) BY <1>4
  <2>2. /\ OrderedMembers(r, c) = OrderedMembers(queues, c) \ {e}
        /\ \A d \in CPUs \ {c} : r[d] = queues[d]
        /\ IsInjective(r[c])
    BY <1>1, <1>2, <2>1, EraseMembers
  <2> QED BY <1>3, <2>2
<1>6. \A d \in CPUs \ {c} : OrderedMembers(queues', d) = OrderedMembers(queues, d)
  BY <1>5 DEF OrderedMembers
<1>7. InKeyOrder'
  <2>1. \A d \in CPUs : SortedBy(queues[d], keys) BY DEF QueuesInv, InKeyOrder
  <2>2. SortedBy(queues'[c], keys) BY <1>1, <1>2, <1>3, <2>1, EraseSorted
  <2> QED BY <1>2, <1>5, <2>1, <2>2 DEF InKeyOrder
<1>8. OnePlace'
  <2>1. \A d \in CPUs : IsInjective(queues'[d]) BY <1>4, <1>5
  <2>2. \A d, f \in CPUs :
          d # f => OrderedMembers(queues', d) \cap OrderedMembers(queues', f) = {}
    BY <1>4, <1>5, <1>6
  <2> QED BY <1>3, <2>1, <2>2, PlacesApart DEF OnePlace
<1> QED BY <1>1, <1>2, <1>3, <1>7, <1>8 DEF QueuesInv, QueueTypes

\* The timelines that __enqueue_entity and __dequeue_entity (runqueue.cpp)
\* are meant to keep are in the order of vruntime, so that the leftmost
\* entity is one that has run least, and no entity waits twice.
THEOREM TimelinesOrdered ==
    ASSUME Keys \subseteq ULong
    PROVE  Queue!Spec => [](InKeyOrder /\ OnePlace)
<1>1. Queue!Init => QueuesInv
  <2> SUFFICES ASSUME Queue!Init PROVE QueuesInv OBVIOUS
  <2>1. queues = [c \in CPUs |-> << >>] BY QueueOperators DEF Queue!Init, OrderedInit
  <2>2. \A c \in CPUs : Len(queues[c]) = 0 BY <2>1
  <2>3. QueueTypes BY <2>1 DEF Queue!Init, QueueTypes
  <2>4. InKeyOrder BY <2>2 DEF InKeyOrder, SortedBy
  <2>5. OnePlace BY <2>2 DEF OnePlace
  <2> QED BY <2>3, <2>4, <2>5 DEF QueuesInv
<1>2. QueuesInv /\ [Queue!Next]_<<queues, keys>> => QueuesInv'
  <2> SUFFICES ASSUME QueuesInv, [Queue!Next]_<<queues, keys>> PROVE QueuesInv' OBVIOUS
  <2>1. ASSUME NEW c \in CPUs, NEW e \in Entities, NEW k \in Keys, Queue!Enqueue(c, e, k)
        PROVE  QueuesInv'
    BY <2>1, EnqueueKeeps
  <2>2. ASSUME NEW c \in CPUs, NEW e \in Entities, Queue!Dequeue(c, e)
        PROVE  QueuesInv'
    BY <2>2, DequeueKeeps
  <2>3. CASE UNCHANGED <<queues, keys>>
    BY <2>3 DEF QueuesInv, QueueTypes, InKeyOrder, SortedBy, OnePlace
  <2> QED BY <2>1, <2>2, <2>3 DEF Queue!Next
<1>3. QueuesInv => InKeyOrder /\ OnePlace BY DEF QueuesInv
<1> QED BY <1>1, <1>2, <1>3, PTL DEF Queue!Spec
=============================================================================
