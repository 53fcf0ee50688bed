--------------------------- MODULE RunQueueProofs ---------------------------
(***************************************************************************)
(* Proofs about RunQueue, for any number of CPUs and tasks, any weights,   *)
(* and any timeline that keeps the contracts below.                        *)
(*                                                                         *)
(* First the type invariant, that min_vruntime never goes back, and that   *)
(* h_nr_running follows nr_running.  The handlers are compositions of      *)
(* operators from image to image, so the proof goes along the same         *)
(* composition: Advances(s, r) is what every operator guarantees of the    *)
(* image r it makes of s.                                                  *)
(*                                                                         *)
(* Then the five representations of "who is queued where" stay in          *)
(* agreement.  Same, Enqueued, Dequeued, Parked and Switched say what an   *)
(* operator does to an image; a lemma per operator shows that it does one  *)
(* of them; Arrival, Departure and SwitchSound show that these keep the    *)
(* invariant Sound of an image.  Settled is the inductive invariant.       *)
(***************************************************************************)
EXTENDS RunQueue, CommonLemmas

CONSTANT Timelines      \* the values a timeline can have

Faults == {"none", "crash", "hang"}

\* What the run queue needs to know of its timelines: which operations lead
\* to a timeline again, and that the first entity of one is a task.
TimelineContract ==
    /\ TLInit \in Timelines
    /\ \A timeline \in Timelines, c \in CPUs :
          /\ \A t \in Tasks :
                /\ \A key \in [Entities -> ULong] :
                      TLInsert(timeline, c, t, key) \in Timelines
                /\ TLErase(timeline, c, t) \in Timelines
          /\ TLWalk(timeline, c) \in Timelines
          /\ TLFirst(timeline, c) \in Tasks \cup {NULL}
    /\ \A timeline \in Timelines : TLFault(timeline) \in Faults

\* The idle tasks are never queued: put_prev_entity would put one in the
\* timeline otherwise.
SeImages == {f \in [Entities -> SeType] : \A c \in CPUs : f[idle[c]].on_rq = 0}

Images == [rq : [CPUs -> RqType], cfs : [CPUs -> CfsType], se : SeImages,
           tl : Timelines, fault : Faults]

\* What an operator of the model guarantees of the image it makes.
Advances(s, r) ==
    /\ r \in Images
    /\ \A c \in CPUs :
          /\ ~ULess(r.cfs[c].min_vruntime, s.cfs[c].min_vruntime)
          /\ r.cfs[c].h_nr_running - s.cfs[c].h_nr_running
               = r.rq[c].nr_running - s.rq[c].nr_running

-----------------------------------------------------------------------------
(* The algebra of images.                                                  *)

\* The unsigned order is total and transitive, so a bound that moves up in
\* every step has moved up in the end.
LEMMA ULessOrder ==
    ASSUME NEW a \in ULong, NEW b \in ULong, NEW d \in ULong
    PROVE  /\ ~ULess(a, a)
           /\ ~ULess(b, a) /\ ~ULess(d, b) => ~ULess(d, a)
           /\ UMax(a, b) \in ULong /\ ~ULess(UMax(a, b), a)
           /\ UMin(a, b) \in ULong
BY DEF ULess, UMax, UMin, ULong

LEMMA Counters ==
    ASSUME NEW s \in Images, NEW c \in CPUs
    PROVE  /\ s.cfs[c].min_vruntime \in ULong /\ s.cfs[c].h_nr_running \in ULong
           /\ s.rq[c].nr_running \in ULong
BY DEF Images, CfsType, RqType

\* An operator that leaves the counters alone advances, whatever else it does.
LEMMA SameCounters ==
    ASSUME NEW s \in Images, NEW r \in Images,
           \A c \in CPUs : /\ r.cfs[c].min_vruntime = s.cfs[c].min_vruntime
                          /\ r.cfs[c].h_nr_running = s.cfs[c].h_nr_running
                          /\ r.rq[c].nr_running = s.rq[c].nr_running
    PROVE  Advances(s, r)
<1> SUFFICES ASSUME NEW c \in CPUs
             PROVE  /\ ~ULess(r.cfs[c].min_vruntime, s.cfs[c].min_vruntime)
                    /\ r.cfs[c].h_nr_running - s.cfs[c].h_nr_running
                         = r.rq[c].nr_running - s.rq[c].nr_running
  BY DEF Advances
<1>1. ~ULess(s.cfs[c].min_vruntime, s.cfs[c].min_vruntime) BY Counters, ULessOrder
<1>2. s.cfs[c].h_nr_running \in Int /\ s.rq[c].nr_running \in Int BY Counters DEF ULong
<1> QED BY <1>1, <1>2

LEMMA AdvancesRefl == ASSUME NEW s \in Images PROVE Advances(s, s)
BY SameCounters

LEMMA AdvancesTrans ==
    ASSUME NEW s \in Images, NEW r, NEW q, Advances(s, r), Advances(r, q)
    PROVE  Advances(s, q)
<1>1. r \in Images /\ q \in Images BY DEF Advances
<1> SUFFICES ASSUME NEW c \in CPUs
             PROVE  /\ ~ULess(q.cfs[c].min_vruntime, s.cfs[c].min_vruntime)
                    /\ q.cfs[c].h_nr_running - s.cfs[c].h_nr_running
                         = q.rq[c].nr_running - s.rq[c].nr_running
  BY <1>1 DEF Advances
<1>2. ~ULess(q.cfs[c].min_vruntime, s.cfs[c].min_vruntime)
  BY <1>1, Counters, ULessOrder DEF Advances
<1>3. /\ s.cfs[c].h_nr_running \in Int /\ s.rq[c].nr_running \in Int
      /\ r.cfs[c].h_nr_running \in Int /\ r.rq[c].nr_running \in Int
      /\ q.cfs[c].h_nr_running \in Int /\ q.rq[c].nr_running \in Int
  BY <1>1, Counters DEF ULong
<1>4. /\ q.cfs[c].h_nr_running - r.cfs[c].h_nr_running
           = q.rq[c].nr_running - r.rq[c].nr_running
      /\ r.cfs[c].h_nr_running - s.cfs[c].h_nr_running
           = r.rq[c].nr_running - s.rq[c].nr_running
  BY DEF Advances
<1> QED BY <1>2, <1>3, <1>4

\* A step that writes one entity, one fair queue, one run queue, the
\* timelines or the fault.
LEMMA SetSe ==
    ASSUME NEW s \in Images, NEW e \in Entities, NEW x \in SeType,
           e \notin Tasks => x.on_rq = 0
    PROVE  Advances(s, [s EXCEPT !.se = [s.se EXCEPT ![e] = x]])
<1> DEFINE f == [s.se EXCEPT ![e] = x]
<1>1. f \in [Entities -> SeType] BY DEF Images, SeImages
<1>2. \A c \in CPUs : f[idle[c]].on_rq = 0
  BY IdleAssumption DEF Images, SeImages, Entities
<1>3. f \in SeImages BY <1>1, <1>2 DEF SeImages
<1> HIDE DEF f
<1>4. [s EXCEPT !.se = f] \in Images BY <1>3 DEF Images
<1>5. [s EXCEPT !.se = f].cfs = s.cfs /\ [s EXCEPT !.se = f].rq = s.rq BY DEF Images
<1>6. Advances(s, [s EXCEPT !.se = f]) BY <1>4, <1>5, SameCounters
<1> QED BY <1>6 DEF f

LEMMA SetCfs ==
    ASSUME NEW s \in Images, NEW c \in CPUs, NEW x \in CfsType,
           ~ULess(x.min_vruntime, s.cfs[c].min_vruntime),
           x.h_nr_running = s.cfs[c].h_nr_running
    PROVE  Advances(s, [s EXCEPT !.cfs = [s.cfs EXCEPT ![c] = x]])
<1> DEFINE f == [s.cfs EXCEPT ![c] = x]
           r == [s EXCEPT !.cfs = f]
<1>1. f \in [CPUs -> CfsType] BY DEF Images
<1>2. \A d \in CPUs : f[d] = IF d = c THEN x ELSE s.cfs[d] BY DEF Images
<1> HIDE DEF f
<1>3. r \in Images BY <1>1 DEF Images
<1>4. r.cfs = f /\ r.rq = s.rq BY DEF Images
<1> HIDE DEF r
<1> SUFFICES Advances(s, r) BY DEF r, f
<1> SUFFICES ASSUME NEW d \in CPUs
             PROVE  /\ ~ULess(r.cfs[d].min_vruntime, s.cfs[d].min_vruntime)
                    /\ r.cfs[d].h_nr_running - s.cfs[d].h_nr_running
                         = r.rq[d].nr_running - s.rq[d].nr_running
  BY <1>3 DEF Advances
<1>5. s.cfs[d].h_nr_running \in Int /\ s.rq[d].nr_running \in Int
  BY Counters DEF ULong
<1>6. ~ULess(s.cfs[d].min_vruntime, s.cfs[d].min_vruntime) BY Counters, ULessOrder
<1> QED BY <1>2, <1>4, <1>5, <1>6

LEMMA SetRq ==
    ASSUME NEW s \in Images, NEW c \in CPUs, NEW x \in RqType,
           x.nr_running = s.rq[c].nr_running
    PROVE  Advances(s, [s EXCEPT !.rq = [s.rq EXCEPT ![c] = x]])
<1>1. [s.rq EXCEPT ![c] = x] \in [CPUs -> RqType] BY DEF Images
<1>2. [s EXCEPT !.rq = [s.rq EXCEPT ![c] = x]] \in Images BY <1>1 DEF Images
<1> QED BY <1>2, SameCounters DEF Images

LEMMA SetTree ==
    ASSUME TimelineContract, NEW s \in Images, NEW timeline \in Timelines
    PROVE  Advances(s, TreeOp(s, timeline))
<1>1. TLFault(timeline) \in Faults BY DEF TimelineContract
<1>2. TreeOp(s, timeline) \in Images BY <1>1 DEF TreeOp, Images
<1> QED BY <1>2, SameCounters DEF TreeOp, Images

LEMMA CrashAdvances == ASSUME NEW s \in Images PROVE Advances(s, Crash(s))
<1>1. Crash(s) \in Images BY DEF Crash, Images, Faults
<1> QED BY <1>1, SameCounters DEF Crash, Images

-----------------------------------------------------------------------------
(* class cfs_rq.                                                           *)

LEMMA UpdateVruntime ==
    ASSUME NEW s \in Images, NEW t \in Tasks, NEW v \in ULong
    PROVE  Advances(s, update_vruntime(s, t, v))
<1> DEFINE x == [s.se[t] EXCEPT !.vruntime = v, !.node_vruntime = v]
<1>1. t \in Entities BY DEF Entities
<1>2. s.se[t] \in SeType BY <1>1 DEF Images, SeImages
<1>3. x \in SeType BY <1>2 DEF SeType
<1>4. update_vruntime(s, t, v) = [s EXCEPT !.se = [s.se EXCEPT ![t] = x]]
  BY <1>1 DEF update_vruntime, Images, SeImages
<1> QED BY <1>1, <1>3, <1>4, SetSe

\* min_vruntime becomes the maximum of itself and something.
LEMMA UpdateMinVruntime ==
    ASSUME TimelineContract, NEW s \in Images, NEW c \in CPUs
    PROVE  Advances(s, update_min_vruntime(s, c))
<1> DEFINE curr == s.cfs[c].curr
           left == TLFirst(s.tl, c)
           runs == curr # NULL /\ s.se[curr].on_rq = 1
           v    == CASE runs /\ left # NULL  -> UMin(s.se[curr].vruntime,
                                                     s.se[left].node_vruntime)
                     [] runs /\ left = NULL  -> s.se[curr].vruntime
                     [] ~runs /\ left # NULL -> s.se[left].node_vruntime
                     [] OTHER                -> s.cfs[c].min_vruntime
           m    == UMax(s.cfs[c].min_vruntime, v)
           x    == [s.cfs[c] EXCEPT !.min_vruntime = m,
                                    !.curr = IF runs THEN curr ELSE NULL]
<1>1. curr \in Tasks \cup {NULL} BY DEF Images, CfsType
<1>2. left \in Tasks \cup {NULL} BY DEF TimelineContract, Images
<1>3. \A t \in Tasks : s.se[t].vruntime \in ULong /\ s.se[t].node_vruntime \in ULong
  BY DEF Images, SeImages, SeType, Entities
<1>4. v \in ULong
  <2>1. CASE runs /\ left # NULL BY <2>1, <1>1, <1>2, <1>3, ULessOrder
  <2>2. CASE runs /\ left = NULL BY <2>2, <1>1, <1>3
  <2>3. CASE ~runs /\ left # NULL BY <2>3, <1>2, <1>3
  <2>4. CASE ~runs /\ left = NULL BY <2>4, Counters
  <2> QED BY <2>1, <2>2, <2>3, <2>4
<1>5. m \in ULong /\ ~ULess(m, s.cfs[c].min_vruntime)
  <2> HIDE DEF v
  <2>1. s.cfs[c].min_vruntime \in ULong BY Counters
  <2> QED BY ONLY <1>4, <2>1, ULessOrder
<1>6. update_min_vruntime(s, c) = [s EXCEPT !.cfs = [s.cfs EXCEPT ![c] = x]]
  BY ZenonT(30) DEF update_min_vruntime, Images
<1> HIDE DEF m, v
<1>7. x \in CfsType /\ x.min_vruntime = m /\ x.h_nr_running = s.cfs[c].h_nr_running
  BY <1>1, <1>5 DEF Images, CfsType
<1> HIDE DEF x
<1> QED BY <1>5, <1>6, <1>7, SetCfs

\* What update_curr writes into the running entity, before min_vruntime moves.
Charged(s, c) ==
    LET curr  == s.cfs[c].curr
        delta == Now - s.se[curr].exec_start
        s1    == [s EXCEPT !.se[curr].exec_start = Now,
                           !.se[curr].sum_exec_runtime = @ + delta]
    IN  update_vruntime(s1, curr, s.se[curr].vruntime +
                                  (delta * NICE_0_LOAD) \div Weight[curr])

LEMMA ChargeCurr ==
    ASSUME jiffies \in Nat, NEW s \in Images, NEW c \in CPUs, s.cfs[c].curr # NULL
    PROVE  Advances(s, Charged(s, c))
<1> DEFINE curr  == s.cfs[c].curr
           delta == Now - s.se[curr].exec_start
           s1    == [s EXCEPT !.se[curr].exec_start = Now,
                              !.se[curr].sum_exec_runtime = @ + delta]
           v     == s.se[curr].vruntime + (delta * NICE_0_LOAD) \div Weight[curr]
           s2    == update_vruntime(s1, curr, v)
<1>1. curr \in Tasks /\ curr \in Entities BY DEF Images, CfsType, Entities
<1>2. s.se[curr] \in SeType BY <1>1 DEF Images, SeImages
<1>3. Now \in Int BY DEF Now, jiffies_to_msecs
<1>4. delta \in Int /\ s.se[curr].vruntime \in Int BY <1>2, <1>3 DEF SeType, ULong
<1>5. v \in ULong
  <2>1. Weight[curr] \in Nat \ {0} BY <1>1, WeightAssumption
  <2> HIDE DEF delta, curr
  <2>2. delta * NICE_0_LOAD \in Int BY <1>4 DEF NICE_0_LOAD
  <2>3. (delta * NICE_0_LOAD) \div Weight[curr] \in Int BY <2>1, <2>2
  <2> QED BY <2>3, <1>4 DEF ULong
<1>6. Advances(s, s1)
  <2> DEFINE x == [s.se[curr] EXCEPT !.exec_start = Now, !.sum_exec_runtime = @ + delta]
  <2>1. s1 = [s EXCEPT !.se = [s.se EXCEPT ![curr] = x]] BY <1>1 DEF Images, SeImages
  <2>2. x \in SeType
    <3>1. s.se[curr].sum_exec_runtime + delta \in Int
      <4> HIDE DEF delta, curr
      <4> QED BY <1>2, <1>4 DEF SeType, ULong
    <3> HIDE DEF delta, curr
    <3> QED BY <1>2, <1>3, <3>1 DEF SeType, ULong
  <2>3. Advances(s, [s EXCEPT !.se = [s.se EXCEPT ![curr] = x]])
    <3> HIDE DEF x, curr
    <3> QED BY <1>1, <2>2, SetSe
  <2> QED BY <2>1, <2>3
<1> HIDE DEF s1, v
<1>7. Advances(s1, s2) BY <1>1, <1>5, <1>6, UpdateVruntime DEF Advances
<1>8. Advances(s, s2) BY <1>6, <1>7, AdvancesTrans
<1> QED BY <1>8 DEF Charged, s1, v

LEMMA UpdateCurr ==
    ASSUME TimelineContract, jiffies \in Nat, NEW s \in Images, NEW c \in CPUs
    PROVE  Advances(s, update_curr(s, c))
<1>1. \/ update_curr(s, c) = s
      \/ /\ s.cfs[c].curr # NULL
         /\ update_curr(s, c) = update_min_vruntime(Charged(s, c), c)
  <2> DEFINE delta == Now - s.se[s.cfs[c].curr].exec_start
  <2>1. CASE Stopped(s) \/ s.cfs[c].curr = NULL \/ delta = 0 BY <2>1 DEF update_curr
  <2>2. CASE ~(Stopped(s) \/ s.cfs[c].curr = NULL \/ delta = 0)
    BY <2>2 DEF update_curr, Charged
  <2> QED BY <2>1, <2>2
<1>2. ASSUME s.cfs[c].curr # NULL
      PROVE  Advances(s, update_min_vruntime(Charged(s, c), c))
  <2>1. Advances(s, Charged(s, c)) BY <1>2, ChargeCurr
  <2>2. Advances(Charged(s, c), update_min_vruntime(Charged(s, c), c))
    BY <2>1, UpdateMinVruntime DEF Advances
  <2> QED BY <2>1, <2>2, AdvancesTrans
<1> QED BY <1>1, <1>2, AdvancesRefl

LEMMA AttachLoad ==
    ASSUME NEW s \in Images, NEW c \in CPUs, NEW t \in Tasks
    PROVE  Advances(s, attach_entity_load_avg(s, c, t))
<1> DEFINE x  == [s.cfs[c] EXCEPT !.attached[t] = @ + 1]
           y  == [s.se[t] EXCEPT !.last_update = IF jiffies > 0 THEN 1 ELSE 0]
           s1 == [s EXCEPT !.cfs = [s.cfs EXCEPT ![c] = x]]
           s2 == [s1 EXCEPT !.se = [s1.se EXCEPT ![t] = y]]
<1>1. t \in Entities BY DEF Entities
<1>2. x \in CfsType
  <2>1. s.cfs[c] \in CfsType BY DEF Images
  <2> QED BY <2>1 DEF CfsType
<1>3. x.min_vruntime = s.cfs[c].min_vruntime /\ x.h_nr_running = s.cfs[c].h_nr_running
  BY DEF Images, CfsType
<1>4. y \in SeType
  <2>1. s.se[t] \in SeType BY <1>1 DEF Images, SeImages
  <2> QED BY <2>1 DEF SeType, Bit
<1>5. attach_entity_load_avg(s, c, t) = s2
  BY <1>1 DEF attach_entity_load_avg, Images, SeImages
<1> HIDE DEF x, y
<1>6. Advances(s, s1)
  <2>1. ~ULess(x.min_vruntime, s.cfs[c].min_vruntime) BY <1>3, Counters, ULessOrder
  <2> QED BY <1>2, <1>3, <2>1, SetCfs
<1> HIDE DEF s1
<1>7. Advances(s1, s2) BY <1>1, <1>4, <1>6, SetSe DEF Advances
<1> HIDE DEF s2
<1> QED BY <1>5, <1>6, <1>7, AdvancesTrans

LEMMA UpdateLoad ==
    ASSUME NEW s \in Images, NEW c \in CPUs, NEW t \in Tasks
    PROVE  Advances(s, update_load_avg(s, c, t))
BY AttachLoad, AdvancesRefl DEF update_load_avg

\* A fair queue and the run queue of its CPU are written together.
LEMMA SetCfsRq ==
    ASSUME NEW s \in Images, NEW c \in CPUs, NEW x \in CfsType, NEW y \in RqType,
           x.min_vruntime = s.cfs[c].min_vruntime,
           x.h_nr_running = s.cfs[c].h_nr_running,
           y.nr_running = s.rq[c].nr_running
    PROVE  Advances(s, [s EXCEPT !.cfs = [s.cfs EXCEPT ![c] = x],
                                 !.rq = [s.rq EXCEPT ![c] = y]])
<1> DEFINE f == [s.cfs EXCEPT ![c] = x]
           g == [s.rq EXCEPT ![c] = y]
           r == [s EXCEPT !.cfs = f, !.rq = g]
<1>1. f \in [CPUs -> CfsType] /\ g \in [CPUs -> RqType] BY DEF Images
<1>2. \A d \in CPUs : /\ f[d] = IF d = c THEN x ELSE s.cfs[d]
                     /\ g[d] = IF d = c THEN y ELSE s.rq[d]
  BY DEF Images
<1> HIDE DEF f, g
<1>3. r \in Images BY <1>1 DEF Images
<1>4. r.cfs = f /\ r.rq = g BY DEF Images
<1> HIDE DEF r
<1>5. Advances(s, r) BY <1>2, <1>3, <1>4, SameCounters
<1> QED BY <1>5 DEF r, f, g

LEMMA AccountEnqueue ==
    ASSUME NEW s \in Images, NEW c \in CPUs, NEW t \in Tasks
    PROVE  Advances(s, account_entity_enqueue(s, c, t))
<1> DEFINE x == [s.cfs[c] EXCEPT !.weight = @ + Weight[t],
                                 !.runnable_weight = @ + Weight[t],
                                 !.nr_running = @ + 1]
           y == [s.rq[c] EXCEPT !.cfs_tasks = Cons(t, @)]
<1>1. s.cfs[c] \in CfsType /\ s.rq[c] \in RqType BY DEF Images
<1>2. Weight[t] \in Int BY WeightAssumption DEF Entities
<1>3. x \in CfsType
  <2>1. /\ s.cfs[c].weight + Weight[t] \in ULong
        /\ s.cfs[c].runnable_weight + Weight[t] \in ULong
        /\ s.cfs[c].nr_running + 1 \in ULong
    BY <1>1, <1>2 DEF CfsType, ULong
  <2> QED BY <1>1, <2>1 DEF CfsType
<1>4. y \in RqType
  <2>1. Cons(t, s.rq[c].cfs_tasks) \in Seq(Tasks) BY <1>1, ConsType DEF RqType
  <2> QED BY <1>1, <2>1 DEF RqType
<1>5. account_entity_enqueue(s, c, t)
        = [s EXCEPT !.cfs = [s.cfs EXCEPT ![c] = x], !.rq = [s.rq EXCEPT ![c] = y]]
  BY ZenonT(30) DEF account_entity_enqueue, Images
<1>6. /\ x.min_vruntime = s.cfs[c].min_vruntime
      /\ x.h_nr_running = s.cfs[c].h_nr_running /\ y.nr_running = s.rq[c].nr_running
  BY <1>1 DEF CfsType, RqType
<1> HIDE DEF x, y
<1>7. Advances(s, [s EXCEPT !.cfs = [s.cfs EXCEPT ![c] = x],
                            !.rq = [s.rq EXCEPT ![c] = y]])
  BY <1>3, <1>4, <1>6, SetCfsRq
<1> QED BY <1>5, <1>7

LEMMA AccountDequeue ==
    ASSUME NEW s \in Images, NEW c \in CPUs, NEW t \in Tasks
    PROVE  Advances(s, account_entity_dequeue(s, c, t))
<1> DEFINE x == [s.cfs[c] EXCEPT !.weight = @ - Weight[t],
                                 !.runnable_weight = @ - Weight[t],
                                 !.nr_running = @ - 1]
           y == [s.rq[c] EXCEPT !.cfs_tasks = RemoveFirst(@, t)]
<1>1. s.cfs[c] \in CfsType /\ s.rq[c] \in RqType BY DEF Images
<1>2. Weight[t] \in Int BY WeightAssumption DEF Entities
<1>3. x \in CfsType
  <2>1. /\ s.cfs[c].weight - Weight[t] \in ULong
        /\ s.cfs[c].runnable_weight - Weight[t] \in ULong
        /\ s.cfs[c].nr_running - 1 \in ULong
    BY <1>1, <1>2 DEF CfsType, ULong
  <2> QED BY <1>1, <2>1 DEF CfsType
<1>4. y \in RqType
  <2>1. RemoveFirst(s.rq[c].cfs_tasks, t) \in Seq(Tasks)
    BY <1>1, RemoveFirstType DEF RqType
  <2> QED BY <1>1, <2>1 DEF RqType
<1>5. account_entity_dequeue(s, c, t)
        = [s EXCEPT !.cfs = [s.cfs EXCEPT ![c] = x], !.rq = [s.rq EXCEPT ![c] = y]]
  BY ZenonT(30) DEF account_entity_dequeue, Images
<1>6. /\ x.min_vruntime = s.cfs[c].min_vruntime
      /\ x.h_nr_running = s.cfs[c].h_nr_running /\ y.nr_running = s.rq[c].nr_running
  BY <1>1 DEF CfsType, RqType
<1> HIDE DEF x, y
<1>7. Advances(s, [s EXCEPT !.cfs = [s.cfs EXCEPT ![c] = x],
                            !.rq = [s.rq EXCEPT ![c] = y]])
  BY <1>3, <1>4, <1>6, SetCfsRq
<1> QED BY <1>5, <1>7

LEMMA MoveToFront ==
    ASSUME NEW s \in Images, NEW c \in CPUs, NEW t \in Tasks
    PROVE  Advances(s, move_to_front_cfs_tasks(s, c, t))
<1> DEFINE y == [s.rq[c] EXCEPT !.cfs_tasks = Cons(t, RemoveFirst(@, t))]
<1>1. s.rq[c] \in RqType BY DEF Images
<1>2. Cons(t, RemoveFirst(s.rq[c].cfs_tasks, t)) \in Seq(Tasks)
  BY <1>1, RemoveFirstType, ConsType DEF RqType
<1>3. y \in RqType /\ y.nr_running = s.rq[c].nr_running BY <1>1, <1>2 DEF RqType
<1>4. move_to_front_cfs_tasks(s, c, t) = [s EXCEPT !.rq = [s.rq EXCEPT ![c] = y]]
  BY DEF move_to_front_cfs_tasks, Images
<1> HIDE DEF y
<1> QED BY <1>3, <1>4, SetRq

\* A fair queue is written, but none of its counters.
LEMMA SetCfsSame ==
    ASSUME NEW s \in Images, NEW c \in CPUs, NEW x \in CfsType,
           x.min_vruntime = s.cfs[c].min_vruntime,
           x.h_nr_running = s.cfs[c].h_nr_running
    PROVE  Advances(s, [s EXCEPT !.cfs = [s.cfs EXCEPT ![c] = x]])
<1>1. ~ULess(x.min_vruntime, s.cfs[c].min_vruntime) BY Counters, ULessOrder
<1> QED BY <1>1, SetCfs

\* One field of the fair queue of c is written.
LEMMA SetCurr ==
    ASSUME NEW s \in Images, NEW c \in CPUs, NEW t \in Tasks \cup {NULL}
    PROVE  Advances(s, [s EXCEPT !.cfs[c].curr = t])
<1> DEFINE x == [s.cfs[c] EXCEPT !.curr = t]
<1>1. s.cfs[c] \in CfsType BY DEF Images
<1>2. /\ x \in CfsType /\ x.min_vruntime = s.cfs[c].min_vruntime
      /\ x.h_nr_running = s.cfs[c].h_nr_running
  BY <1>1 DEF CfsType
<1>3. [s EXCEPT !.cfs[c].curr = t] = [s EXCEPT !.cfs = [s.cfs EXCEPT ![c] = x]]
  BY DEF Images
<1> HIDE DEF x
<1>4. Advances(s, [s EXCEPT !.cfs = [s.cfs EXCEPT ![c] = x]]) BY <1>2, SetCfsSame
<1> QED BY <1>3, <1>4

LEMMA SetNext ==
    ASSUME NEW s \in Images, NEW c \in CPUs, NEW t \in Tasks \cup {NULL}
    PROVE  Advances(s, [s EXCEPT !.cfs[c].next = t])
<1> DEFINE x == [s.cfs[c] EXCEPT !.next = t]
<1>1. s.cfs[c] \in CfsType BY DEF Images
<1>2. /\ x \in CfsType /\ x.min_vruntime = s.cfs[c].min_vruntime
      /\ x.h_nr_running = s.cfs[c].h_nr_running
  BY <1>1 DEF CfsType
<1>3. [s EXCEPT !.cfs[c].next = t] = [s EXCEPT !.cfs = [s.cfs EXCEPT ![c] = x]]
  BY DEF Images
<1> HIDE DEF x
<1>4. Advances(s, [s EXCEPT !.cfs = [s.cfs EXCEPT ![c] = x]]) BY <1>2, SetCfsSame
<1> QED BY <1>3, <1>4

LEMMA SetWeight ==
    ASSUME NEW s \in Images, NEW c \in CPUs, NEW w \in ULong
    PROVE  Advances(s, [s EXCEPT !.cfs[c].weight = w])
<1> DEFINE x == [s.cfs[c] EXCEPT !.weight = w]
<1>1. s.cfs[c] \in CfsType BY DEF Images
<1>2. /\ x \in CfsType /\ x.min_vruntime = s.cfs[c].min_vruntime
      /\ x.h_nr_running = s.cfs[c].h_nr_running
  BY <1>1 DEF CfsType
<1>3. [s EXCEPT !.cfs[c].weight = w] = [s EXCEPT !.cfs = [s.cfs EXCEPT ![c] = x]]
  BY DEF Images
<1> HIDE DEF x
<1>4. Advances(s, [s EXCEPT !.cfs = [s.cfs EXCEPT ![c] = x]]) BY <1>2, SetCfsSame
<1> QED BY <1>3, <1>4

LEMMA ClearBuddies ==
    ASSUME NEW s \in Images, NEW c \in CPUs, NEW e
    PROVE  Advances(s, clear_buddies(s, c, e))
BY SetNext, AdvancesRefl DEF clear_buddies

\* One field of the entity of t, or of the task, is written.
LEMMA SetOnRq ==
    ASSUME NEW s \in Images, NEW t \in Tasks, NEW b \in Bit
    PROVE  Advances(s, [s EXCEPT !.se[t].on_rq = b])
<1> DEFINE x == [s.se[t] EXCEPT !.on_rq = b]
<1>1. t \in Entities BY DEF Entities
<1>2. s.se[t] \in SeType BY <1>1 DEF Images, SeImages
<1>3. x \in SeType BY <1>2 DEF SeType
<1>4. [s EXCEPT !.se[t].on_rq = b] = [s EXCEPT !.se = [s.se EXCEPT ![t] = x]]
  BY <1>1 DEF Images, SeImages
<1> HIDE DEF x
<1>5. Advances(s, [s EXCEPT !.se = [s.se EXCEPT ![t] = x]]) BY <1>1, <1>3, SetSe
<1> QED BY <1>4, <1>5

LEMMA SetTaskOnRq ==
    ASSUME NEW s \in Images, NEW t \in Tasks, NEW n \in 0 .. 2
    PROVE  Advances(s, [s EXCEPT !.se[t].task_on_rq = n])
<1> DEFINE x == [s.se[t] EXCEPT !.task_on_rq = n]
<1>1. t \in Entities BY DEF Entities
<1>2. s.se[t] \in SeType BY <1>1 DEF Images, SeImages
<1>3. x \in SeType BY <1>2 DEF SeType
<1>4. [s EXCEPT !.se[t].task_on_rq = n] = [s EXCEPT !.se = [s.se EXCEPT ![t] = x]]
  BY <1>1 DEF Images, SeImages
<1> HIDE DEF x
<1>5. Advances(s, [s EXCEPT !.se = [s.se EXCEPT ![t] = x]]) BY <1>1, <1>3, SetSe
<1> QED BY <1>4, <1>5

LEMMA SetVruntime ==
    ASSUME NEW s \in Images, NEW t \in Tasks, NEW v \in ULong
    PROVE  Advances(s, [s EXCEPT !.se[t].vruntime = v])
<1> DEFINE x == [s.se[t] EXCEPT !.vruntime = v]
<1>1. t \in Entities BY DEF Entities
<1>2. s.se[t] \in SeType BY <1>1 DEF Images, SeImages
<1>3. x \in SeType BY <1>2 DEF SeType
<1>4. [s EXCEPT !.se[t].vruntime = v] = [s EXCEPT !.se = [s.se EXCEPT ![t] = x]]
  BY <1>1 DEF Images, SeImages
<1> HIDE DEF x
<1>5. Advances(s, [s EXCEPT !.se = [s.se EXCEPT ![t] = x]]) BY <1>1, <1>3, SetSe
<1> QED BY <1>4, <1>5

LEMMA SetCpu ==
    ASSUME NEW s \in Images, NEW t \in Tasks, NEW u \in UninitCpu \cup CPUs
    PROVE  Advances(s, [s EXCEPT !.se[t].cpu = u])
<1> DEFINE x == [s.se[t] EXCEPT !.cpu = u]
<1>1. t \in Entities BY DEF Entities
<1>2. s.se[t] \in SeType BY <1>1 DEF Images, SeImages
<1>3. x \in SeType BY <1>2 DEF SeType
<1>4. [s EXCEPT !.se[t].cpu = u] = [s EXCEPT !.se = [s.se EXCEPT ![t] = x]]
  BY <1>1 DEF Images, SeImages
<1> HIDE DEF x
<1>5. Advances(s, [s EXCEPT !.se = [s.se EXCEPT ![t] = x]]) BY <1>1, <1>3, SetSe
<1> QED BY <1>4, <1>5

LEMMA EnqueueInTree ==
    ASSUME TimelineContract, NEW s \in Images, NEW c \in CPUs, NEW t \in Tasks
    PROVE  Advances(s, __enqueue_entity(s, c, t))
<1> DEFINE key == [x \in Entities |-> IF x = t THEN s.se[x].vruntime
                                     ELSE s.se[x].node_vruntime]
<1>1. key \in [Entities -> ULong] BY DEF Images, SeImages, SeType
<1>2. s.tl \in Timelines BY DEF Images
<1> HIDE DEF key
<1>3. TLInsert(s.tl, c, t, key) \in Timelines BY <1>1, <1>2 DEF TimelineContract
<1>4. Advances(s, TreeOp(s, TLInsert(s.tl, c, t, key))) BY <1>3, SetTree
<1> QED BY <1>4, AdvancesRefl DEF __enqueue_entity, key

LEMMA DequeueFromTree ==
    ASSUME TimelineContract, NEW s \in Images, NEW c \in CPUs, NEW t \in Tasks
    PROVE  Advances(s, __dequeue_entity(s, c, t))
<1>1. TLErase(s.tl, c, t) \in Timelines BY DEF TimelineContract, Images
<1> QED BY <1>1, SetTree, AdvancesRefl DEF __dequeue_entity

LEMMA PrintTree ==
    ASSUME TimelineContract, NEW s \in Images, NEW c \in CPUs
    PROVE  Advances(s, debug_tasktimeline(s, c))
<1>1. TLWalk(s.tl, c) \in Timelines BY DEF TimelineContract, Images
<1> QED BY <1>1, SetTree, AdvancesRefl DEF debug_tasktimeline

LEMMA EnqueueEntity ==
    ASSUME TimelineContract, jiffies \in Nat,
           NEW s \in Images, NEW c \in CPUs, NEW t \in Tasks
    PROVE  Advances(s, enqueue_entity(s, c, t))
<1> DEFINE if_curr == s.cfs[c].curr = t
           renorm(x) == update_vruntime(x, t, x.se[t].vruntime + x.cfs[c].min_vruntime)
           s0 == IF if_curr THEN renorm(s) ELSE s
           s1 == update_curr(s0, c)
           r1 == IF if_curr THEN s1 ELSE renorm(s1)
           s2 == update_load_avg(r1, c, t)
           s3 == account_entity_enqueue(s2, c, t)
           s4 == IF if_curr THEN s3 ELSE __enqueue_entity(s3, c, t)
           s5 == [s4 EXCEPT !.se[t].on_rq = 1]
<1>1. \A x \in Images : Advances(x, renorm(x))
  <2> TAKE x \in Images
  <2>1. x.se[t].vruntime + x.cfs[c].min_vruntime \in ULong
    BY DEF Images, SeImages, SeType, CfsType, ULong, Entities
  <2> QED BY <2>1, UpdateVruntime
<1>2. Advances(s, s0) /\ s0 \in Images BY <1>1, AdvancesRefl DEF Advances
<1> HIDE DEF s0
<1>3. Advances(s0, s1) /\ s1 \in Images BY <1>2, UpdateCurr DEF Advances
<1> HIDE DEF s1
<1>4. Advances(s1, r1) /\ r1 \in Images BY <1>1, <1>3, AdvancesRefl DEF Advances
<1> HIDE DEF r1
<1>5. Advances(r1, s2) /\ s2 \in Images BY <1>4, UpdateLoad DEF Advances
<1> HIDE DEF s2
<1>6. Advances(s2, s3) /\ s3 \in Images BY <1>5, AccountEnqueue DEF Advances
<1> HIDE DEF s3
<1>7. Advances(s3, s4) /\ s4 \in Images
  BY <1>6, EnqueueInTree, AdvancesRefl DEF Advances
<1> HIDE DEF s4
<1>8. Advances(s4, s5) /\ s5 \in Images BY <1>7, SetOnRq DEF Advances, Bit
<1>9. enqueue_entity(s, c, t) = debug_tasktimeline(s5, c)
  BY DEF enqueue_entity, s0, s1, r1, s2, s3, s4
<1> HIDE DEF s5
<1>10. Advances(s5, debug_tasktimeline(s5, c)) BY <1>8, PrintTree
<1>11. Advances(s, s2)
  BY <1>2, <1>3, <1>4, <1>5, AdvancesTrans
<1>12. Advances(s2, s5) BY <1>5, <1>6, <1>7, <1>8, AdvancesTrans
<1> QED BY <1>5, <1>8, <1>9, <1>10, <1>11, <1>12, AdvancesTrans

LEMMA DequeueEntity ==
    ASSUME TimelineContract, jiffies \in Nat,
           NEW s \in Images, NEW c \in CPUs, NEW t \in Tasks
    PROVE  Advances(s, dequeue_entity(s, c, t))
<1> DEFINE s0 == update_curr(s, c)
           s1 == clear_buddies(s0, c, t)
           s2 == IF t # s1.cfs[c].curr THEN __dequeue_entity(s1, c, t) ELSE s1
           r2 == [s2 EXCEPT !.se[t].on_rq = 0]
           s3 == account_entity_dequeue(r2, c, t)
           v  == s3.se[t].vruntime - s3.cfs[c].min_vruntime
           s4 == [s3 EXCEPT !.se[t].vruntime = v]
<1>1. Advances(s, s0) /\ s0 \in Images BY UpdateCurr DEF Advances
<1> HIDE DEF s0
<1>2. Advances(s0, s1) /\ s1 \in Images BY <1>1, ClearBuddies DEF Advances
<1> HIDE DEF s1
<1>3. Advances(s1, s2) /\ s2 \in Images
  BY <1>2, DequeueFromTree, AdvancesRefl DEF Advances
<1> HIDE DEF s2
<1>4. Advances(s2, r2) /\ r2 \in Images BY <1>3, SetOnRq DEF Advances, Bit
<1> HIDE DEF r2
<1>5. Advances(r2, s3) /\ s3 \in Images BY <1>4, AccountDequeue DEF Advances
<1> HIDE DEF s3
<1>6. v \in ULong
  BY <1>5 DEF Images, SeImages, SeType, CfsType, ULong, Entities
<1> HIDE DEF v
<1>7. Advances(s3, s4) /\ s4 \in Images BY <1>5, <1>6, SetVruntime DEF Advances
<1>8. dequeue_entity(s, c, t) = debug_tasktimeline(s4, c)
  BY DEF dequeue_entity, s0, s1, s2, r2, s3, v
<1> HIDE DEF s4
<1>9. Advances(s4, debug_tasktimeline(s4, c)) BY <1>7, PrintTree
<1>10. Advances(s, s2) BY <1>1, <1>2, <1>3, AdvancesTrans
<1>11. Advances(s2, s4) BY <1>3, <1>4, <1>5, <1>7, AdvancesTrans
<1> QED BY <1>3, <1>7, <1>8, <1>9, <1>10, <1>11, AdvancesTrans

LEMMA PutPrevEntity ==
    ASSUME TimelineContract, jiffies \in Nat,
           NEW s \in Images, NEW c \in CPUs, NEW prev \in Entities
    PROVE  Advances(s, put_prev_entity(s, c, prev))
<1> DEFINE s0 == update_curr(s, c)
           s1 == IF s.se[prev].on_rq = 1 THEN __enqueue_entity(s0, c, prev) ELSE s
           s2 == [s1 EXCEPT !.cfs[c].curr = NULL]
<1>1. s.se[prev].on_rq = 1 => prev \in Tasks
  BY DEF Images, SeImages, Entities
<1>2. Advances(s, s0) /\ s0 \in Images BY UpdateCurr DEF Advances
<1>3. prev \in Tasks => Advances(s, __enqueue_entity(s0, c, prev))
  <2> HIDE DEF s0
  <2> QED BY <1>2, EnqueueInTree, AdvancesTrans
<1>4. Advances(s, s1) /\ s1 \in Images BY <1>1, <1>3, AdvancesRefl DEF Advances
<1> HIDE DEF s1
<1>5. Advances(s1, s2) /\ s2 \in Images BY <1>4, SetCurr DEF Advances
<1>6. put_prev_entity(s, c, prev) = debug_tasktimeline(s2, c)
  BY DEF put_prev_entity, s1
<1> HIDE DEF s2
<1>7. Advances(s2, debug_tasktimeline(s2, c)) BY <1>5, PrintTree
<1> QED BY <1>4, <1>5, <1>6, <1>7, AdvancesTrans

\* The pick is a task of the queue, or nobody.
LEMMA PickNextEntity ==
    ASSUME TimelineContract, NEW s \in Images, NEW c \in CPUs
    PROVE  pick_next_entity(s, c) \in Tasks \cup {NULL}
<1>1. TLFirst(s.tl, c) \in Tasks \cup {NULL} BY DEF TimelineContract, Images
<1>2. s.cfs[c].next \in Tasks \cup {NULL} BY DEF Images, CfsType
<1> QED BY <1>1, <1>2 DEF pick_next_entity

\* After set_next_entity the current entity is the one that was picked.
LEMMA SetNextEntity ==
    ASSUME TimelineContract, jiffies \in Nat,
           NEW s \in Images, NEW c \in CPUs, NEW t \in Tasks
    PROVE  /\ Advances(s, set_next_entity(s, c, t))
           /\ set_next_entity(s, c, t).cfs[c].curr = t
<1> DEFINE s1 == IF s.se[t].on_rq = 1 THEN __dequeue_entity(s, c, t) ELSE s
           x  == [s1.se[t] EXCEPT !.exec_start = ExecStamp,
                                  !.prev_sum_exec_runtime = s1.se[t].sum_exec_runtime]
           r1 == [s1 EXCEPT !.se = [s1.se EXCEPT ![t] = x]]
           s2 == [r1 EXCEPT !.cfs[c].curr = t]
<1>1. Advances(s, s1) /\ s1 \in Images
  BY DequeueFromTree, AdvancesRefl DEF Advances
<1> HIDE DEF s1
<1>2. t \in Entities BY DEF Entities
<1>3. ExecStamp \in ULong BY DEF ExecStamp, jiffies_to_msecs, ULong
<1>4. s1.se[t] \in SeType BY <1>1, <1>2 DEF Images, SeImages
<1>5. x \in SeType BY <1>3, <1>4 DEF SeType
<1>6. set_next_entity(s, c, t) = debug_tasktimeline(s2, c)
  <2>1. [s1 EXCEPT !.se[t].exec_start = ExecStamp,
                   !.se[t].prev_sum_exec_runtime = s1.se[t].sum_exec_runtime,
                   !.cfs[c].curr = t] = s2
    BY <1>1, <1>2 DEF Images, SeImages
  <2> QED BY <2>1 DEF set_next_entity, s1
<1> HIDE DEF x
<1>7. Advances(s1, r1) /\ r1 \in Images BY <1>1, <1>2, <1>5, SetSe DEF Advances
<1> HIDE DEF r1
<1>8. Advances(r1, s2) /\ s2 \in Images BY <1>7, SetCurr DEF Advances
<1>9. s2.cfs[c].curr = t BY <1>7 DEF Images, CfsType
<1> HIDE DEF s2
<1>10. Advances(s2, debug_tasktimeline(s2, c)) BY <1>8, PrintTree
<1>11. debug_tasktimeline(s2, c).cfs = s2.cfs
  BY <1>8 DEF debug_tasktimeline, TreeOp, Images
<1>12. Advances(s, s2) BY <1>1, <1>7, <1>8, AdvancesTrans
<1> QED BY <1>6, <1>9, <1>10, <1>11, <1>12, AdvancesTrans

LEMMA SchedSlice ==
    ASSUME NEW s \in Images, NEW c \in CPUs, NEW e \in Entities
    PROVE  Advances(s, sched_slice(s, c, e).image)
<1> DEFINE total == s.cfs[c].weight + (IF s.se[e].on_rq = 1 THEN 0 ELSE Weight[e])
<1>1. total \in ULong
  BY WeightAssumption DEF Images, CfsType, ULong
<1>2. sched_slice(s, c, e).image = [s EXCEPT !.cfs[c].weight = total]
  BY DEF sched_slice
<1> HIDE DEF total
<1> QED BY <1>1, <1>2, SetWeight

-----------------------------------------------------------------------------
(* class rq.                                                               *)

\* Both counts of the queue go up, or down, by one.
LEMMA ActivateTask ==
    ASSUME TimelineContract, jiffies \in Nat,
           NEW s \in Images, NEW c \in CPUs, NEW t \in Tasks
    PROVE  Advances(s, activate_task(s, c, t))
<1> DEFINE s1 == enqueue_entity(s, c, t)
           h  == s1.cfs[c].h_nr_running + 1
           n  == s1.rq[c].nr_running + 1
           x  == [s1.cfs[c] EXCEPT !.h_nr_running = h]
           y  == [s1.rq[c] EXCEPT !.nr_running = n]
           f  == [s1.cfs EXCEPT ![c] = x]
           g  == [s1.rq EXCEPT ![c] = y]
           s2 == [s1 EXCEPT !.cfs = f, !.rq = g]
<1>1. Advances(s, s1) /\ s1 \in Images BY EnqueueEntity DEF Advances
<1>2. activate_task(s, c, t) = s2 BY <1>1 DEF activate_task, Images
<1> HIDE DEF s1
<1>3. s1.cfs[c] \in CfsType /\ s1.rq[c] \in RqType BY <1>1 DEF Images
<1>4. /\ x \in CfsType /\ x.min_vruntime = s1.cfs[c].min_vruntime
      /\ x.h_nr_running = h /\ y \in RqType /\ y.nr_running = n
  <2>1. h \in ULong /\ n \in ULong BY <1>1, Counters DEF ULong
  <2> HIDE DEF h, n
  <2>2. x \in CfsType /\ x.min_vruntime = s1.cfs[c].min_vruntime /\ x.h_nr_running = h
    BY <1>3, <2>1 DEF CfsType
  <2>3. y \in RqType /\ y.nr_running = n BY <1>3, <2>1 DEF RqType
  <2> QED BY <2>2, <2>3
<1> HIDE DEF x, y
<1>5. f \in [CPUs -> CfsType] /\ g \in [CPUs -> RqType] BY <1>1, <1>4 DEF Images
<1>6. \A d \in CPUs : /\ f[d] = IF d = c THEN x ELSE s1.cfs[d]
                     /\ g[d] = IF d = c THEN y ELSE s1.rq[d]
  BY <1>1 DEF Images
<1> HIDE DEF f, g
<1>7. s2 \in Images /\ s2.cfs = f /\ s2.rq = g BY <1>1, <1>5 DEF Images
<1> HIDE DEF s2
<1>8. Advances(s1, s2)
  <2> SUFFICES ASSUME NEW d \in CPUs
               PROVE  /\ ~ULess(s2.cfs[d].min_vruntime, s1.cfs[d].min_vruntime)
                      /\ s2.cfs[d].h_nr_running - s1.cfs[d].h_nr_running
                           = s2.rq[d].nr_running - s1.rq[d].nr_running
    BY <1>7 DEF Advances
  <2>1. s1.cfs[d].h_nr_running \in Int /\ s1.rq[d].nr_running \in Int
    BY <1>1, Counters DEF ULong
  <2>2. ~ULess(s1.cfs[d].min_vruntime, s1.cfs[d].min_vruntime)
    BY <1>1, Counters, ULessOrder
  <2> QED BY <1>4, <1>6, <1>7, <2>1, <2>2
<1> QED BY <1>1, <1>2, <1>8, AdvancesTrans

LEMMA DeactivateTask ==
    ASSUME TimelineContract, jiffies \in Nat,
           NEW s \in Images, NEW c \in CPUs, NEW t \in Tasks
    PROVE  Advances(s, deactivate_task(s, c, t))
<1> DEFINE s1 == dequeue_entity(s, c, t)
           h  == s1.cfs[c].h_nr_running - 1
           n  == s1.rq[c].nr_running - 1
           x  == [s1.cfs[c] EXCEPT !.h_nr_running = h]
           y  == [s1.rq[c] EXCEPT !.nr_running = n]
           f  == [s1.cfs EXCEPT ![c] = x]
           g  == [s1.rq EXCEPT ![c] = y]
           s2 == [s1 EXCEPT !.cfs = f, !.rq = g]
<1>1. Advances(s, s1) /\ s1 \in Images BY DequeueEntity DEF Advances
<1>2. deactivate_task(s, c, t) = s2 BY <1>1 DEF deactivate_task, Images
<1> HIDE DEF s1
<1>3. s1.cfs[c] \in CfsType /\ s1.rq[c] \in RqType BY <1>1 DEF Images
<1>4. /\ x \in CfsType /\ x.min_vruntime = s1.cfs[c].min_vruntime
      /\ x.h_nr_running = h /\ y \in RqType /\ y.nr_running = n
  <2>1. h \in ULong /\ n \in ULong BY <1>1, Counters DEF ULong
  <2> HIDE DEF h, n
  <2>2. x \in CfsType /\ x.min_vruntime = s1.cfs[c].min_vruntime /\ x.h_nr_running = h
    BY <1>3, <2>1 DEF CfsType
  <2>3. y \in RqType /\ y.nr_running = n BY <1>3, <2>1 DEF RqType
  <2> QED BY <2>2, <2>3
<1> HIDE DEF x, y
<1>5. f \in [CPUs -> CfsType] /\ g \in [CPUs -> RqType] BY <1>1, <1>4 DEF Images
<1>6. \A d \in CPUs : /\ f[d] = IF d = c THEN x ELSE s1.cfs[d]
                     /\ g[d] = IF d = c THEN y ELSE s1.rq[d]
  BY <1>1 DEF Images
<1> HIDE DEF f, g
<1>7. s2 \in Images /\ s2.cfs = f /\ s2.rq = g BY <1>1, <1>5 DEF Images
<1> HIDE DEF s2
<1>8. Advances(s1, s2)
  <2> SUFFICES ASSUME NEW d \in CPUs
               PROVE  /\ ~ULess(s2.cfs[d].min_vruntime, s1.cfs[d].min_vruntime)
                      /\ s2.cfs[d].h_nr_running - s1.cfs[d].h_nr_running
                           = s2.rq[d].nr_running - s1.rq[d].nr_running
    BY <1>7 DEF Advances
  <2>1. s1.cfs[d].h_nr_running \in Int /\ s1.rq[d].nr_running \in Int
    BY <1>1, Counters DEF ULong
  <2>2. ~ULess(s1.cfs[d].min_vruntime, s1.cfs[d].min_vruntime)
    BY <1>1, Counters, ULessOrder
  <2> QED BY <1>4, <1>6, <1>7, <2>1, <2>2
<1> QED BY <1>1, <1>2, <1>8, AdvancesTrans

\* One field of the run queue of c is written.
LEMMA SetNeedResched ==
    ASSUME NEW s \in Images, NEW c \in CPUs, NEW b \in Bit
    PROVE  Advances(s, [s EXCEPT !.rq[c].NEED_RESCHED = b])
<1> DEFINE y == [s.rq[c] EXCEPT !.NEED_RESCHED = b]
<1>1. s.rq[c] \in RqType BY DEF Images
<1>2. y \in RqType /\ y.nr_running = s.rq[c].nr_running BY <1>1 DEF RqType
<1>3. [s EXCEPT !.rq[c].NEED_RESCHED = b] = [s EXCEPT !.rq = [s.rq EXCEPT ![c] = y]]
  BY DEF Images
<1> HIDE DEF y
<1>4. Advances(s, [s EXCEPT !.rq = [s.rq EXCEPT ![c] = y]]) BY <1>2, SetRq
<1> QED BY <1>3, <1>4

LEMMA SetIdleBalance ==
    ASSUME NEW s \in Images, NEW c \in CPUs, NEW b \in Bit
    PROVE  Advances(s, [s EXCEPT !.rq[c].idle_balance = b])
<1> DEFINE y == [s.rq[c] EXCEPT !.idle_balance = b]
<1>1. s.rq[c] \in RqType BY DEF Images
<1>2. y \in RqType /\ y.nr_running = s.rq[c].nr_running BY <1>1 DEF RqType
<1>3. [s EXCEPT !.rq[c].idle_balance = b] = [s EXCEPT !.rq = [s.rq EXCEPT ![c] = y]]
  BY DEF Images
<1> HIDE DEF y
<1>4. Advances(s, [s EXCEPT !.rq = [s.rq EXCEPT ![c] = y]]) BY <1>2, SetRq
<1> QED BY <1>3, <1>4

LEMMA SetPreemptCount ==
    ASSUME NEW s \in Images, NEW c \in CPUs, NEW n \in Nat
    PROVE  Advances(s, [s EXCEPT !.rq[c].preempt_count = n])
<1> DEFINE y == [s.rq[c] EXCEPT !.preempt_count = n]
<1>1. s.rq[c] \in RqType BY DEF Images
<1>2. y \in RqType /\ y.nr_running = s.rq[c].nr_running BY <1>1 DEF RqType
<1>3. [s EXCEPT !.rq[c].preempt_count = n] = [s EXCEPT !.rq = [s.rq EXCEPT ![c] = y]]
  BY DEF Images
<1> HIDE DEF y
<1>4. Advances(s, [s EXCEPT !.rq = [s.rq EXCEPT ![c] = y]]) BY <1>2, SetRq
<1> QED BY <1>3, <1>4

LEMMA SetRqCurr ==
    ASSUME NEW s \in Images, NEW c \in CPUs, NEW e \in Entities
    PROVE  Advances(s, [s EXCEPT !.rq[c].curr = e])
<1> DEFINE y == [s.rq[c] EXCEPT !.curr = e]
<1>1. s.rq[c] \in RqType BY DEF Images
<1>2. y \in RqType /\ y.nr_running = s.rq[c].nr_running BY <1>1 DEF RqType
<1>3. [s EXCEPT !.rq[c].curr = e] = [s EXCEPT !.rq = [s.rq EXCEPT ![c] = y]]
  BY DEF Images
<1> HIDE DEF y
<1>4. Advances(s, [s EXCEPT !.rq = [s.rq EXCEPT ![c] = y]]) BY <1>2, SetRq
<1> QED BY <1>3, <1>4

\* A mark is written, of a task or of an idle task.
LEMMA SetMark ==
    ASSUME NEW s \in Images, NEW e \in Entities, NEW b \in Bit
    PROVE  Advances(s, [s EXCEPT !.se[e].RESCHED = b])
<1> DEFINE x == [s.se[e] EXCEPT !.RESCHED = b]
<1>1. s.se[e] \in SeType BY DEF Images, SeImages
<1>2. x \in SeType /\ x.on_rq = s.se[e].on_rq BY <1>1 DEF SeType
<1>3. e \notin Tasks => s.se[e].on_rq = 0 BY DEF Images, SeImages, Entities
<1>4. [s EXCEPT !.se[e].RESCHED = b] = [s EXCEPT !.se = [s.se EXCEPT ![e] = x]]
  BY DEF Images, SeImages
<1> HIDE DEF x
<1>5. Advances(s, [s EXCEPT !.se = [s.se EXCEPT ![e] = x]]) BY <1>2, <1>3, SetSe
<1> QED BY <1>4, <1>5

LEMMA ReschedCurr ==
    ASSUME NEW s \in Images, NEW c \in CPUs
    PROVE  Advances(s, resched_curr(s, c))
<1> DEFINE e  == s.rq[c].curr
           s1 == [s EXCEPT !.se[e].RESCHED = 1]
           s2 == [s1 EXCEPT !.rq[c].NEED_RESCHED = 1]
<1>1. e \in Entities BY DEF Images, RqType
<1>2. Advances(s, s1) /\ s1 \in Images BY <1>1, SetMark DEF Advances, Bit
<1>3. resched_curr(s, c) = IF need_resched(s, c) THEN s ELSE s2
  BY DEF resched_curr, Images
<1> HIDE DEF s1
<1>4. Advances(s1, s2) BY <1>2, SetNeedResched DEF Bit
<1> QED BY <1>2, <1>3, <1>4, AdvancesRefl, AdvancesTrans

LEMMA PreemptDisable ==
    ASSUME NEW s \in Images, NEW c \in CPUs
    PROVE  Advances(s, preempt_disable(s, c))
<1>1. s.rq[c].preempt_count + 1 \in Nat BY DEF Images, RqType
<1>2. preempt_disable(s, c) = [s EXCEPT !.rq[c].preempt_count = s.rq[c].preempt_count + 1]
  BY DEF preempt_disable, Images
<1> QED BY <1>1, <1>2, SetPreemptCount

LEMMA PreemptCountDec ==
    ASSUME NEW s \in Images, NEW c \in CPUs
    PROVE  Advances(s, preempt_count_dec(s, c))
<1> DEFINE n == s.rq[c].preempt_count
<1>1. n \in Nat BY DEF Images, RqType
<1>2. preempt_count_dec(s, c)
        = IF 1 > n THEN s ELSE [s EXCEPT !.rq[c].preempt_count = n - 1]
  BY DEF preempt_count_dec, Images
<1>3. CASE 1 > n BY <1>2, <1>3, AdvancesRefl
<1>4. CASE ~(1 > n)
  <2>1. n - 1 \in Nat BY <1>1, <1>4
  <2> HIDE DEF n
  <2>2. Advances(s, [s EXCEPT !.rq[c].preempt_count = n - 1]) BY <2>1, SetPreemptCount
  <2> QED BY <1>2, <1>4, <2>2
<1> QED BY <1>3, <1>4

LEMMA CheckPreemptWakeup ==
    ASSUME TimelineContract, jiffies \in Nat,
           NEW s \in Images, NEW c \in CPUs, NEW t \in Tasks
    PROVE  Advances(s, check_preempt_wakeup(s, c, t))
<1> DEFINE s1 == update_curr(s, c)
           s2 == [s1 EXCEPT !.cfs[c].next = t]
<1>1. Advances(s, s1) /\ s1 \in Images BY UpdateCurr DEF Advances
<1>2. Advances(s1, s2) /\ s2 \in Images
  <2> HIDE DEF s1
  <2> QED BY <1>1, SetNext DEF Advances
<1>3. Advances(s, resched_curr(s, c)) BY ReschedCurr
<1>4. Advances(s, resched_curr(s2, c))
  <2> HIDE DEF s1, s2
  <2> QED BY <1>1, <1>2, ReschedCurr, AdvancesTrans
<1>5. check_preempt_wakeup(s, c, t) \in {s, s1, resched_curr(s, c), resched_curr(s2, c)}
  BY DEF check_preempt_wakeup
<1> HIDE DEF s1, s2
<1> QED BY <1>1, <1>3, <1>4, <1>5, AdvancesRefl

LEMMA CheckPreemptTick ==
    ASSUME NEW s \in Images, NEW c \in CPUs, NEW e \in Entities
    PROVE  Advances(s, check_preempt_tick(s, c, e))
<1> DEFINE s1 == sched_slice(s, c, e).image
           s2 == resched_curr(s1, c)
<1>1. Advances(s, s1) /\ s1 \in Images BY SchedSlice DEF Advances
<1>2. check_preempt_tick(s, c, e) \in {clear_buddies(s2, c, e), s1, Crash(s1), s2}
  BY DEF check_preempt_tick
<1> HIDE DEF s1
<1>3. Advances(s1, s2) /\ s2 \in Images BY <1>1, ReschedCurr DEF Advances
<1> HIDE DEF s2
<1>4. Advances(s2, clear_buddies(s2, c, e)) BY <1>3, ClearBuddies
<1>5. Advances(s1, Crash(s1)) BY <1>1, CrashAdvances
<1>6. Advances(s, s2) BY <1>1, <1>3, AdvancesTrans
<1>7. Advances(s, clear_buddies(s2, c, e)) BY <1>4, <1>6, AdvancesTrans
<1>8. Advances(s, Crash(s1)) BY <1>1, <1>5, AdvancesTrans
<1> QED BY <1>1, <1>2, <1>6, <1>7, <1>8

LEMMA TaskTickFair ==
    ASSUME TimelineContract, jiffies \in Nat,
           NEW s \in Images, NEW c \in CPUs, NEW e \in Entities
    PROVE  Advances(s, task_tick_fair(s, c, e))
<1> DEFINE s1 == update_curr(s, c)
<1>1. Advances(s, s1) /\ s1 \in Images BY UpdateCurr DEF Advances
<1>2. task_tick_fair(s, c, e) \in {check_preempt_tick(s1, c, e), s1}
  BY DEF task_tick_fair
<1> HIDE DEF s1
<1>3. Advances(s1, check_preempt_tick(s1, c, e)) BY <1>1, CheckPreemptTick
<1>4. Advances(s, check_preempt_tick(s1, c, e)) BY <1>1, <1>3, AdvancesTrans
<1> QED BY <1>1, <1>2, <1>4

\* put_prev_task, the pick, set_next_entity: the next task is then current.
LEMMA PickNextTask ==
    ASSUME TimelineContract, jiffies \in Nat,
           NEW s \in Images, NEW c \in CPUs, NEW prev \in Entities
    PROVE  LET r == pick_next_task_fair(s, c, prev)
           IN  Advances(s, r) /\ (~Stopped(r) => r.cfs[c].curr \in Tasks)
<1> DEFINE s1 == put_prev_entity(s, c, prev)
           e  == pick_next_entity(s1, c)
           r1 == clear_buddies(s1, c, e)
           s2 == set_next_entity(r1, c, e)
           s3 == move_to_front_cfs_tasks(s2, c, e)
           r  == pick_next_task_fair(s, c, prev)
<1>1. Advances(s, s1) /\ s1 \in Images BY PutPrevEntity DEF Advances
<1>2. r = IF Stopped(s1) THEN s1 ELSE IF e = NULL THEN Crash(s1) ELSE s3
  BY DEF pick_next_task_fair
<1> SUFFICES Advances(s, r) /\ (~Stopped(r) => r.cfs[c].curr \in Tasks) OBVIOUS
<1> HIDE DEF s1, r
<1>3. CASE Stopped(s1) BY <1>1, <1>2, <1>3
<1>4. CASE ~Stopped(s1) /\ e = NULL
  <2>1. Stopped(Crash(s1)) BY <1>1, <1>4 DEF Crash, Stopped, Images
  <2>2. Advances(s, Crash(s1)) BY <1>1, CrashAdvances, AdvancesTrans
  <2>3. r = Crash(s1) BY <1>2, <1>4
  <2> QED BY <2>1, <2>2, <2>3
<1>5. CASE ~Stopped(s1) /\ e # NULL
  <2>1. e \in Tasks BY <1>1, <1>5, PickNextEntity
  <2> HIDE DEF e
  <2>2. Advances(s1, r1) /\ r1 \in Images BY <1>1, ClearBuddies DEF Advances
  <2> HIDE DEF r1
  <2>3. Advances(r1, s2) /\ s2 \in Images /\ s2.cfs[c].curr = e
    BY <2>1, <2>2, SetNextEntity DEF Advances
  <2> HIDE DEF s2
  <2>4. Advances(s2, s3) BY <2>1, <2>3, MoveToFront
  <2>5. s3.cfs = s2.cfs BY <2>3 DEF move_to_front_cfs_tasks, Images
  <2> HIDE DEF s3
  <2>6. Advances(s, s3) BY <1>1, <2>2, <2>3, <2>4, AdvancesTrans
  <2> QED BY <1>2, <1>5, <2>1, <2>3, <2>5, <2>6
<1> QED BY <1>3, <1>4, <1>5

LEMMA ScheduleOnce ==
    ASSUME TimelineContract, jiffies \in Nat, NEW s \in Images, NEW c \in CPUs
    PROVE  Advances(s, __schedule(s, c))
<1> DEFINE prev == s.rq[c].curr
           some == s.rq[c].nr_running # 0
           s1   == IF some THEN pick_next_task_fair(s, c, prev) ELSE s
           next == IF some THEN s1.cfs[c].curr ELSE idle[c]
           r1   == [s1 EXCEPT !.se[prev].RESCHED = 0]
           r2   == [r1 EXCEPT !.rq[c].NEED_RESCHED = 0]
           s2   == [r2 EXCEPT !.rq[c].curr = next]
<1>1. prev \in Entities BY DEF Images, RqType
<1>2. /\ Advances(s, s1) /\ s1 \in Images
      /\ ~Stopped(s1) => next \in Entities
  BY <1>1, PickNextTask, AdvancesRefl DEF Advances, Entities
<1>3. __schedule(s, c) = IF Stopped(s1) THEN s1
                         ELSE [s1 EXCEPT !.se[prev].RESCHED = 0, !.rq[c].NEED_RESCHED = 0,
                                         !.rq[c].curr = next]
  BY DEF __schedule
<1> HIDE DEF s1, next, prev
<1>4. CASE Stopped(s1) BY <1>2, <1>3, <1>4
<1>5. CASE ~Stopped(s1)
  <2>1. __schedule(s, c) = s2
    <3>1. [s1 EXCEPT !.se[prev].RESCHED = 0, !.rq[c].NEED_RESCHED = 0,
                     !.rq[c].curr = next] = s2
      BY <1>1, <1>2 DEF Images, SeImages
    <3> QED BY <1>3, <1>5, <3>1
  <2>2. Advances(s1, r1) /\ r1 \in Images BY <1>1, <1>2, SetMark DEF Advances, Bit
  <2> HIDE DEF r1
  <2>3. Advances(r1, r2) /\ r2 \in Images BY <2>2, SetNeedResched DEF Advances, Bit
  <2> HIDE DEF r2
  <2>4. Advances(r2, s2) BY <1>2, <1>5, <2>3, SetRqCurr
  <2> HIDE DEF s2
  <2> QED BY <1>2, <2>1, <2>2, <2>3, <2>4, AdvancesTrans
<1> QED BY <1>4, <1>5

LEMMA ScheduleAll ==
    ASSUME TimelineContract, jiffies \in Nat, NEW s \in Images, NEW c \in CPUs
    PROVE  Advances(s, schedule(s, c))
<1> DEFINE round(x) == IF Stopped(x) THEN x ELSE __schedule(x, c)
           s1 == round(s)
<1>1. \A x \in Images : Advances(x, round(x)) BY ScheduleOnce, AdvancesRefl
<1>2. schedule(s, c) \in {s1, round(s1)} BY DEF schedule
<1> HIDE DEF round
<1>3. Advances(s, s1) /\ s1 \in Images BY <1>1 DEF Advances
<1> HIDE DEF s1
<1>4. Advances(s, round(s1)) BY <1>1, <1>3, AdvancesTrans
<1> QED BY <1>2, <1>3, <1>4

LEMMA PreemptEnable ==
    ASSUME TimelineContract, jiffies \in Nat, NEW s \in Images, NEW c \in CPUs
    PROVE  Advances(s, preempt_enable(s, c))
<1> DEFINE s1 == preempt_count_dec(s, c)
           r1 == preempt_disable(s1, c)
           s2 == schedule(r1, c)
           s3 == preempt_count_dec(s2, c)
<1>1. preempt_enable(s, c) \in {s, s1, s3} BY DEF preempt_enable
<1>2. Advances(s, s1) /\ s1 \in Images BY PreemptCountDec DEF Advances
<1> HIDE DEF s1
<1>3. Advances(s1, r1) /\ r1 \in Images BY <1>2, PreemptDisable DEF Advances
<1> HIDE DEF r1
<1>4. Advances(r1, s2) /\ s2 \in Images BY <1>3, ScheduleAll DEF Advances
<1> HIDE DEF s2
<1>5. Advances(s2, s3) BY <1>4, PreemptCountDec
<1> HIDE DEF s3
<1>6. Advances(s, s3) BY <1>2, <1>3, <1>4, <1>5, AdvancesTrans
<1> QED BY <1>1, <1>2, <1>6, AdvancesRefl

LEMMA MigrateTaskRq ==
    ASSUME NEW s \in Images, NEW t \in Tasks, s.se[t].cpu \in CPUs
    PROVE  Advances(s, migrate_task_rq(s, t))
<1> DEFINE c  == s.se[t].cpu
           x  == [s.cfs[c] EXCEPT !.attached[t] = @ - 1]
           y  == [s.se[t] EXCEPT !.last_update = 0, !.exec_start = 0]
           s1 == [s EXCEPT !.cfs = [s.cfs EXCEPT ![c] = x]]
           s2 == [s1 EXCEPT !.se = [s1.se EXCEPT ![t] = y]]
<1>1. t \in Entities /\ c \in CPUs BY DEF Entities
<1>2. migrate_task_rq(s, t) = s2
  BY <1>1 DEF migrate_task_rq, Images, SeImages
<1> HIDE DEF c
<1>3. /\ x \in CfsType /\ x.min_vruntime = s.cfs[c].min_vruntime
      /\ x.h_nr_running = s.cfs[c].h_nr_running
  <2>1. s.cfs[c] \in CfsType BY <1>1 DEF Images
  <2> QED BY <2>1 DEF CfsType
<1>4. y \in SeType
  <2>1. s.se[t] \in SeType BY <1>1 DEF Images, SeImages
  <2>2. 0 \in Bit /\ 0 \in ULong BY DEF Bit, ULong
  <2> QED BY <2>1, <2>2 DEF SeType
<1> HIDE DEF x, y
<1>5. Advances(s, s1) /\ s1 \in Images BY <1>1, <1>3, SetCfsSame DEF Advances
<1> HIDE DEF s1
<1>6. Advances(s1, s2) BY <1>1, <1>4, <1>5, SetSe
<1> HIDE DEF s2
<1> QED BY <1>2, <1>5, <1>6, AdvancesTrans

LEMMA SetTaskCpu ==
    ASSUME NEW s \in Images, NEW t \in Tasks, NEW c \in CPUs
    PROVE  Advances(s, set_task_cpu(s, t, c))
<1> DEFINE old == s.se[t].cpu
           s1  == IF old = c \/ Stopped(s) THEN s
                  ELSE IF old \notin CPUs THEN Crash(s) ELSE migrate_task_rq(s, t)
           s2  == [s1 EXCEPT !.se[t].cpu = c]
<1>1. Advances(s, s1) /\ s1 \in Images
  BY MigrateTaskRq, CrashAdvances, AdvancesRefl DEF Advances
<1>2. set_task_cpu(s, t, c) = s2 BY DEF set_task_cpu
<1> HIDE DEF s1
<1>3. Advances(s1, s2) BY <1>1, SetCpu
<1> QED BY <1>1, <1>2, <1>3, AdvancesTrans

-----------------------------------------------------------------------------
(* The handlers.                                                           *)

LEMMA DetachTask ==
    ASSUME TimelineContract, jiffies \in Nat, NEW s \in Images, NEW t \in Tasks,
           NEW src \in CPUs, NEW dst \in CPUs
    PROVE  Advances(s, detach_task(s, t, src, dst))
<1> DEFINE s0 == [s EXCEPT !.se[t].task_on_rq = 2]
           s1 == deactivate_task(s0, src, t)
<1>1. detach_task(s, t, src, dst) = set_task_cpu(s1, t, dst) BY DEF detach_task
<1>2. Advances(s, s0) /\ s0 \in Images
  <2>1. 2 \in 0 .. 2 OBVIOUS
  <2> QED BY <2>1, SetTaskOnRq DEF Advances
<1> HIDE DEF s0
<1>3. Advances(s0, s1) /\ s1 \in Images BY <1>2, DeactivateTask DEF Advances
<1> HIDE DEF s1
<1>4. Advances(s1, set_task_cpu(s1, t, dst)) BY <1>3, SetTaskCpu
<1> QED BY <1>1, <1>2, <1>3, <1>4, AdvancesTrans

LEMMA AttachTask ==
    ASSUME TimelineContract, jiffies \in Nat,
           NEW s \in Images, NEW t \in Tasks, NEW c \in CPUs
    PROVE  Advances(s, attach_task(s, t, c))
<1> DEFINE s1 == activate_task(s, c, t)
           s2 == [s1 EXCEPT !.se[t].task_on_rq = 1]
<1>1. attach_task(s, t, c) = check_preempt_wakeup(s2, c, t) BY DEF attach_task
<1>2. Advances(s, s1) /\ s1 \in Images BY ActivateTask DEF Advances
<1> HIDE DEF s1
<1>3. Advances(s1, s2) /\ s2 \in Images
  <2>1. 1 \in 0 .. 2 OBVIOUS
  <2> QED BY <1>2, <2>1, SetTaskOnRq DEF Advances
<1> HIDE DEF s2
<1>4. Advances(s2, check_preempt_wakeup(s2, c, t)) BY <1>3, CheckPreemptWakeup
<1> QED BY <1>1, <1>2, <1>3, <1>4, AdvancesTrans

LEMMA WakeUpNewTask ==
    ASSUME TimelineContract, jiffies \in Nat,
           NEW s \in Images, NEW t \in Tasks, NEW c \in CPUs
    PROVE  Advances(s, wake_up_new_task(s, t, c))
<1> DEFINE s0 == preempt_disable(s, c)
           s1 == attach_entity_load_avg(s0, c, t)
           r1 == activate_task(s1, c, t)
           s2 == [r1 EXCEPT !.se[t].task_on_rq = 1]
           r2 == check_preempt_wakeup(s2, c, t)
           s3 == preempt_enable(r2, c)
<1>1. wake_up_new_task(s, t, c) \in {s3, Crash(s3)} BY DEF wake_up_new_task
<1>2. Advances(s, s0) /\ s0 \in Images BY PreemptDisable DEF Advances
<1> HIDE DEF s0
<1>3. Advances(s0, s1) /\ s1 \in Images BY <1>2, AttachLoad DEF Advances
<1> HIDE DEF s1
<1>4. Advances(s1, r1) /\ r1 \in Images BY <1>3, ActivateTask DEF Advances
<1> HIDE DEF r1
<1>5. Advances(r1, s2) /\ s2 \in Images
  <2>1. 1 \in 0 .. 2 OBVIOUS
  <2> QED BY <1>4, <2>1, SetTaskOnRq DEF Advances
<1> HIDE DEF s2
<1>6. Advances(s2, r2) /\ r2 \in Images BY <1>5, CheckPreemptWakeup DEF Advances
<1> HIDE DEF r2
<1>7. Advances(r2, s3) /\ s3 \in Images BY <1>6, PreemptEnable DEF Advances
<1> HIDE DEF s3
<1>8. Advances(s, r1) BY <1>2, <1>3, <1>4, AdvancesTrans
<1>9. Advances(r1, s3) BY <1>4, <1>5, <1>6, <1>7, AdvancesTrans
<1>10. Advances(s, s3) BY <1>8, <1>9, AdvancesTrans
<1>11. Advances(s, Crash(s3)) BY <1>7, <1>10, CrashAdvances, AdvancesTrans
<1> QED BY <1>1, <1>10, <1>11

LEMMA SchedulerTick ==
    ASSUME TimelineContract, jiffies \in Nat, NEW s \in Images, NEW c \in CPUs
    PROVE  Advances(s, scheduler_tick(s, c))
<1> DEFINE s1 == preempt_disable(s, c)
           e  == s1.rq[c].curr
           s2 == task_tick_fair(s1, c, e)
           b  == IF idle_cpu(s2, c) THEN 1 ELSE 0
           s3 == [s2 EXCEPT !.rq[c].idle_balance = b]
<1>1. scheduler_tick(s, c) = s3 BY DEF scheduler_tick
<1>2. Advances(s, s1) /\ s1 \in Images BY PreemptDisable DEF Advances
<1>3. b \in Bit BY DEF Bit
<1> HIDE DEF s1, b
<1>4. e \in Entities BY <1>2 DEF Images, RqType
<1> HIDE DEF e
<1>5. Advances(s1, s2) /\ s2 \in Images BY <1>2, <1>4, TaskTickFair DEF Advances
<1> HIDE DEF s2
<1>6. Advances(s2, s3) BY <1>3, <1>5, SetIdleBalance
<1> HIDE DEF s3
<1> QED BY <1>1, <1>2, <1>5, <1>6, AdvancesTrans

-----------------------------------------------------------------------------
(* The inductive invariant: the run queues are an image, which types the   *)
(* timelines and says that no idle task is queued, and the balancer works  *)
(* on CPUs that exist.                                                     *)

EnvOK ==
    /\ env \in EnvType
    /\ env.phase # "none" => env.dst \in CPUs
    /\ env.phase \in {"detach", "attach"} => env.src \in CPUs

IInv == jiffies \in Nat /\ Image \in Images /\ EnvOK

\* The history of the starts has a type of its own.
StartOK == start \in [Tasks -> [on : CPUs \cup {NULL}, named : UninitCpu \cup {NULL}]]

LEMMA IInvTypes == ASSUME IInv, StartOK PROVE TypeOK
BY DEF IInv, StartOK, TypeOK, EnvOK, Image, Images, SeImages, Faults

LEMMA InitIInv == ASSUME TimelineContract, Init PROVE IInv
<1>1. jiffies \in Nat BY BoundAssumption DEF Init
<1>2. rq \in [CPUs -> RqType]
  <2>1. \A c \in CPUs : NewRq(c) \in RqType BY DEF NewRq, RqType, Entities, ULong, Bit
  <2> QED BY <2>1 DEF Init
<1>3. cfs \in [CPUs -> CfsType]
  <2>1. \A n \in UninitCount : NewCfs(n) \in CfsType
    BY BoundAssumption DEF NewCfs, CfsType, ULong
  <2> QED BY <2>1 DEF Init
<1>4. se \in SeImages
  <2>1. NewEntity \in SeType BY DEF NewEntity, SeType, ULong, Bit
  <2>2. se = [e \in Entities |-> NewEntity] BY DEF Init
  <2>3. \A c \in CPUs : se[idle[c]].on_rq = 0 BY <2>2 DEF Entities, NewEntity
  <2> QED BY <2>1, <2>2, <2>3 DEF SeImages
<1>5. tl \in Timelines /\ fault \in Faults BY DEF Init, TimelineContract, Faults
<1>6. EnvOK BY DEF Init, NoEnv, EnvOK, EnvType, ULong, Bit
<1> QED BY <1>1, <1>2, <1>3, <1>4, <1>5, <1>6 DEF IInv, Image, Images

\* Committing an image that advances leads to one; so does leaving the run
\* queues alone.
LEMMA CommitAdvances ==
    ASSUME Image \in Images, NEW s, Advances(Image, s), Commit(s)
    PROVE  Advances(Image, Image')
<1>1. s \in Images BY DEF Advances
<1>2. CASE Stopped(s)
  <2>1. Image' = [Image EXCEPT !.fault = s.fault] BY <1>2 DEF Commit, Image
  <2>2. Image' \in Images BY <1>1, <2>1 DEF Images
  <2>3. Image'.cfs = Image.cfs /\ Image'.rq = Image.rq BY <1>2 DEF Commit, Image
  <2> QED BY <2>2, <2>3, SameCounters
<1>3. CASE ~Stopped(s)
  <2>1. Image' = s BY <1>1, <1>3 DEF Commit, Image, Images
  <2> QED BY <2>1
<1> QED BY <1>2, <1>3

LEMMA UnchangedAdvances ==
    ASSUME Image \in Images, UNCHANGED <<rq, cfs, se, tl, fault>>
    PROVE  Advances(Image, Image')
<1>1. Image' = Image BY DEF Image
<1> QED BY <1>1, AdvancesRefl

\* Every step of the program keeps the invariant, and moves the image on.
LEMMA StepAdvances ==
    ASSUME TimelineContract, IInv, Next
    PROVE  IInv' /\ Advances(Image, Image')
<1>1. jiffies \in Nat /\ Image \in Images /\ EnvOK BY DEF IInv
<1>2. SUFFICES jiffies' \in Nat /\ Advances(Image, Image') /\ EnvOK'
  BY DEF IInv, Advances
<1>3. CASE AdvanceJiffies
  <2>1. jiffies' \in Nat BY <1>1, <1>3 DEF AdvanceJiffies
  <2>2. EnvOK' BY <1>1, <1>3 DEF AdvanceJiffies, EnvOK
  <2> QED BY <1>1, <1>3, <2>1, <2>2, UnchangedAdvances DEF AdvanceJiffies
<1>4. ASSUME NEW t \in Tasks, NEW c \in CPUs, Wake(t, c)
      PROVE  jiffies' \in Nat /\ Advances(Image, Image') /\ EnvOK'
  <2>1. PICK garbage \in UninitCpu :
          Commit(wake_up_new_task([Image EXCEPT !.se[t].cpu = garbage], t, c))
    BY <1>4 DEF Wake
  <2> DEFINE s == [Image EXCEPT !.se[t].cpu = garbage]
  <2>2. Advances(Image, s) /\ s \in Images BY <1>1, SetCpu DEF Advances
  <2> HIDE DEF s
  <2>3. Advances(Image, wake_up_new_task(s, t, c))
    BY <1>1, <2>2, WakeUpNewTask, AdvancesTrans
  <2>4. Advances(Image, Image') BY <1>1, <2>1, <2>3, CommitAdvances DEF s
  <2> QED BY <1>1, <1>4, <2>4 DEF Wake, EnvOK
<1>5. ASSUME NEW c \in CPUs, Schedule(c)
      PROVE  jiffies' \in Nat /\ Advances(Image, Image') /\ EnvOK'
  <2>1. Advances(Image, schedule(Image, c)) BY <1>1, ScheduleAll
  <2>2. Advances(Image, Image') BY <1>1, <1>5, <2>1, CommitAdvances DEF Schedule
  <2> QED BY <1>1, <1>5, <2>2 DEF Schedule, EnvOK
<1>6. ASSUME NEW c \in CPUs, Tick(c)
      PROVE  jiffies' \in Nat /\ Advances(Image, Image') /\ EnvOK'
  <2> DEFINE s == scheduler_tick(Image, c)
  <2>1. Advances(Image, s) /\ s \in Images BY <1>1, SchedulerTick DEF Advances
  <2>2. Advances(Image, Image') BY <1>1, <1>6, <2>1, CommitAdvances DEF Tick
  <2>3. \/ env' = [NoEnv EXCEPT !.phase = "balance", !.this = c, !.dst = c,
                                !.cpu_idle = s.rq[c].idle_balance]
        \/ env' = NoEnv
    BY <1>6 DEF Tick
  <2> HIDE DEF s
  <2>4. s.rq[c].idle_balance \in Bit BY <2>1 DEF Images, RqType
  <2>5. EnvOK'
    <3>1. NoEnv \in EnvType /\ NoEnv.phase = "none" BY DEF NoEnv, EnvType, ULong, Bit
    <3>2. CASE env' = NoEnv BY <3>1, <3>2 DEF EnvOK
    <3>3. CASE env' = [NoEnv EXCEPT !.phase = "balance", !.this = c, !.dst = c,
                                    !.cpu_idle = s.rq[c].idle_balance]
      BY <2>4, <3>1, <3>3 DEF EnvOK, EnvType
    <3> QED BY <2>3, <3>2, <3>3
  <2> QED BY <1>1, <1>6, <2>2, <2>5 DEF Tick
<1>7. ASSUME NEW src \in CPUs, NEW dst \in CPUs, NEW loop_max \in ULong,
             NEW cpu_idle \in Bit, BeginDetach(src, dst, loop_max, cpu_idle)
      PROVE  jiffies' \in Nat /\ Advances(Image, Image') /\ EnvOK'
  <2>1. Advances(Image, Image') BY <1>1, <1>7, UnchangedAdvances DEF BeginDetach
  <2>2. EnvOK' BY <1>1, <1>7 DEF BeginDetach, EnvOK, EnvType
  <2> QED BY <1>1, <1>7, <2>1, <2>2 DEF BeginDetach
<1>8. ASSUME NEW src \in CPUs, ChooseSrc(src)
      PROVE  jiffies' \in Nat /\ Advances(Image, Image') /\ EnvOK'
  <2>1. PICK dst \in CPUs, cpu_idle \in Bit, loop_max \in ULong :
          BeginDetach(src, dst, loop_max, cpu_idle)
    <3>1. rq[src].nr_running \in ULong /\ sysctl_sched_nr_migrate \in ULong
      BY <1>1 DEF Image, Images, RqType, sysctl_sched_nr_migrate, ULong
    <3>2. env.cpu_idle \in Bit /\ 0 \in Bit /\ 1 \in Bit
      BY <1>1 DEF EnvOK, EnvType, Bit
    <3> QED BY <1>8, <3>1, <3>2 DEF ChooseSrc
  <2> QED BY <1>7, <2>1
<1>9. ASSUME NEW dst \in CPUs, MoreBalance(dst)
      PROVE  jiffies' \in Nat /\ Advances(Image, Image') /\ EnvOK'
  <2>1. /\ env.src \in CPUs /\ env.loop_max \in ULong /\ env.cpu_idle \in Bit
        /\ BeginDetach(env.src, dst, env.loop_max, env.cpu_idle)
    BY <1>1, <1>9 DEF MoreBalance, EnvOK, EnvType
  <2> QED BY <1>7, <2>1
<1>10. ASSUME DetachLoops
       PROVE  /\ env.src \in CPUs /\ env.dst \in CPUs
              /\ Last(rq[env.src].cfs_tasks) \in Tasks
  <2>1. env.src \in CPUs /\ env.dst \in CPUs
    BY <1>1, <1>10 DEF DetachLoops, Running, EnvOK
  <2>2. rq[env.src].cfs_tasks \in Seq(Tasks)
    BY <1>1, <2>1 DEF Image, Images, RqType
  <2>3. rq[env.src].cfs_tasks # << >> BY <1>10 DEF DetachLoops
  <2> QED BY <2>1, <2>2, <2>3 DEF Last
<1>11. CASE DetachKeep
  <2> DEFINE t == Last(rq[env.src].cfs_tasks)
             s == move_to_front_cfs_tasks(Image, env.src, t)
  <2>1. env.src \in CPUs /\ t \in Tasks BY <1>10, <1>11 DEF DetachKeep
  <2> HIDE DEF t
  <2>2. Advances(Image, s) BY <1>1, <2>1, MoveToFront
  <2>3. Commit(s) BY <1>11 DEF DetachKeep, t
  <2> HIDE DEF s
  <2>4. Advances(Image, Image') BY <1>1, <2>2, <2>3, CommitAdvances
  <2>5. EnvOK' BY <1>1, <1>11 DEF DetachKeep, EnvOK, EnvType
  <2> QED BY <1>1, <1>11, <2>4, <2>5 DEF DetachKeep
<1>12. ASSUME NEW more \in BOOLEAN, DetachMove(more)
       PROVE  jiffies' \in Nat /\ Advances(Image, Image') /\ EnvOK'
  <2> DEFINE t == Last(rq[env.src].cfs_tasks)
             s == detach_task(Image, t, env.src, env.dst)
  <2>1. env.src \in CPUs /\ env.dst \in CPUs /\ t \in Tasks
    BY <1>10, <1>12 DEF DetachMove
  <2>2. /\ Commit(s)
        /\ \/ env' = env
           \/ env' = [env EXCEPT !.loop = @ + 1, !.tasks = Cons(t, @),
                                 !.phase = IF more THEN @ ELSE "attach"]
    BY <1>12 DEF DetachMove
  <2> HIDE DEF t
  <2>3. Advances(Image, s) BY <1>1, <2>1, DetachTask
  <2> HIDE DEF s
  <2>4. Advances(Image, Image') BY <1>1, <2>2, <2>3, CommitAdvances
  <2>5. Cons(t, env.tasks) \in Seq(Tasks) BY <1>1, <2>1, ConsType DEF EnvOK, EnvType
  <2>6. EnvOK'
    <3> DEFINE p == IF more THEN env.phase ELSE "attach"
    <3>1. p \in {"detach", "attach"} BY <1>12 DEF DetachMove, DetachLoops, Running
    <3>2. \/ env' = env
          \/ env' = [env EXCEPT !.loop = env.loop + 1, !.tasks = Cons(t, env.tasks),
                                !.phase = p]
      BY <2>2
    <3> HIDE DEF p
    <3>3. env.loop + 1 \in Nat BY <1>1 DEF EnvOK, EnvType
    <3> QED BY <1>1, <2>1, <2>5, <3>1, <3>2, <3>3 DEF EnvOK, EnvType
  <2> QED BY <1>1, <1>12, <2>4, <2>6 DEF DetachMove
<1>13. CASE DetachEnd
  <2>1. env.src \in CPUs /\ env.dst \in CPUs
    BY <1>1, <1>13 DEF DetachEnd, Running, EnvOK
  <2>2. EnvOK' BY <1>1, <1>13, <2>1 DEF DetachEnd, EnvOK, EnvType
  <2> QED BY <1>1, <1>13, <2>2, UnchangedAdvances DEF DetachEnd
<1>14. CASE AttachNext
  <2> DEFINE t == Head(env.tasks)
             s == attach_task(Image, t, env.dst)
  <2>1. env.dst \in CPUs BY <1>1, <1>14 DEF AttachNext, Running, EnvOK
  <2>2. t \in Tasks /\ Tail(env.tasks) \in Seq(Tasks)
    BY <1>1, <1>14 DEF AttachNext, EnvOK, EnvType
  <2>3. Commit(s) BY <1>14 DEF AttachNext
  <2> HIDE DEF t
  <2>4. Advances(Image, s) BY <1>1, <2>1, <2>2, AttachTask
  <2> HIDE DEF s
  <2>5. Advances(Image, Image') BY <1>1, <2>3, <2>4, CommitAdvances
  <2>6. env' = env \/ env' = [env EXCEPT !.tasks = Tail(@)] BY <1>14 DEF AttachNext
  <2>7. EnvOK' BY <1>1, <2>2, <2>6 DEF EnvOK, EnvType
  <2> QED BY <1>1, <1>14, <2>5, <2>7 DEF AttachNext
<1>15. CASE AttachEnd
  <2>1. env.dst \in CPUs BY <1>1, <1>15 DEF AttachEnd, Running, EnvOK
  <2>2. EnvOK' BY <1>1, <1>15, <2>1 DEF AttachEnd, EnvOK, EnvType
  <2> QED BY <1>1, <1>15, <2>2, UnchangedAdvances DEF AttachEnd
<1>16. CASE BalanceEnd
  <2>1. EnvOK' BY <1>16 DEF BalanceEnd, NoEnv, EnvOK, EnvType, ULong, Bit
  <2> QED BY <1>1, <1>16, <2>1, UnchangedAdvances DEF BalanceEnd
<1> QED
  BY <1>3, <1>4, <1>5, <1>6, <1>8, <1>9, <1>11, <1>12, <1>13, <1>14, <1>15, <1>16
  DEF Next, BalanceStep

-----------------------------------------------------------------------------
(* The theorems.                                                           *)

LEMMA IInvAlways == ASSUME TimelineContract PROVE Spec => []IInv
<1>1. Init => IInv BY InitIInv
<1>2. IInv /\ [Next]_vars => IInv'
  <2>1. ASSUME IInv, Next PROVE IInv' BY <2>1, StepAdvances
  <2>2. ASSUME IInv, UNCHANGED vars PROVE IInv'
    BY <2>2 DEF vars, IInv, EnvOK, Image
  <2> QED BY <2>1, <2>2
<1> QED BY <1>1, <1>2, PTL DEF Spec

\* Only a start that does not stop the program is noted.
LEMMA StartNoted ==
    ASSUME Next
    PROVE  \/ UNCHANGED start
           \/ \E t \in Tasks, c \in CPUs, garbage \in UninitCpu :
                 start' = [start EXCEPT ![t] = [on |-> c, named |-> garbage]]
BY DEF Next, BalanceStep, AdvanceJiffies, Wake, Schedule, Tick, ChooseSrc, MoreBalance,
       BeginDetach, DetachKeep, DetachMove, DetachEnd, AttachNext, AttachEnd, BalanceEnd

LEMMA StartAlways == Spec => []StartOK
<1>1. Init => StartOK BY DEF Init, StartOK, NotStarted
<1>2. StartOK /\ [Next]_vars => StartOK'
  <2>1. ASSUME StartOK, Next PROVE StartOK' BY <2>1, StartNoted DEF StartOK
  <2>2. ASSUME StartOK, UNCHANGED vars PROVE StartOK' BY <2>2 DEF StartOK, vars
  <2> QED BY <2>1, <2>2
<1> QED BY <1>1, <1>2, PTL DEF Spec

\* Whatever tasks are woken, ticked, scheduled and migrated in whatever order,
\* every field keeps its type: no idle task is queued or becomes the current
\* entity of a fair queue, and schedule (runqueue.cpp:621-645) finds a task or
\* the idle task to run.
THEOREM TypeCorrect == ASSUME TimelineContract PROVE Spec => []TypeOK
<1>1. IInv /\ StartOK => TypeOK BY IInvTypes
<1> QED BY <1>1, IInvAlways, StartAlways, PTL

\* min_vruntime (runqueue.cpp:292-309) never goes back, although the running
\* entity and the leftmost one it is computed from come and go.
THEOREM MinVruntimeNeverBack ==
    ASSUME TimelineContract PROVE Spec => MinVruntimeMonotone
<1> DEFINE Monotone == \A c \in CPUs :
                          ~ULess(cfs'[c].min_vruntime, cfs[c].min_vruntime)
<1>1. IInv /\ [Next]_vars => [Monotone]_vars
  <2>1. ASSUME IInv, Next PROVE Monotone
    <3>1. Advances(Image, Image') BY <2>1, StepAdvances
    <3> QED BY <3>1 DEF Advances, Image
  <2> QED BY <2>1
<1>2. Spec => [][Monotone]_vars BY <1>1, IInvAlways, PTL DEF Spec
<1> QED BY <1>2 DEF MinVruntimeMonotone

\* h_nr_running, which is never initialised, differs from nr_running by the
\* same garbage for ever: activate_task and deactivate_task (runqueue.cpp:
\* 559-574) count both, and nothing else counts either.
THEOREM CountsAlwaysMoveTogether ==
    ASSUME TimelineContract PROVE Spec => CountsMoveTogether
<1> DEFINE Together == \A c \in CPUs :
                          cfs'[c].h_nr_running - cfs[c].h_nr_running
                            = rq'[c].nr_running - rq[c].nr_running
<1>1. IInv /\ [Next]_vars => [Together]_vars
  <2>1. ASSUME IInv, Next PROVE Together
    <3>1. Advances(Image, Image') BY <2>1, StepAdvances
    <3> QED BY <3>1 DEF Advances, Image
  <2> QED BY <2>1
<1>2. Spec => [][Together]_vars BY <1>1, IInvAlways, PTL DEF Spec
<1> QED BY <1>2 DEF CountsMoveTogether

\* The contract is kept by the ordered timelines that MCRunQueue and its
\* configurations put in: the theorems above hold for the checked model.
THEOREM OrderedTimelinesKeepContract ==
    ASSUME Timelines = [CPUs -> Seq(Tasks)], TLInit = OrderedInit(CPUs),
           \A timeline, c, e, key :
             TLInsert(timeline, c, e, key) = OrderedInsert(timeline, c, e, key),
           \A timeline, c, e : TLErase(timeline, c, e) = OrderedErase(timeline, c, e),
           \A timeline, c : TLFirst(timeline, c) = OrderedFirst(timeline, c, NULL),
           \A timeline, c : TLWalk(timeline, c) = OrderedWalk(timeline, c),
           \A timeline : TLFault(timeline) = OrderedFault(timeline)
    PROVE  TimelineContract
<1>1. TLInit \in Timelines
  <2>1. \A c \in CPUs : << >> \in Seq(Tasks) OBVIOUS
  <2> QED BY <2>1 DEF OrderedInit
<1>2. ASSUME NEW timeline \in Timelines, NEW c \in CPUs
      PROVE  /\ \A t \in Tasks :
                    /\ \A key \in [Entities -> ULong] :
                          TLInsert(timeline, c, t, key) \in Timelines
                    /\ TLErase(timeline, c, t) \in Timelines
             /\ TLWalk(timeline, c) \in Timelines
             /\ TLFirst(timeline, c) \in Tasks \cup {NULL}
  <2>1. ASSUME NEW t \in Tasks
        PROVE  /\ \A key : OrderedInsert(timeline, c, t, key) \in Timelines
               /\ OrderedErase(timeline, c, t) \in Timelines
    BY <1>2, <2>1, OrderedInsertType, OrderedEraseType
  <2>2. OrderedWalk(timeline, c) \in Timelines BY <1>2 DEF OrderedWalk
  <2>3. OrderedFirst(timeline, c, NULL) \in Tasks \cup {NULL}
    <3>1. timeline[c] \in Seq(Tasks) BY <1>2
    <3> QED BY <3>1 DEF OrderedFirst
  <2> QED BY <2>1, <2>2, <2>3
<1>3. \A timeline \in Timelines : TLFault(timeline) \in Faults
  BY DEF OrderedFault, Faults
<1> QED BY <1>1, <1>2, <1>3 DEF TimelineContract

-----------------------------------------------------------------------------
(* The queues: the contract they need, and what operators do to them.      *)

CONSTANT ProperTimelines   \* the timelines nobody is in twice

\* The operation left a proper timeline, with these members on c and the
\* same ones as before elsewhere, unless it failed.
Becomes(timeline, after, c, members) ==
    TLFault(after) = "none" =>
        /\ after \in ProperTimelines
        /\ \A d \in CPUs : TLMembers(after, d) = IF d = c THEN members
                                                ELSE TLMembers(timeline, d)

\* What the queues may rely on of a timeline: it holds who was put in and not
\* taken out.  Nothing is promised for an insertion of a member, for an
\* erasure of another entity, or after a fault.  The order is not needed.
MemberContract ==
    /\ TLInit \in ProperTimelines
    /\ \A c \in CPUs : TLMembers(TLInit, c) = {}
    /\ \A timeline \in ProperTimelines, c \in CPUs :
          LET members == TLMembers(timeline, c)
          IN  /\ \A t \in Tasks \ members, key \in [Entities -> ULong] :
                    Becomes(timeline, TLInsert(timeline, c, t, key), c, members \cup {t})
              /\ \A t \in members :
                    Becomes(timeline, TLErase(timeline, c, t), c, members \ {t})
              /\ Becomes(timeline, TLWalk(timeline, c), c, members)
              /\ IF members = {} THEN TLFirst(timeline, c) = NULL
                 ELSE TLFirst(timeline, c) \in members

\* The program has not stopped, and its timelines are proper.
Live(s) == ~Stopped(s) /\ s.tl \in ProperTimelines

\* What a queue shares with the other representations, field by field: the
\* run queue,
SameRq(s, r, c) ==
    /\ r.rq[c].curr = s.rq[c].curr /\ r.rq[c].NEED_RESCHED = s.rq[c].NEED_RESCHED
    /\ r.rq[c].nr_running = s.rq[c].nr_running
    /\ r.rq[c].cfs_tasks = s.rq[c].cfs_tasks
\* the weights (sched_slice adds the weight of an idle task for good),
NoLighter(s, r, c) ==
    /\ r.cfs[c].runnable_weight = s.cfs[c].runnable_weight
    /\ \A n \in Int : s.cfs[c].weight >= n => r.cfs[c].weight >= n
\* the fair queue,
SameCfs(s, r, c) ==
    /\ r.cfs[c].curr = s.cfs[c].curr /\ r.cfs[c].next = s.cfs[c].next
    /\ r.cfs[c].nr_running = s.cfs[c].nr_running
    /\ NoLighter(s, r, c)
\* the timeline,
SameWaiters(s, r, c) == TLMembers(r.tl, c) = TLMembers(s.tl, c)
SameQueue(s, r, c) == SameRq(s, r, c) /\ SameCfs(s, r, c) /\ SameWaiters(s, r, c)
\* and an entity.
SameEntity(s, r, e) ==
    /\ r.se[e].on_rq = s.se[e].on_rq /\ r.se[e].task_on_rq = s.se[e].task_on_rq
    /\ r.se[e].RESCHED = s.se[e].RESCHED

\* An operator that changes none of this, or stops the program.
Same(s, r) ==
    /\ Stopped(s) => Stopped(r)
    /\ Live(s) /\ ~Stopped(r) =>
          /\ r.tl \in ProperTimelines
          /\ \A c \in CPUs : SameQueue(s, r, c)
          /\ \A e \in Entities : SameEntity(s, r, e)

\* Operators that change nothing compose.
LEMMA SameTrans ==
    ASSUME NEW s, NEW r, NEW q, Same(s, r), Same(r, q)
    PROVE  Same(s, q)
BY DEF Same, SameQueue, SameRq, SameCfs, NoLighter, SameWaiters, SameEntity, Live

LEMMA SameRefl == ASSUME NEW s PROVE Same(s, s)
BY DEF Same, SameQueue, SameRq, SameCfs, NoLighter, SameWaiters, SameEntity, Live

\* Vruntimes, loads and the times a task is charged for are not part of it.
LEMMA SameVruntime ==
    ASSUME NEW s \in Images, NEW t \in Tasks, NEW v \in ULong
    PROVE  Same(s, update_vruntime(s, t, v))
BY DEF Same, SameQueue, SameRq, SameCfs, NoLighter, SameWaiters, SameEntity, Live, Stopped,
       update_vruntime, Images, SeImages, SeType, Entities

LEMMA SameAttach ==
    ASSUME NEW s \in Images, NEW c \in CPUs, NEW t \in Tasks
    PROVE  Same(s, attach_entity_load_avg(s, c, t))
BY DEF Same, SameQueue, SameRq, SameCfs, NoLighter, SameWaiters, SameEntity, Live, Stopped,
       attach_entity_load_avg, Images, SeImages, SeType, CfsType, Entities

LEMMA SameLoad ==
    ASSUME NEW s \in Images, NEW c \in CPUs, NEW t \in Tasks
    PROVE  Same(s, update_load_avg(s, c, t))
BY SameAttach, SameRefl DEF update_load_avg

\* The current entity of the fair queue of c is queued.
CurrQueued(s, c) ==
    s.cfs[c].curr # NULL => s.se[s.cfs[c].curr].on_rq = 1

\* update_min_vruntime clears curr only if it is not queued.
LEMMA SameMinVruntime ==
    ASSUME NEW s \in Images, NEW c \in CPUs, Live(s) => CurrQueued(s, c)
    PROVE  Same(s, update_min_vruntime(s, c))
<1> DEFINE r == update_min_vruntime(s, c)
<1>1. PICK m : r = [s EXCEPT !.cfs[c].min_vruntime = m,
                             !.cfs[c].curr = IF /\ s.cfs[c].curr # NULL
                                                /\ s.se[s.cfs[c].curr].on_rq = 1
                                             THEN s.cfs[c].curr ELSE NULL]
  BY DEF update_min_vruntime
<1>2. /\ r.rq = s.rq /\ r.se = s.se /\ r.tl = s.tl /\ r.fault = s.fault
      /\ \A d \in CPUs : /\ r.cfs[d].next = s.cfs[d].next
                         /\ r.cfs[d].nr_running = s.cfs[d].nr_running
                         /\ r.cfs[d].weight = s.cfs[d].weight
                         /\ r.cfs[d].runnable_weight = s.cfs[d].runnable_weight
                         /\ CurrQueued(s, c) => r.cfs[d].curr = s.cfs[d].curr
  <2>1. s.cfs \in [CPUs -> CfsType] BY DEF Images
  <2> HIDE DEF r
  <2>2. /\ r.rq = s.rq /\ r.se = s.se /\ r.tl = s.tl /\ r.fault = s.fault
        /\ \A d \in CPUs \ {c} : r.cfs[d] = s.cfs[d]
    BY <1>1, <2>1 DEF Images
  <2>3. r.cfs[c] = [s.cfs[c] EXCEPT !.min_vruntime = m,
                                    !.curr = IF /\ s.cfs[c].curr # NULL
                                                /\ s.se[s.cfs[c].curr].on_rq = 1
                                             THEN s.cfs[c].curr ELSE NULL]
    BY <1>1, <2>1 DEF Images
  <2>4. s.cfs[c] \in CfsType BY <2>1
  <2>5. /\ r.cfs[c].next = s.cfs[c].next
        /\ r.cfs[c].nr_running = s.cfs[c].nr_running
        /\ r.cfs[c].weight = s.cfs[c].weight
        /\ r.cfs[c].runnable_weight = s.cfs[c].runnable_weight
        /\ CurrQueued(s, c) => r.cfs[c].curr = s.cfs[c].curr
    BY <2>3, <2>4 DEF CfsType, CurrQueued
  <2> QED BY <2>2, <2>5
<1> HIDE DEF r
<1>3. Same(s, r)
  BY <1>2 DEF Same, SameQueue, SameRq, SameCfs, NoLighter, SameWaiters, SameEntity, Live, Stopped
<1> QED BY <1>3 DEF r

LEMMA SameCharged ==
    ASSUME NEW s \in Images, NEW c \in CPUs, s.cfs[c].curr # NULL
    PROVE  Same(s, Charged(s, c)) /\ Charged(s, c).cfs = s.cfs
<1> DEFINE r == Charged(s, c)
<1>1. s.cfs[c].curr \in Entities BY DEF Images, CfsType, Entities
<1>2. PICK e, w, x, v :
        /\ e \in Entities
        /\ r = update_vruntime([s EXCEPT !.se[e].exec_start = w,
                                         !.se[e].sum_exec_runtime = x], e, v)
  BY <1>1 DEF Charged
<1> HIDE DEF r
<1>3. /\ r.rq = s.rq /\ r.cfs = s.cfs /\ r.tl = s.tl /\ r.fault = s.fault
      /\ \A d \in Entities : SameEntity(s, r, d)
  BY <1>2 DEF update_vruntime, Images, SeImages, SeType, SameEntity
<1>4. Same(s, r)
  BY <1>3 DEF Same, SameQueue, SameRq, SameCfs, NoLighter, SameWaiters, Live, Stopped
<1> QED BY <1>3, <1>4 DEF r

\* update_curr charges the running task and changes nothing else.
LEMMA SameCurr ==
    ASSUME TimelineContract, jiffies \in Nat,
           NEW s \in Images, NEW c \in CPUs, Live(s) => CurrQueued(s, c)
    PROVE  Same(s, update_curr(s, c))
<1>1. update_curr(s, c) = s
        \/ /\ ~Stopped(s) /\ s.cfs[c].curr # NULL
           /\ update_curr(s, c) = update_min_vruntime(Charged(s, c), c)
  BY DEF update_curr, Charged
<1>2. ASSUME ~Stopped(s), s.cfs[c].curr # NULL
      PROVE  Same(s, update_min_vruntime(Charged(s, c), c))
  <2> DEFINE r == Charged(s, c)
  <2>1. Same(s, r) /\ r.cfs = s.cfs BY <1>2, SameCharged
  <2>2. r \in Images BY <1>2, ChargeCurr DEF Advances
  <2> HIDE DEF r
  <2>3. CASE Live(s)
    <3>1. s.cfs[c].curr \in Entities BY <1>2 DEF Images, CfsType, Entities
    <3>2. Live(r) => CurrQueued(r, c)
      BY <1>2, <2>1, <2>3, <3>1 DEF CurrQueued, Same, SameEntity, Live
    <3>3. Same(r, update_min_vruntime(r, c)) BY <2>2, <3>2, SameMinVruntime
    <3> QED BY <2>1, <3>3, SameTrans DEF r
  <2>4. CASE ~Live(s) BY <1>2, <2>4 DEF Same, Live, r
  <2> QED BY <2>3, <2>4
<1> QED BY <1>1, <1>2, SameRefl

-----------------------------------------------------------------------------
(* The timeline.                                                           *)

\* Printing the timeline changes nothing that can be found in it.
LEMMA SameWalk ==
    ASSUME MemberContract, NEW s \in Images, NEW c \in CPUs
    PROVE  Same(s, debug_tasktimeline(s, c))
<1>1. CASE Stopped(s) BY <1>1, SameRefl DEF debug_tasktimeline
<1>2. CASE ~Stopped(s)
  <2> DEFINE r == TreeOp(s, TLWalk(s.tl, c))
  <2>1. debug_tasktimeline(s, c) = r BY <1>2 DEF debug_tasktimeline
  <2>2. /\ r.rq = s.rq /\ r.cfs = s.cfs /\ r.se = s.se
        /\ r.tl = TLWalk(s.tl, c) /\ r.fault = TLFault(r.tl)
    BY DEF TreeOp, Images
  <2>3. Live(s) => Becomes(s.tl, TLWalk(s.tl, c), c, TLMembers(s.tl, c))
    BY DEF MemberContract, Live
  <2> HIDE DEF r
  <2>4. Same(s, r)
    BY <1>2, <2>2, <2>3
    DEF Same, SameQueue, SameRq, SameCfs, NoLighter, SameWaiters, SameEntity, Live, Stopped, Becomes
  <2> QED BY <2>1, <2>4
<1> QED BY <1>1, <1>2

\* Only the timeline of c has changed: members wait there now.
Retimed(s, r, c, members) ==
    /\ r.rq = s.rq /\ r.cfs = s.cfs /\ r.se = s.se
    /\ Stopped(s) => Stopped(r)
    /\ Live(s) /\ ~Stopped(r) =>
          /\ r.tl \in ProperTimelines
          /\ \A d \in CPUs : TLMembers(r.tl, d) = IF d = c THEN members
                                                  ELSE TLMembers(s.tl, d)

\* __enqueue_entity and __dequeue_entity: one member more, one less.
LEMMA TreeInsert ==
    ASSUME MemberContract, NEW s \in Images, NEW c \in CPUs, NEW t \in Tasks,
           Live(s) => t \notin TLMembers(s.tl, c)
    PROVE  Retimed(s, __enqueue_entity(s, c, t), c, TLMembers(s.tl, c) \cup {t})
<1>1. CASE Stopped(s) BY <1>1 DEF Retimed, __enqueue_entity, Live
<1>2. CASE ~Stopped(s)
  <2> DEFINE key == [x \in Entities |-> IF x = t THEN s.se[x].vruntime
                                       ELSE s.se[x].node_vruntime]
             r   == TreeOp(s, TLInsert(s.tl, c, t, key))
  <2>1. __enqueue_entity(s, c, t) = r BY <1>2 DEF __enqueue_entity
  <2>2. key \in [Entities -> ULong] BY DEF Images, SeImages, SeType
  <2> HIDE DEF key
  <2>3. /\ r.rq = s.rq /\ r.cfs = s.cfs /\ r.se = s.se
        /\ r.tl = TLInsert(s.tl, c, t, key) /\ r.fault = TLFault(r.tl)
    BY DEF TreeOp, Images
  <2>4. Live(s) => Becomes(s.tl, r.tl, c, TLMembers(s.tl, c) \cup {t})
    BY <2>2, <2>3 DEF MemberContract, Live
  <2> HIDE DEF r
  <2>5. Retimed(s, r, c, TLMembers(s.tl, c) \cup {t})
    BY <1>2, <2>3, <2>4 DEF Retimed, Becomes, Stopped
  <2> QED BY <2>1, <2>5
<1> QED BY <1>1, <1>2

LEMMA TreeErase ==
    ASSUME MemberContract, NEW s \in Images, NEW c \in CPUs, NEW t \in Tasks,
           Live(s) => t \in TLMembers(s.tl, c)
    PROVE  Retimed(s, __dequeue_entity(s, c, t), c, TLMembers(s.tl, c) \ {t})
<1>1. CASE Stopped(s) BY <1>1 DEF Retimed, __dequeue_entity, Live
<1>2. CASE ~Stopped(s)
  <2> DEFINE r == TreeOp(s, TLErase(s.tl, c, t))
  <2>1. __dequeue_entity(s, c, t) = r BY <1>2 DEF __dequeue_entity
  <2>2. /\ r.rq = s.rq /\ r.cfs = s.cfs /\ r.se = s.se
        /\ r.tl = TLErase(s.tl, c, t) /\ r.fault = TLFault(r.tl)
    BY DEF TreeOp, Images
  <2>3. Live(s) => Becomes(s.tl, r.tl, c, TLMembers(s.tl, c) \ {t})
    BY <2>2 DEF MemberContract, Live
  <2> HIDE DEF r
  <2>4. Retimed(s, r, c, TLMembers(s.tl, c) \ {t})
    BY <1>2, <2>2, <2>3 DEF Retimed, Becomes, Stopped
  <2> QED BY <2>1, <2>4
<1> QED BY <1>1, <1>2

-----------------------------------------------------------------------------
(* Enqueueing and dequeueing; rq->nr_running, which activate_task and      *)
(* deactivate_task count, has moved by n.                                  *)

Enqueued(s, r, c, t, n) ==
    /\ Stopped(s) => Stopped(r)
    /\ Live(s) /\ ~Stopped(r) =>
          /\ r.tl \in ProperTimelines
          /\ \A d \in CPUs \ {c} : SameQueue(s, r, d)
          /\ \A e \in Entities \ {t} : SameEntity(s, r, e)
          /\ r.se[t].on_rq = 1 /\ r.se[t].task_on_rq = s.se[t].task_on_rq
          /\ r.se[t].RESCHED = s.se[t].RESCHED
          /\ r.rq[c].curr = s.rq[c].curr /\ r.rq[c].NEED_RESCHED = s.rq[c].NEED_RESCHED
          /\ r.rq[c].nr_running = s.rq[c].nr_running + n
          /\ r.rq[c].cfs_tasks = Cons(t, s.rq[c].cfs_tasks)
          /\ r.cfs[c].curr = s.cfs[c].curr /\ r.cfs[c].next = s.cfs[c].next
          /\ r.cfs[c].nr_running = s.cfs[c].nr_running + 1
          /\ r.cfs[c].runnable_weight = s.cfs[c].runnable_weight + Weight[t]
          /\ \A k \in Int : s.cfs[c].weight >= k => r.cfs[c].weight >= k + Weight[t]
          /\ TLMembers(r.tl, c) = TLMembers(s.tl, c) \cup {t}

\* What comes before or after an operator that changes nothing.
LEMMA SameThenEnqueued ==
    ASSUME NEW s, NEW q, NEW r, NEW c \in CPUs, NEW t \in Entities, NEW n,
           Same(s, q), Enqueued(q, r, c, t, n)
    PROVE  Enqueued(s, r, c, t, n)
BY DEF Same, Enqueued, SameQueue, SameRq, SameCfs, NoLighter, SameWaiters, SameEntity, Live

LEMMA EnqueuedThenSame ==
    ASSUME NEW s, NEW q, NEW r, NEW c \in CPUs, NEW t \in Entities, NEW n,
           Enqueued(s, q, c, t, n), Same(q, r)
    PROVE  Enqueued(s, r, c, t, n)
<1>1. \A k \in Int : k + Weight[t] \in Int BY WeightAssumption
<1> QED
  BY <1>1 DEF Same, Enqueued, SameQueue, SameRq, SameCfs, NoLighter, SameWaiters, SameEntity, Live

\* The part of enqueue_entity that puts the task into the list and the timeline.
LEMMA PutIn ==
    ASSUME TimelineContract, MemberContract,
           NEW s \in Images, NEW c \in CPUs, NEW t \in Tasks,
           Live(s) => t \notin TLMembers(s.tl, c)
    PROVE  LET s1 == __enqueue_entity(account_entity_enqueue(s, c, t), c, t)
           IN  Enqueued(s, [s1 EXCEPT !.se[t].on_rq = 1], c, t, 0)
<1> DEFINE s0 == account_entity_enqueue(s, c, t)
           s1 == __enqueue_entity(s0, c, t)
           r  == [s1 EXCEPT !.se[t].on_rq = 1]
<1>1. t \in Entities BY DEF Entities
<1>2. /\ s0.se = s.se /\ s0.tl = s.tl /\ s0.fault = s.fault
      /\ \A d \in CPUs \ {c} : s0.rq[d] = s.rq[d] /\ s0.cfs[d] = s.cfs[d]
      /\ s0.rq[c].curr = s.rq[c].curr /\ s0.rq[c].NEED_RESCHED = s.rq[c].NEED_RESCHED
      /\ s0.rq[c].nr_running = s.rq[c].nr_running
      /\ s0.rq[c].cfs_tasks = Cons(t, s.rq[c].cfs_tasks)
      /\ s0.cfs[c].curr = s.cfs[c].curr /\ s0.cfs[c].next = s.cfs[c].next
      /\ s0.cfs[c].nr_running = s.cfs[c].nr_running + 1
      /\ s0.cfs[c].runnable_weight = s.cfs[c].runnable_weight + Weight[t]
      /\ s0.cfs[c].weight = s.cfs[c].weight + Weight[t]
  BY DEF account_entity_enqueue, Images, RqType, CfsType
<1>3. s0 \in Images BY AccountEnqueue DEF Advances
<1> HIDE DEF s0
<1>4. Retimed(s0, s1, c, TLMembers(s.tl, c) \cup {t})
  <2>1. Live(s0) => t \notin TLMembers(s0.tl, c) BY <1>2 DEF Live, Stopped
  <2> QED BY <1>2, <1>3, <2>1, TreeInsert
<1>5. s1 \in Images BY <1>3, EnqueueInTree DEF Advances
<1> HIDE DEF s1
<1>6. /\ r.rq = s1.rq /\ r.cfs = s1.cfs /\ r.tl = s1.tl /\ r.fault = s1.fault
      /\ r.se[t].on_rq = 1 /\ r.se[t].task_on_rq = s1.se[t].task_on_rq
      /\ r.se[t].RESCHED = s1.se[t].RESCHED
      /\ \A e \in Entities \ {t} : r.se[e] = s1.se[e]
  BY <1>1, <1>5 DEF Images, SeImages, SeType
<1>7. s.rq[c].nr_running + 0 = s.rq[c].nr_running BY Counters DEF ULong
<1> HIDE DEF r
<1>8. \A k \in Int : s.cfs[c].weight >= k => s0.cfs[c].weight >= k + Weight[t]
  <2>1. s.cfs[c].weight \in Int BY DEF Images, CfsType, ULong
  <2> QED BY <1>1, <1>2, <2>1, WeightAssumption
<1>9. Enqueued(s, r, c, t, 0)
  BY <1>2, <1>4, <1>6, <1>7, <1>8
  DEF Enqueued, Retimed, SameQueue, SameRq, SameCfs, NoLighter, SameWaiters, SameEntity, Live, Stopped
<1> QED BY <1>9 DEF r, s1, s0

\* enqueue_entity, and activate_task above it, put a task in.
LEMMA EnqueueEffect ==
    ASSUME TimelineContract, MemberContract, jiffies \in Nat,
           NEW s \in Images, NEW c \in CPUs, NEW t \in Tasks, Live(s),
           CurrQueued(s, c), s.cfs[c].curr # t, t \notin TLMembers(s.tl, c)
    PROVE  Enqueued(s, enqueue_entity(s, c, t), c, t, 0)
<1> DEFINE s0 == update_curr(s, c)
           v  == s0.se[t].vruntime + s0.cfs[c].min_vruntime
           s1 == update_vruntime(s0, t, v)
           s2 == update_load_avg(s1, c, t)
           s3 == account_entity_enqueue(s2, c, t)
           s4 == __enqueue_entity(s3, c, t)
           s5 == [s4 EXCEPT !.se[t].on_rq = 1]
           r  == debug_tasktimeline(s5, c)
<1>1. t \in Entities BY DEF Entities
<1>2. enqueue_entity(s, c, t) = r BY DEF enqueue_entity
<1>3. s0 \in Images /\ Same(s, s0) BY UpdateCurr, SameCurr DEF Advances
<1>4. v \in ULong
  BY <1>1, <1>3 DEF Images, SeImages, SeType, CfsType, ULong
<1> HIDE DEF s0, v
<1>5. s1 \in Images /\ Same(s0, s1)
  BY <1>3, <1>4, UpdateVruntime, SameVruntime DEF Advances
<1> HIDE DEF s1
<1>6. s2 \in Images /\ Same(s1, s2) BY <1>5, UpdateLoad, SameLoad DEF Advances
<1> HIDE DEF s2
<1>7. Same(s, s2) BY <1>3, <1>5, <1>6, SameTrans
<1>8. Enqueued(s2, s5, c, t, 0)
  <2>1. Live(s2) => t \notin TLMembers(s2.tl, c)
    BY <1>7 DEF Same, SameQueue, SameWaiters, Live
  <2> QED BY <1>6, <2>1, PutIn
<1>9. s5 \in Images
  <2>1. s3 \in Images BY <1>6, AccountEnqueue DEF Advances
  <2> HIDE DEF s3
  <2>2. s4 \in Images BY <2>1, EnqueueInTree DEF Advances
  <2> HIDE DEF s4
  <2> QED BY <2>2, SetOnRq DEF Advances, Bit
<1> HIDE DEF s5
<1>10. Same(s5, r) BY <1>9, SameWalk
<1> HIDE DEF r
<1>11. Enqueued(s, s5, c, t, 0) BY <1>1, <1>7, <1>8, SameThenEnqueued
<1>12. Enqueued(s, r, c, t, 0) BY <1>1, <1>10, <1>11, EnqueuedThenSame
<1> QED BY <1>2, <1>12

LEMMA ActivateEffect ==
    ASSUME TimelineContract, MemberContract, jiffies \in Nat,
           NEW s \in Images, NEW c \in CPUs, NEW t \in Tasks, Live(s),
           CurrQueued(s, c), s.cfs[c].curr # t, t \notin TLMembers(s.tl, c)
    PROVE  Enqueued(s, activate_task(s, c, t), c, t, 1)
<1> DEFINE q == enqueue_entity(s, c, t)
           r == activate_task(s, c, t)
<1>1. t \in Entities BY DEF Entities
<1>2. q \in Images /\ Enqueued(s, q, c, t, 0)
  BY EnqueueEntity, EnqueueEffect DEF Advances
<1>3. r = [q EXCEPT !.cfs[c].h_nr_running = @ + 1, !.rq[c].nr_running = @ + 1]
  BY DEF activate_task
<1> HIDE DEF q, r
<1>4. /\ r.se = q.se /\ r.tl = q.tl /\ r.fault = q.fault
      /\ \A d \in CPUs : SameCfs(q, r, d)
      /\ \A d \in CPUs \ {c} : r.rq[d] = q.rq[d]
      /\ r.rq[c].curr = q.rq[c].curr /\ r.rq[c].NEED_RESCHED = q.rq[c].NEED_RESCHED
      /\ r.rq[c].nr_running = q.rq[c].nr_running + 1
      /\ r.rq[c].cfs_tasks = q.rq[c].cfs_tasks
  <2>1. \A d \in CPUs : /\ r.cfs[d].curr = q.cfs[d].curr /\ r.cfs[d].next = q.cfs[d].next
                         /\ r.cfs[d].nr_running = q.cfs[d].nr_running
                         /\ r.cfs[d].runnable_weight = q.cfs[d].runnable_weight
                         /\ r.cfs[d].weight = q.cfs[d].weight
    BY <1>2, <1>3 DEF Images, CfsType
  <2>2. \A d \in CPUs : SameCfs(q, r, d) BY <2>1 DEF SameCfs, NoLighter
  <2> QED BY <1>2, <1>3, <2>2 DEF Images, RqType
<1>5. q.rq[c].nr_running = s.rq[c].nr_running + 0
        => r.rq[c].nr_running = s.rq[c].nr_running + 1
  BY <1>4, Counters DEF ULong
<1>6. \A k \in Int : k + Weight[t] \in Int BY <1>1, WeightAssumption
<1>7. Enqueued(s, r, c, t, 1)
  BY <1>1, <1>2, <1>4, <1>5, <1>6
  DEF Enqueued, SameQueue, SameRq, SameCfs, NoLighter, SameWaiters, SameEntity, Live, Stopped
<1> QED BY <1>7 DEF r

\* The reverse: t left the queue of c, by n in the count of the run queue.
Dequeued(s, r, c, t, n) ==
    /\ Stopped(s) => Stopped(r)
    /\ Live(s) /\ ~Stopped(r) =>
          /\ r.tl \in ProperTimelines
          /\ \A d \in CPUs \ {c} : SameQueue(s, r, d)
          /\ \A e \in Entities \ {t} : SameEntity(s, r, e)
          /\ r.se[t].on_rq = 0 /\ r.se[t].task_on_rq = s.se[t].task_on_rq
          /\ r.se[t].RESCHED = s.se[t].RESCHED
          /\ r.rq[c].curr = s.rq[c].curr /\ r.rq[c].NEED_RESCHED = s.rq[c].NEED_RESCHED
          /\ r.rq[c].nr_running = s.rq[c].nr_running - n
          /\ r.rq[c].cfs_tasks = RemoveFirst(s.rq[c].cfs_tasks, t)
          /\ r.cfs[c].curr = s.cfs[c].curr
          /\ r.cfs[c].next = IF s.cfs[c].next = t THEN NULL ELSE s.cfs[c].next
          /\ r.cfs[c].nr_running = s.cfs[c].nr_running - 1
          /\ r.cfs[c].runnable_weight = s.cfs[c].runnable_weight - Weight[t]
          /\ \A k \in Int : s.cfs[c].weight >= k => r.cfs[c].weight >= k - Weight[t]
          /\ TLMembers(r.tl, c) = TLMembers(s.tl, c) \ {t}

\* As above.
LEMMA SameThenDequeued ==
    ASSUME NEW s, NEW q, NEW r, NEW c \in CPUs, NEW t \in Entities, NEW n,
           Same(s, q), Dequeued(q, r, c, t, n)
    PROVE  Dequeued(s, r, c, t, n)
BY DEF Same, Dequeued, SameQueue, SameRq, SameCfs, NoLighter, SameWaiters, SameEntity, Live

LEMMA DequeuedThenSame ==
    ASSUME NEW s, NEW q, NEW r, NEW c \in CPUs, NEW t \in Entities, NEW n,
           Dequeued(s, q, c, t, n), Same(q, r)
    PROVE  Dequeued(s, r, c, t, n)
<1>1. \A k \in Int : k - Weight[t] \in Int BY WeightAssumption
<1> QED
  BY <1>1 DEF Same, Dequeued, SameQueue, SameRq, SameCfs, NoLighter, SameWaiters, SameEntity, Live

\* The part of dequeue_entity that takes a waiting task out of everything.
LEMMA TakeOut ==
    ASSUME TimelineContract, MemberContract,
           NEW s \in Images, NEW c \in CPUs, NEW t \in Tasks,
           Live(s) => s.cfs[c].curr # t /\ t \in TLMembers(s.tl, c)
    PROVE  LET s1 == clear_buddies(s, c, t)
               s2 == IF t # s1.cfs[c].curr THEN __dequeue_entity(s1, c, t) ELSE s1
               r  == account_entity_dequeue([s2 EXCEPT !.se[t].on_rq = 0], c, t)
           IN  r \in Images /\ Dequeued(s, r, c, t, 0)
<1> DEFINE s1 == clear_buddies(s, c, t)
           s2 == IF t # s1.cfs[c].curr THEN __dequeue_entity(s1, c, t) ELSE s1
           s3 == [s2 EXCEPT !.se[t].on_rq = 0]
           r  == account_entity_dequeue(s3, c, t)
<1>1. t \in Entities BY DEF Entities
<1>2. /\ s1.rq = s.rq /\ s1.se = s.se /\ s1.tl = s.tl /\ s1.fault = s.fault
      /\ \A d \in CPUs \ {c} : s1.cfs[d] = s.cfs[d]
      /\ s1.cfs[c].curr = s.cfs[c].curr
      /\ s1.cfs[c].nr_running = s.cfs[c].nr_running
      /\ s1.cfs[c].next = IF s.cfs[c].next = t THEN NULL ELSE s.cfs[c].next
      /\ s1.cfs[c].runnable_weight = s.cfs[c].runnable_weight
      /\ s1.cfs[c].weight = s.cfs[c].weight
  BY DEF clear_buddies, Images, CfsType
<1>3. s1 \in Images BY ClearBuddies DEF Advances
<1> HIDE DEF s1
<1>4. /\ Stopped(s) => Stopped(s2)
      /\ Live(s) => Retimed(s1, s2, c, TLMembers(s.tl, c) \ {t})
  <2>1. Stopped(s1) => s2 = s1 BY DEF __dequeue_entity
  <2>2. ASSUME Live(s) PROVE Retimed(s1, s2, c, TLMembers(s.tl, c) \ {t})
    <3>1. t \in TLMembers(s1.tl, c) /\ s2 = __dequeue_entity(s1, c, t)
      BY <1>2, <2>2
    <3> QED BY <1>2, <1>3, <3>1, TreeErase
  <2> QED BY <1>2, <2>1, <2>2 DEF Stopped
<1>5. s2 \in Images BY <1>3, DequeueFromTree DEF Advances
<1> HIDE DEF s2
<1>6. /\ s3.rq = s2.rq /\ s3.cfs = s2.cfs /\ s3.tl = s2.tl /\ s3.fault = s2.fault
      /\ s3.se[t].on_rq = 0 /\ s3.se[t].task_on_rq = s2.se[t].task_on_rq
      /\ s3.se[t].RESCHED = s2.se[t].RESCHED
      /\ \A e \in Entities \ {t} : s3.se[e] = s2.se[e]
  BY <1>1, <1>5 DEF Images, SeImages, SeType
<1>7. s3 \in Images BY <1>5, SetOnRq DEF Advances, Bit
<1> HIDE DEF s3
<1>8. /\ r.se = s3.se /\ r.tl = s3.tl /\ r.fault = s3.fault
      /\ \A d \in CPUs \ {c} : r.rq[d] = s3.rq[d] /\ r.cfs[d] = s3.cfs[d]
      /\ r.rq[c].curr = s3.rq[c].curr /\ r.rq[c].NEED_RESCHED = s3.rq[c].NEED_RESCHED
      /\ r.rq[c].nr_running = s3.rq[c].nr_running
      /\ r.rq[c].cfs_tasks = RemoveFirst(s3.rq[c].cfs_tasks, t)
      /\ r.cfs[c].curr = s3.cfs[c].curr /\ r.cfs[c].next = s3.cfs[c].next
      /\ r.cfs[c].nr_running = s3.cfs[c].nr_running - 1
      /\ r.cfs[c].runnable_weight = s3.cfs[c].runnable_weight - Weight[t]
      /\ r.cfs[c].weight = s3.cfs[c].weight - Weight[t]
  BY <1>7 DEF account_entity_dequeue, Images, RqType, CfsType
<1>9. r \in Images BY <1>7, AccountDequeue DEF Advances
<1>10. s.rq[c].nr_running - 0 = s.rq[c].nr_running BY Counters DEF ULong
<1> HIDE DEF r
<1>11. \A k \in Int : s3.cfs[c].weight >= k => r.cfs[c].weight >= k - Weight[t]
  <2>1. s3.cfs[c].weight \in Int BY <1>7 DEF Images, CfsType, ULong
  <2> QED BY <1>1, <1>8, <2>1, WeightAssumption
<1>12. Stopped(s) => Stopped(r) BY <1>4, <1>6, <1>8 DEF Stopped
<1>13. ASSUME Live(s), ~Stopped(r) PROVE Dequeued(s, r, c, t, 0)
  <2>1. Live(s1) /\ ~Stopped(s2) BY <1>2, <1>6, <1>8, <1>13 DEF Live, Stopped
  <2>2. /\ s2.rq = s1.rq /\ s2.cfs = s1.cfs /\ s2.se = s1.se
        /\ s2.tl \in ProperTimelines
        /\ \A d \in CPUs : TLMembers(s2.tl, d) = IF d = c THEN TLMembers(s.tl, c) \ {t}
                                                 ELSE TLMembers(s.tl, d)
    BY <1>2, <1>4, <1>13, <2>1 DEF Retimed
  <2>3. /\ r.tl \in ProperTimelines
        /\ TLMembers(r.tl, c) = TLMembers(s.tl, c) \ {t}
        /\ \A d \in CPUs \ {c} : SameWaiters(s, r, d)
    BY <1>6, <1>8, <2>2 DEF SameWaiters
  <2>4. \A d \in CPUs \ {c} : r.rq[d] = s.rq[d] /\ r.cfs[d] = s.cfs[d]
    BY <1>2, <1>6, <1>8, <2>2
  <2>5. \A d \in CPUs \ {c} : SameQueue(s, r, d)
    BY <2>3, <2>4 DEF SameQueue, SameRq, SameCfs, NoLighter
  <2>6. /\ \A e \in Entities \ {t} : SameEntity(s, r, e)
        /\ r.se[t].on_rq = 0 /\ r.se[t].task_on_rq = s.se[t].task_on_rq
        /\ r.se[t].RESCHED = s.se[t].RESCHED
    BY <1>2, <1>6, <1>8, <2>2 DEF SameEntity
  <2>7. /\ r.rq[c].curr = s.rq[c].curr /\ r.rq[c].NEED_RESCHED = s.rq[c].NEED_RESCHED
        /\ r.rq[c].nr_running = s.rq[c].nr_running - 0
        /\ r.rq[c].cfs_tasks = RemoveFirst(s.rq[c].cfs_tasks, t)
    BY <1>2, <1>6, <1>8, <1>10, <2>2
  <2>8. /\ r.cfs[c].curr = s.cfs[c].curr
        /\ r.cfs[c].next = IF s.cfs[c].next = t THEN NULL ELSE s.cfs[c].next
        /\ r.cfs[c].nr_running = s.cfs[c].nr_running - 1
        /\ r.cfs[c].runnable_weight = s.cfs[c].runnable_weight - Weight[t]
        /\ s3.cfs[c].weight = s.cfs[c].weight
    BY <1>2, <1>6, <1>8, <2>2
  <2>9. \A k \in Int : s.cfs[c].weight >= k => r.cfs[c].weight >= k - Weight[t]
    BY <1>11, <2>8
  <2> QED BY <1>12, <2>3, <2>5, <2>6, <2>7, <2>8, <2>9 DEF Dequeued
<1>14. Dequeued(s, r, c, t, 0) BY <1>12, <1>13 DEF Dequeued
<1> QED BY <1>9, <1>14 DEF r, s3, s2, s1

\* dequeue_entity, and deactivate_task above it, take a task out.
LEMMA DequeueEffect ==
    ASSUME TimelineContract, MemberContract, jiffies \in Nat,
           NEW s \in Images, NEW c \in CPUs, NEW t \in Tasks, Live(s),
           CurrQueued(s, c), s.cfs[c].curr # t, t \in TLMembers(s.tl, c)
    PROVE  Dequeued(s, dequeue_entity(s, c, t), c, t, 0)
<1> DEFINE s0 == update_curr(s, c)
           s1 == clear_buddies(s0, c, t)
           s2 == IF t # s1.cfs[c].curr THEN __dequeue_entity(s1, c, t) ELSE s1
           s3 == account_entity_dequeue([s2 EXCEPT !.se[t].on_rq = 0], c, t)
           v  == s3.se[t].vruntime - s3.cfs[c].min_vruntime
           s4 == [s3 EXCEPT !.se[t].vruntime = v]
           r  == debug_tasktimeline(s4, c)
<1>1. t \in Entities BY DEF Entities
<1>2. dequeue_entity(s, c, t) = r BY DEF dequeue_entity
<1>3. s0 \in Images /\ Same(s, s0) BY UpdateCurr, SameCurr DEF Advances
<1> HIDE DEF s0
<1>4. s3 \in Images /\ Dequeued(s0, s3, c, t, 0)
  <2>1. Live(s0) => s0.cfs[c].curr # t /\ t \in TLMembers(s0.tl, c)
    BY <1>3 DEF Same, SameQueue, SameCfs, NoLighter, SameWaiters, Live
  <2> QED BY <1>3, <2>1, TakeOut
<1> HIDE DEF s3
<1>5. v \in ULong BY <1>1, <1>4 DEF Images, SeImages, SeType, CfsType, ULong
<1> HIDE DEF v
<1>6. s4 \in Images BY <1>4, <1>5, SetVruntime DEF Advances
<1>7. Same(s3, s4)
  BY <1>1, <1>4 DEF Same, SameQueue, SameRq, SameCfs, NoLighter, SameWaiters, SameEntity, Live,
                    Stopped, Images, SeImages, SeType
<1> HIDE DEF s4
<1>8. Same(s4, r) BY <1>6, SameWalk
<1> HIDE DEF r
<1>9. Same(s3, r) BY <1>7, <1>8, SameTrans
<1>10. Dequeued(s, s3, c, t, 0) BY <1>1, <1>3, <1>4, SameThenDequeued
<1>11. Dequeued(s, r, c, t, 0) BY <1>1, <1>9, <1>10, DequeuedThenSame
<1> QED BY <1>2, <1>11

LEMMA DeactivateEffect ==
    ASSUME TimelineContract, MemberContract, jiffies \in Nat,
           NEW s \in Images, NEW c \in CPUs, NEW t \in Tasks, Live(s),
           CurrQueued(s, c), s.cfs[c].curr # t, t \in TLMembers(s.tl, c)
    PROVE  Dequeued(s, deactivate_task(s, c, t), c, t, 1)
<1> DEFINE q == dequeue_entity(s, c, t)
           r == deactivate_task(s, c, t)
<1>1. t \in Entities BY DEF Entities
<1>2. q \in Images /\ Dequeued(s, q, c, t, 0)
  BY DequeueEntity, DequeueEffect DEF Advances
<1>3. r = [q EXCEPT !.cfs[c].h_nr_running = @ - 1, !.rq[c].nr_running = @ - 1]
  BY DEF deactivate_task
<1> HIDE DEF q, r
<1>4. /\ r.se = q.se /\ r.tl = q.tl /\ r.fault = q.fault
      /\ \A d \in CPUs : SameCfs(q, r, d)
      /\ \A d \in CPUs \ {c} : r.rq[d] = q.rq[d]
      /\ r.rq[c].curr = q.rq[c].curr /\ r.rq[c].NEED_RESCHED = q.rq[c].NEED_RESCHED
      /\ r.rq[c].nr_running = q.rq[c].nr_running - 1
      /\ r.rq[c].cfs_tasks = q.rq[c].cfs_tasks
  <2>1. \A d \in CPUs : /\ r.cfs[d].curr = q.cfs[d].curr /\ r.cfs[d].next = q.cfs[d].next
                         /\ r.cfs[d].nr_running = q.cfs[d].nr_running
                         /\ r.cfs[d].runnable_weight = q.cfs[d].runnable_weight
                         /\ r.cfs[d].weight = q.cfs[d].weight
    BY <1>2, <1>3 DEF Images, CfsType
  <2>2. \A d \in CPUs : SameCfs(q, r, d) BY <2>1 DEF SameCfs, NoLighter
  <2> QED BY <1>2, <1>3, <2>2 DEF Images, RqType
<1>5. q.rq[c].nr_running = s.rq[c].nr_running - 0
        => r.rq[c].nr_running = s.rq[c].nr_running - 1
  BY <1>4, Counters DEF ULong
<1>6. \A k \in Int : k - Weight[t] \in Int BY <1>1, WeightAssumption
<1>7. Dequeued(s, r, c, t, 1)
  BY <1>1, <1>2, <1>4, <1>5, <1>6
  DEF Dequeued, SameQueue, SameRq, SameCfs, NoLighter, SameWaiters, SameEntity, Live, Stopped
<1> QED BY <1>7 DEF r

-----------------------------------------------------------------------------
(* The invariant of a memory image.                                        *)

Listed(s, c) == ToSet(s.rq[c].cfs_tasks)

\* Both counts are the length of the list; lists are disjoint and hold a task
\* once; on_rq says whether a task is in one.
Accounted(s) ==
    /\ \A c \in CPUs :
          /\ s.rq[c].nr_running = Len(s.rq[c].cfs_tasks)
          /\ s.cfs[c].nr_running = Len(s.rq[c].cfs_tasks)
          /\ IsInjective(s.rq[c].cfs_tasks)
    /\ \A c, d \in CPUs : c # d => Listed(s, c) \cap Listed(s, d) = {}
    /\ \A t \in Tasks : s.se[t].on_rq = 1 <=> \E c \in CPUs : t \in Listed(s, c)

\* The two curr pointers agree on a listed task, or there is none.
CurrListed(s) ==
    \A c \in CPUs :
        \/ s.rq[c].curr = idle[c] /\ s.cfs[c].curr = NULL
        \/ s.rq[c].curr = s.cfs[c].curr /\ s.rq[c].curr \in Listed(s, c)

\* The timeline holds who is listed and does not run.
WaitersTimed(s) ==
    \A c \in CPUs : TLMembers(s.tl, c) = Listed(s, c) \ {s.cfs[c].curr}

\* The next buddy waits.
BuddiesListed(s) ==
    \A c \in CPUs :
        s.cfs[c].next # NULL => s.cfs[c].next \in Listed(s, c) \ {s.cfs[c].curr}

\* Only a running entity has a mark, and its queue has the same one.
MarksRun(s) ==
    /\ \A e \in Entities : s.se[e].RESCHED = 1 => \E c \in CPUs : s.rq[c].curr = e
    /\ \A c \in CPUs : s.rq[c].NEED_RESCHED = s.se[s.rq[c].curr].RESCHED

\* The weights against the sum over the list.
Weighed(s) ==
    \A c \in CPUs :
        LET sum == SumFunctionOnSet(Weight, Listed(s, c))
        IN  s.cfs[c].weight >= sum /\ s.cfs[c].runnable_weight = sum

\* A task is TASK_ON_RQ_QUEUED exactly if its entity is on_rq.
TasksOnRq(s) == \A t \in Tasks : s.se[t].task_on_rq = 1 <=> s.se[t].on_rq = 1

\* An idle CPU with work has the mark.
WorkMarked(s, c) ==
    s.rq[c].curr = idle[c] /\ s.rq[c].nr_running > 0 => s.rq[c].NEED_RESCHED = 1

\* All of these, between two operators of a handler as well, except the marks
\* of idle CPUs, which a handler sets at its end.
Shape(s) ==
    /\ Live(s) /\ Accounted(s) /\ CurrListed(s) /\ WaitersTimed(s)
    /\ BuddiesListed(s) /\ MarksRun(s) /\ TasksOnRq(s) /\ Weighed(s)

\* Between handlers the marks are there, too.
Sound(s) == Shape(s) /\ \A c \in CPUs : WorkMarked(s, c)

\* No task has come or gone.
Stays(s, r) ==
    /\ \A c \in CPUs : Listed(r, c) = Listed(s, c)
    /\ \A t \in Tasks : r.se[t].task_on_rq = s.se[t].task_on_rq

\* Staying composes.
LEMMA StaysTrans ==
    ASSUME NEW s, NEW q, NEW r, Stays(s, q), Stays(q, r) PROVE Stays(s, r)
BY DEF Stays

\* The sums that weigh a queue are sums of integers.
LEMMA ListedSum ==
    ASSUME NEW s \in Images, NEW c \in CPUs
    PROVE  /\ IsFiniteSet(Listed(s, c)) /\ Listed(s, c) \subseteq Tasks
           /\ \A t \in Entities : Weight[t] \in Int
           /\ SumFunctionOnSet(Weight, Listed(s, c)) \in Int
<1>1. s.rq[c].cfs_tasks \in Seq(Tasks) BY DEF Images, RqType
<1>2. IsFiniteSet(Listed(s, c)) BY <1>1, ListFinite DEF Listed
<1>3. Listed(s, c) \subseteq Tasks BY <1>1 DEF Listed, ToSet
<1>4. \A t \in Entities : Weight[t] \in Int BY WeightAssumption
<1>5. \A t \in Listed(s, c) : Weight[t] \in Int BY <1>3, <1>4 DEF Entities
<1>6. SumFunctionOnSet(Weight, Listed(s, c)) \in Int BY <1>2, <1>5, SumType
<1> QED BY <1>2, <1>3, <1>4, <1>6

\* The sum over the list follows a task in and out.
LEMMA ListedSumMoves ==
    ASSUME NEW s \in Images, NEW c \in CPUs, NEW t \in Tasks
    PROVE  LET S == Listed(s, c)
               sum == SumFunctionOnSet(Weight, S)
           IN  /\ t \notin S => SumFunctionOnSet(Weight, S \cup {t}) = sum + Weight[t]
               /\ t \in S => SumFunctionOnSet(Weight, S \ {t}) = sum - Weight[t]
<1> DEFINE S == Listed(s, c)
<1>1. IsFiniteSet(S) /\ S \subseteq Tasks /\ \A u \in Entities : Weight[u] \in Int
  BY ListedSum
<1> HIDE DEF S
<1>2. \A u \in S \cup {t} : Weight[u] \in Int BY <1>1 DEF Entities
<1>3. t \notin S => SumFunctionOnSet(Weight, S \cup {t})
                      = SumFunctionOnSet(Weight, S) + Weight[t]
  BY <1>1, <1>2, SumAdd
<1>4. t \in S => SumFunctionOnSet(Weight, S \ {t})
                   = SumFunctionOnSet(Weight, S) - Weight[t]
  BY <1>1, <1>2, SumRemove
<1> QED BY <1>3, <1>4 DEF S

LEMMA WeighedStays ==
    ASSUME NEW s \in Images, NEW r, Weighed(s),
           \A c \in CPUs : Listed(r, c) = Listed(s, c) /\ NoLighter(s, r, c)
    PROVE  Weighed(r)
BY ListedSum DEF Weighed, NoLighter

\* An operator that changes nothing keeps the invariant.
LEMMA SameShape ==
    ASSUME NEW s \in Images, NEW r \in Images, Shape(s), Same(s, r), ~Stopped(r)
    PROVE  /\ Shape(r) /\ Stays(s, r)
           /\ \A c \in CPUs : WorkMarked(s, c) => WorkMarked(r, c)
<1>1. /\ Live(r)
      /\ \A c \in CPUs : SameQueue(s, r, c)
      /\ \A e \in Entities : SameEntity(s, r, e)
  BY DEF Same, Shape, Live
<1>2. \A c \in CPUs : Listed(r, c) = Listed(s, c)
  BY <1>1 DEF Listed, SameQueue, SameRq
<1>3. \A t \in Tasks : t \in Entities BY DEF Entities
<1>4. \A c \in CPUs : s.rq[c].curr \in Entities BY DEF Images, RqType
<1> USE <1>1 DEF SameQueue, SameRq, SameCfs, NoLighter, SameWaiters, SameEntity
<1>5. Accounted(r) BY <1>2, <1>3 DEF Shape, Accounted
<1>6. CurrListed(r) BY <1>2 DEF Shape, CurrListed
<1>7. WaitersTimed(r) BY <1>2 DEF Shape, WaitersTimed
<1>8. BuddiesListed(r) BY <1>2 DEF Shape, BuddiesListed
<1>9. MarksRun(r) BY <1>4 DEF Shape, MarksRun
<1>10. TasksOnRq(r) BY <1>3 DEF Shape, TasksOnRq
<1>11. Stays(s, r) BY <1>2, <1>3 DEF Stays
<1>12. \A c \in CPUs : WorkMarked(s, c) => WorkMarked(r, c) BY DEF WorkMarked
<1>13. Weighed(r) BY <1>2, WeighedStays DEF Shape
<1> QED BY <1>5, <1>6, <1>7, <1>8, <1>9, <1>10, <1>11, <1>12, <1>13 DEF Shape

\* What the invariant says of the running task.
LEMMA ShapeCurr ==
    ASSUME NEW s \in Images, Shape(s), NEW c \in CPUs
    PROVE  /\ CurrQueued(s, c)
           /\ s.cfs[c].curr # NULL => s.cfs[c].curr \in Listed(s, c)
           /\ Listed(s, c) \subseteq Tasks
           /\ \A t \in Listed(s, c) : s.se[t].on_rq = 1
           /\ \A t \in Listed(s, c) \ {s.rq[c].curr} : t # s.cfs[c].curr
<1>1. s.rq[c].cfs_tasks \in Seq(Tasks) BY DEF Images, RqType
<1>2. Listed(s, c) \subseteq Tasks BY <1>1 DEF Listed, ToSet
<1>3. s.cfs[c].curr # NULL
        => s.cfs[c].curr \in Listed(s, c) /\ s.rq[c].curr = s.cfs[c].curr
  BY DEF Shape, CurrListed
<1>4. \A t \in Listed(s, c) : s.se[t].on_rq = 1 BY <1>2 DEF Shape, Accounted
<1>5. NULL \notin Tasks BY IdleAssumption DEF Entities
<1> QED BY <1>2, <1>3, <1>4, <1>5 DEF CurrQueued

\* A task that was nowhere has come to the queue of c.
Arrived(s, r, c, t) ==
    /\ Listed(r, c) = Listed(s, c) \cup {t}
    /\ \A d \in CPUs \ {c} : Listed(r, d) = Listed(s, d)
    /\ r.se[t].task_on_rq = 1
    /\ \A u \in Tasks \ {t} : r.se[u].task_on_rq = s.se[u].task_on_rq

\* Putting in a task that no list has keeps the invariant.
LEMMA Arrival ==
    ASSUME NEW s \in Images, NEW q \in Images, NEW c \in CPUs, NEW t \in Tasks,
           Shape(s), s.se[t].on_rq = 0, Enqueued(s, q, c, t, 1), ~Stopped(q)
    PROVE  LET r == [q EXCEPT !.se[t].task_on_rq = 1]
           IN  /\ Shape(r) /\ Arrived(s, r, c, t) /\ t # r.cfs[c].curr
               /\ \A d \in CPUs \ {c} : WorkMarked(s, d) => WorkMarked(r, d)
<1> DEFINE r == [q EXCEPT !.se[t].task_on_rq = 1]
<1>1. t \in Entities /\ \A u \in Tasks : u \in Entities BY DEF Entities
<1>2. /\ r.rq = q.rq /\ r.cfs = q.cfs /\ r.tl = q.tl /\ r.fault = q.fault
      /\ r.se[t].on_rq = q.se[t].on_rq /\ r.se[t].RESCHED = q.se[t].RESCHED
      /\ r.se[t].task_on_rq = 1
      /\ \A e \in Entities \ {t} : r.se[e] = q.se[e]
  BY <1>1 DEF Images, SeImages, SeType
<1> HIDE DEF r
<1>3. /\ Live(r)
      /\ \A d \in CPUs \ {c} : SameQueue(s, r, d)
      /\ \A e \in Entities \ {t} : SameEntity(s, r, e)
      /\ r.se[t].on_rq = 1 /\ r.se[t].RESCHED = s.se[t].RESCHED
      /\ r.se[t].task_on_rq = 1
      /\ r.rq[c].curr = s.rq[c].curr /\ r.rq[c].NEED_RESCHED = s.rq[c].NEED_RESCHED
      /\ r.rq[c].nr_running = s.rq[c].nr_running + 1
      /\ r.rq[c].cfs_tasks = Cons(t, s.rq[c].cfs_tasks)
      /\ r.cfs[c].curr = s.cfs[c].curr /\ r.cfs[c].next = s.cfs[c].next
      /\ r.cfs[c].nr_running = s.cfs[c].nr_running + 1
      /\ TLMembers(r.tl, c) = TLMembers(s.tl, c) \cup {t}
  BY <1>2 DEF Enqueued, Shape, Live, Stopped, SameQueue, SameRq, SameCfs, NoLighter, SameWaiters,
              SameEntity
<1>4. \A d \in CPUs : s.rq[d].curr \in Entities /\ s.rq[d].cfs_tasks \in Seq(Tasks)
  BY DEF Images, RqType
<1>5. \A d \in CPUs : t \notin Listed(s, d) BY DEF Shape, Accounted
<1>6. /\ Listed(r, c) = Listed(s, c) \cup {t}
      /\ Len(r.rq[c].cfs_tasks) = Len(s.rq[c].cfs_tasks) + 1
      /\ IsInjective(r.rq[c].cfs_tasks)
  BY <1>3, <1>4, <1>5, ConsElements DEF Shape, Accounted, Listed
<1>7. \A d \in CPUs \ {c} : Listed(r, d) = Listed(s, d)
  BY <1>3 DEF Listed, SameQueue, SameRq
<1>8. t # s.cfs[c].curr
  <2>1. t # NULL BY <1>1, IdleAssumption
  <2> QED BY <2>1, <1>5, ShapeCurr
<1> USE <1>3 DEF SameQueue, SameRq, SameCfs, NoLighter, SameWaiters, SameEntity
<1>9. Accounted(r)
  <2>1. ASSUME NEW d \in CPUs
        PROVE  /\ r.rq[d].nr_running = Len(r.rq[d].cfs_tasks)
               /\ r.cfs[d].nr_running = Len(r.rq[d].cfs_tasks)
               /\ IsInjective(r.rq[d].cfs_tasks)
    <3>1. CASE d = c BY <1>6, <3>1 DEF Shape, Accounted
    <3>2. CASE d # c BY <3>2 DEF Shape, Accounted
    <3> QED BY <3>1, <3>2
  <2>2. ASSUME NEW d \in CPUs, NEW e \in CPUs, d # e
        PROVE  Listed(r, d) \cap Listed(r, e) = {}
    BY <1>5, <1>6, <1>7, <2>2 DEF Shape, Accounted
  <2>3. ASSUME NEW u \in Tasks
        PROVE  r.se[u].on_rq = 1 <=> \E d \in CPUs : u \in Listed(r, d)
    BY <1>1, <1>6, <1>7 DEF Shape, Accounted
  <2> QED BY <2>1, <2>2, <2>3 DEF Accounted
<1>10. CurrListed(r) BY <1>6, <1>7 DEF Shape, CurrListed
<1>11. WaitersTimed(r) BY <1>6, <1>7, <1>8 DEF Shape, WaitersTimed
<1>12. BuddiesListed(r) BY <1>6, <1>7 DEF Shape, BuddiesListed
<1>13. MarksRun(r)
  <2>1. ASSUME NEW e \in Entities, r.se[e].RESCHED = 1
        PROVE  \E d \in CPUs : r.rq[d].curr = e
    BY <2>1 DEF Shape, MarksRun
  <2>2. ASSUME NEW d \in CPUs
        PROVE  r.rq[d].NEED_RESCHED = r.se[r.rq[d].curr].RESCHED
    BY <1>4 DEF Shape, MarksRun
  <2> QED BY <2>1, <2>2 DEF MarksRun
<1>14. TasksOnRq(r) BY <1>1 DEF Shape, TasksOnRq
<1>15. Arrived(s, r, c, t) BY <1>1, <1>6, <1>7 DEF Arrived
<1>16. \A d \in CPUs \ {c} : WorkMarked(s, d) => WorkMarked(r, d) BY DEF WorkMarked
<1>17. Weighed(r)
  <2>1. ASSUME NEW d \in CPUs \ {c}
        PROVE  LET sum == SumFunctionOnSet(Weight, Listed(r, d))
               IN  r.cfs[d].weight >= sum /\ r.cfs[d].runnable_weight = sum
    BY <1>7, ListedSum DEF Shape, Weighed, NoLighter
  <2>2. LET sum == SumFunctionOnSet(Weight, Listed(r, c))
        IN  r.cfs[c].weight >= sum /\ r.cfs[c].runnable_weight = sum
    <3> DEFINE sum == SumFunctionOnSet(Weight, Listed(s, c))
    <3>1. /\ IsFiniteSet(Listed(s, c)) /\ Listed(s, c) \subseteq Tasks
          /\ \A u \in Entities : Weight[u] \in Int
          /\ sum \in Int
      BY ListedSum
    <3>2. SumFunctionOnSet(Weight, Listed(s, c) \cup {t}) = sum + Weight[t]
      <4>1. t \notin Listed(s, c) BY <1>5
      <4> QED BY <4>1, ListedSumMoves
    <3>3. s.cfs[c].weight >= sum /\ s.cfs[c].runnable_weight = sum
      BY DEF Shape, Weighed
    <3> HIDE DEF sum
    <3>4. /\ r.cfs[c].runnable_weight = s.cfs[c].runnable_weight + Weight[t]
          /\ \A k \in Int : s.cfs[c].weight >= k => r.cfs[c].weight >= k + Weight[t]
      BY <1>2 DEF Enqueued, Shape, Live, Stopped
    <3> QED BY <1>6, <3>1, <3>2, <3>3, <3>4
  <2> QED BY <2>1, <2>2 DEF Weighed
<1>18. Shape(r) BY <1>9, <1>10, <1>11, <1>12, <1>13, <1>14, <1>17 DEF Shape
<1> QED BY <1>8, <1>15, <1>16, <1>18 DEF r

\* A waiting task has left the queue of c, for the balancer's list.
Departed(s, r, c, t) ==
    /\ Listed(r, c) = Listed(s, c) \ {t}
    /\ \A d \in CPUs \ {c} : Listed(r, d) = Listed(s, d)
    /\ r.se[t].task_on_rq = 2
    /\ \A u \in Tasks \ {t} : r.se[u].task_on_rq = s.se[u].task_on_rq

\* So does taking out a task that does not run.
LEMMA Departure ==
    ASSUME NEW s \in Images, NEW r \in Images, NEW c \in CPUs, NEW t \in Listed(s, c),
           Shape(s), t # s.rq[c].curr, ~Stopped(r),
           Dequeued([s EXCEPT !.se[t].task_on_rq = 2], r, c, t, 1)
    PROVE  /\ Shape(r) /\ Departed(s, r, c, t)
           /\ \A d \in CPUs : WorkMarked(s, d) => WorkMarked(r, d)
<1> DEFINE q == [s EXCEPT !.se[t].task_on_rq = 2]
<1>1. t \in Tasks /\ t \in Entities /\ \A u \in Tasks : u \in Entities
  BY ShapeCurr DEF Entities
<1>2. /\ q.rq = s.rq /\ q.cfs = s.cfs /\ q.tl = s.tl /\ q.fault = s.fault
      /\ q.se[t].on_rq = s.se[t].on_rq /\ q.se[t].RESCHED = s.se[t].RESCHED
      /\ q.se[t].task_on_rq = 2
      /\ \A e \in Entities \ {t} : q.se[e] = s.se[e]
  BY <1>1 DEF Images, SeImages, SeType
<1> HIDE DEF q
<1>3. /\ Live(r)
      /\ \A d \in CPUs \ {c} : SameQueue(s, r, d)
      /\ \A e \in Entities \ {t} : SameEntity(s, r, e)
      /\ r.se[t].on_rq = 0 /\ r.se[t].RESCHED = s.se[t].RESCHED
      /\ r.se[t].task_on_rq = 2
      /\ r.rq[c].curr = s.rq[c].curr /\ r.rq[c].NEED_RESCHED = s.rq[c].NEED_RESCHED
      /\ r.rq[c].nr_running = s.rq[c].nr_running - 1
      /\ r.rq[c].cfs_tasks = RemoveFirst(s.rq[c].cfs_tasks, t)
      /\ r.cfs[c].curr = s.cfs[c].curr
      /\ r.cfs[c].next = IF s.cfs[c].next = t THEN NULL ELSE s.cfs[c].next
      /\ r.cfs[c].nr_running = s.cfs[c].nr_running - 1
      /\ TLMembers(r.tl, c) = TLMembers(s.tl, c) \ {t}
  <2>1. Dequeued(q, r, c, t, 1) BY DEF q
  <2> QED
    BY <1>2, <2>1 DEF Dequeued, Shape, Live, Stopped, SameQueue, SameRq, SameCfs, NoLighter,
                      SameWaiters, SameEntity
<1>4. \A d \in CPUs : s.rq[d].curr \in Entities /\ s.rq[d].cfs_tasks \in Seq(Tasks)
  BY DEF Images, RqType
<1>5. \A d \in CPUs \ {c} : t \notin Listed(s, d) BY DEF Shape, Accounted
<1>6. /\ Listed(r, c) = Listed(s, c) \ {t}
      /\ Len(r.rq[c].cfs_tasks) = Len(s.rq[c].cfs_tasks) - 1
      /\ IsInjective(r.rq[c].cfs_tasks)
  BY <1>3, <1>4, RemoveFirstElements DEF Shape, Accounted, Listed
<1>7. \A d \in CPUs \ {c} : Listed(r, d) = Listed(s, d)
  BY <1>3 DEF Listed, SameQueue, SameRq
<1>8. t # s.cfs[c].curr BY ShapeCurr
<1> USE <1>3 DEF SameQueue, SameRq, SameCfs, NoLighter, SameWaiters, SameEntity
<1>9. Accounted(r)
  <2>1. ASSUME NEW d \in CPUs
        PROVE  /\ r.rq[d].nr_running = Len(r.rq[d].cfs_tasks)
               /\ r.cfs[d].nr_running = Len(r.rq[d].cfs_tasks)
               /\ IsInjective(r.rq[d].cfs_tasks)
    <3>1. CASE d = c BY <1>6, <3>1 DEF Shape, Accounted
    <3>2. CASE d # c BY <3>2 DEF Shape, Accounted
    <3> QED BY <3>1, <3>2
  <2>2. ASSUME NEW d \in CPUs, NEW e \in CPUs, d # e
        PROVE  Listed(r, d) \cap Listed(r, e) = {}
    BY <1>6, <1>7, <2>2 DEF Shape, Accounted
  <2>3. ASSUME NEW u \in Tasks
        PROVE  r.se[u].on_rq = 1 <=> \E d \in CPUs : u \in Listed(r, d)
    BY <1>1, <1>5, <1>6, <1>7 DEF Shape, Accounted
  <2> QED BY <2>1, <2>2, <2>3 DEF Accounted
<1>10. CurrListed(r) BY <1>6, <1>7, <1>8 DEF Shape, CurrListed
<1>11. WaitersTimed(r) BY <1>6, <1>7 DEF Shape, WaitersTimed
<1>12. BuddiesListed(r) BY <1>6, <1>7 DEF Shape, BuddiesListed
<1>13. MarksRun(r)
  <2>1. ASSUME NEW e \in Entities, r.se[e].RESCHED = 1
        PROVE  \E d \in CPUs : r.rq[d].curr = e
    BY <2>1 DEF Shape, MarksRun
  <2>2. ASSUME NEW d \in CPUs
        PROVE  r.rq[d].NEED_RESCHED = r.se[r.rq[d].curr].RESCHED
    <3>1. r.rq[d].curr = s.rq[d].curr /\ r.rq[d].NEED_RESCHED = s.rq[d].NEED_RESCHED
      OBVIOUS
    <3>2. r.se[s.rq[d].curr].RESCHED = s.se[s.rq[d].curr].RESCHED BY <1>4
    <3> QED BY <3>1, <3>2 DEF Shape, MarksRun
  <2> QED BY <2>1, <2>2 DEF MarksRun
<1>14. TasksOnRq(r) BY <1>1 DEF Shape, TasksOnRq
<1>15. Departed(s, r, c, t) BY <1>1, <1>6, <1>7 DEF Departed
<1>16. \A d \in CPUs : WorkMarked(s, d) => WorkMarked(r, d)
  <2>1. s.rq[c].nr_running \in Int BY Counters DEF ULong
  <2> QED BY <2>1 DEF WorkMarked
<1>17. Weighed(r)
  <2>1. ASSUME NEW d \in CPUs \ {c}
        PROVE  LET sum == SumFunctionOnSet(Weight, Listed(r, d))
               IN  r.cfs[d].weight >= sum /\ r.cfs[d].runnable_weight = sum
    BY <1>7, ListedSum DEF Shape, Weighed, NoLighter
  <2>2. LET sum == SumFunctionOnSet(Weight, Listed(r, c))
        IN  r.cfs[c].weight >= sum /\ r.cfs[c].runnable_weight = sum
    <3> DEFINE sum == SumFunctionOnSet(Weight, Listed(s, c))
    <3>1. /\ IsFiniteSet(Listed(s, c)) /\ Listed(s, c) \subseteq Tasks
          /\ \A u \in Entities : Weight[u] \in Int
          /\ sum \in Int
      BY ListedSum
    <3>2. SumFunctionOnSet(Weight, Listed(s, c) \ {t}) = sum - Weight[t]
      BY <1>1, ListedSumMoves
    <3>3. s.cfs[c].weight >= sum /\ s.cfs[c].runnable_weight = sum
      BY DEF Shape, Weighed
    <3> HIDE DEF sum
    <3>4. /\ r.cfs[c].runnable_weight = s.cfs[c].runnable_weight - Weight[t]
          /\ \A k \in Int : s.cfs[c].weight >= k => r.cfs[c].weight >= k - Weight[t]
      <4>1. Dequeued(q, r, c, t, 1) BY DEF q
      <4> QED BY <1>2, <4>1 DEF Dequeued, Shape, Live, Stopped
    <3> QED BY <1>6, <3>1, <3>2, <3>3, <3>4
  <2> QED BY <2>1, <2>2 DEF Weighed
<1> QED BY <1>9, <1>10, <1>11, <1>12, <1>13, <1>14, <1>15, <1>16, <1>17 DEF Shape

-----------------------------------------------------------------------------
(* Marking, preemption and the tick.                                       *)

\* A step that only marks the running task of c, forgets buddies or counts.
Marks(s, r, c) ==
    /\ Shape(r) /\ Stays(s, r)
    /\ \A d \in CPUs \ {c} : WorkMarked(s, d) => WorkMarked(r, d)

\* Marking composes.
LEMMA MarksTrans ==
    ASSUME NEW s, NEW q, NEW r, NEW c \in CPUs, Marks(s, q, c), Marks(q, r, c)
    PROVE  Marks(s, r, c)
BY DEF Marks, Stays

LEMMA SameMarks ==
    ASSUME NEW s \in Images, NEW r \in Images, Shape(s), Same(s, r), ~Stopped(r),
           NEW c \in CPUs
    PROVE  Marks(s, r, c) /\ (WorkMarked(s, c) => WorkMarked(r, c))
BY SameShape DEF Marks

\* resched_curr tells the task and the run queue.
LEMMA MarkCurr ==
    ASSUME NEW s \in Images, NEW c \in CPUs, Shape(s)
    PROVE  LET r == resched_curr(s, c)
           IN  Marks(s, r, c) /\ WorkMarked(r, c) /\ r.fault = s.fault
<1> DEFINE e == s.rq[c].curr
           r == resched_curr(s, c)
<1>1. e \in Entities BY DEF Images, RqType
<1>2. CASE need_resched(s, c)
  <2>1. r = s BY <1>2 DEF resched_curr
  <2>2. s.rq[c].NEED_RESCHED = 1 BY <1>2 DEF need_resched, Shape, MarksRun
  <2> QED BY <2>1, <2>2 DEF Marks, Stays, WorkMarked
<1>3. CASE ~need_resched(s, c)
  <2>1. /\ r.cfs = s.cfs /\ r.tl = s.tl /\ r.fault = s.fault
        /\ \A d \in CPUs : /\ r.rq[d].curr = s.rq[d].curr
                           /\ r.rq[d].nr_running = s.rq[d].nr_running
                           /\ r.rq[d].cfs_tasks = s.rq[d].cfs_tasks
                           /\ d # c => r.rq[d].NEED_RESCHED = s.rq[d].NEED_RESCHED
        /\ r.rq[c].NEED_RESCHED = 1
        /\ \A x \in Entities : /\ r.se[x].on_rq = s.se[x].on_rq
                               /\ r.se[x].task_on_rq = s.se[x].task_on_rq
                               /\ x # e => r.se[x].RESCHED = s.se[x].RESCHED
        /\ r.se[e].RESCHED = 1
    BY <1>1, <1>3 DEF resched_curr, Images, SeImages, SeType, RqType
  <2> HIDE DEF r
  <2>2. \A d \in CPUs : Listed(r, d) = Listed(s, d) BY <2>1 DEF Listed
  <2>3. \A t \in Tasks : t \in Entities BY DEF Entities
  <2>4. \A d \in CPUs : s.rq[d].curr \in Entities BY DEF Images, RqType
  <2>5. \A d \in CPUs \ {c} : s.rq[d].curr # e
    <3> SUFFICES ASSUME NEW d \in CPUs \ {c} PROVE s.rq[d].curr # e OBVIOUS
    <3>1. e = idle[c] \/ e \in Listed(s, c) BY DEF Shape, CurrListed
    <3>2. s.rq[d].curr = idle[d] \/ s.rq[d].curr \in Listed(s, d)
      BY DEF Shape, CurrListed
    <3>3. Listed(s, c) \cap Listed(s, d) = {} BY DEF Shape, Accounted
    <3>4. Listed(s, c) \subseteq Tasks /\ Listed(s, d) \subseteq Tasks BY ShapeCurr
    <3> QED BY <3>1, <3>2, <3>3, <3>4, IdleAssumption
  <2>6. Live(r) BY <2>1 DEF Shape, Live, Stopped
  <2>7. Accounted(r) BY <2>1, <2>2, <2>3 DEF Shape, Accounted
  <2>8. CurrListed(r) BY <2>1, <2>2 DEF Shape, CurrListed
  <2>9. WaitersTimed(r) BY <2>1, <2>2 DEF Shape, WaitersTimed
  <2>10. BuddiesListed(r) BY <2>1, <2>2 DEF Shape, BuddiesListed
  <2>11. MarksRun(r)
    <3>1. ASSUME NEW x \in Entities, r.se[x].RESCHED = 1
          PROVE  \E d \in CPUs : r.rq[d].curr = x
      <4>1. CASE x = e BY <2>1, <4>1
      <4>2. CASE x # e BY <2>1, <3>1, <4>2 DEF Shape, MarksRun
      <4> QED BY <4>1, <4>2
    <3>2. ASSUME NEW d \in CPUs
          PROVE  r.rq[d].NEED_RESCHED = r.se[r.rq[d].curr].RESCHED
      <4>1. CASE d = c BY <2>1, <4>1
      <4>2. CASE d # c BY <2>1, <2>4, <2>5, <4>2 DEF Shape, MarksRun
      <4> QED BY <4>1, <4>2
    <3> QED BY <3>1, <3>2 DEF MarksRun
  <2>12. TasksOnRq(r) BY <2>1, <2>3 DEF Shape, TasksOnRq
  <2>13. Stays(s, r) BY <2>1, <2>2, <2>3 DEF Stays
  <2>14. WorkMarked(r, c) /\ \A d \in CPUs \ {c} : WorkMarked(s, d) => WorkMarked(r, d)
    BY <2>1 DEF WorkMarked
  <2>15. Weighed(r) BY <2>1, <2>2 DEF Shape, Weighed
  <2>16. Shape(r) BY <2>6, <2>7, <2>8, <2>9, <2>10, <2>11, <2>12, <2>15 DEF Shape
  <2>17. Marks(s, r, c) BY <2>13, <2>14, <2>16 DEF Marks
  <2> QED BY <2>1, <2>14, <2>17 DEF r
<1> QED BY <1>2, <1>3

\* The buddy of c is forgotten, or becomes another waiting task of c.
LEMMA MarkNext ==
    ASSUME NEW s \in Images, NEW c \in CPUs, Shape(s), NEW t \in Tasks \cup {NULL},
           t # NULL => t \in Listed(s, c) \ {s.cfs[c].curr}
    PROVE  LET r == [s EXCEPT !.cfs[c].next = t]
           IN  Marks(s, r, c) /\ (WorkMarked(s, c) => WorkMarked(r, c)) /\ r.fault = s.fault
<1> DEFINE r == [s EXCEPT !.cfs[c].next = t]
<1>1. /\ r.rq = s.rq /\ r.se = s.se /\ r.tl = s.tl /\ r.fault = s.fault
      /\ \A d \in CPUs : /\ r.cfs[d].curr = s.cfs[d].curr
                         /\ r.cfs[d].nr_running = s.cfs[d].nr_running
                         /\ r.cfs[d].weight = s.cfs[d].weight
                         /\ r.cfs[d].runnable_weight = s.cfs[d].runnable_weight
                         /\ d # c => r.cfs[d].next = s.cfs[d].next
      /\ r.cfs[c].next = t
  BY DEF Images, CfsType
<1> HIDE DEF r
<1>2. \A d \in CPUs : Listed(r, d) = Listed(s, d) BY <1>1 DEF Listed
<1>3. Live(r) /\ Accounted(r) /\ CurrListed(r) /\ WaitersTimed(r)
  BY <1>1, <1>2 DEF Shape, Live, Stopped, Accounted, CurrListed, WaitersTimed
<1>4. BuddiesListed(r) BY <1>1, <1>2 DEF Shape, BuddiesListed
<1>5. MarksRun(r) /\ TasksOnRq(r) BY <1>1 DEF Shape, MarksRun, TasksOnRq
<1>6. Stays(s, r) /\ \A d \in CPUs : WorkMarked(s, d) => WorkMarked(r, d)
  BY <1>1, <1>2 DEF Stays, WorkMarked
<1>7. Weighed(r) BY <1>1, <1>2 DEF Shape, Weighed
<1>8. Marks(s, r, c) /\ (WorkMarked(s, c) => WorkMarked(r, c)) /\ r.fault = s.fault
  BY <1>1, <1>3, <1>4, <1>5, <1>6, <1>7 DEF Shape, Marks
<1> QED BY <1>8 DEF r

\* A waiting task that may take the CPU: nobody is unmarked afterwards on a CPU
\* that was idle.
LEMMA WakeupPreempts ==
    ASSUME TimelineContract, jiffies \in Nat, NEW s \in Images, NEW c \in CPUs,
           Shape(s), NEW t \in Listed(s, c), t # s.cfs[c].curr,
           ~Stopped(check_preempt_wakeup(s, c, t))
    PROVE  LET r == check_preempt_wakeup(s, c, t)
           IN  Marks(s, r, c) /\ WorkMarked(r, c)
<1> DEFINE r  == check_preempt_wakeup(s, c, t)
           s1 == update_curr(s, c)
           s2 == [s1 EXCEPT !.cfs[c].next = t]
<1>1. t \in Tasks BY ShapeCurr
<1>2. ~Stopped(s) BY DEF Shape, Live
<1>3. CASE s.rq[c].curr = idle[c]
  <2>1. r = resched_curr(s, c) BY <1>2, <1>3 DEF check_preempt_wakeup
  <2> QED BY <2>1, MarkCurr
<1>4. CASE s.rq[c].curr # idle[c]
  <2>1. WorkMarked(s, c) BY <1>4 DEF WorkMarked
  <2>2. CASE r = s BY <2>1, <2>2 DEF Marks, Stays
  <2>3. CASE r # s
    <3>1. r = s1 \/ r = resched_curr(s2, c)
      BY <1>2, <1>4, <2>3 DEF check_preempt_wakeup
    <3>2. s1 \in Images /\ Same(s, s1)
      BY UpdateCurr, SameCurr, ShapeCurr DEF Advances
    <3>3. s2.fault = s1.fault BY <3>2 DEF Images
    <3>4. s2 \in Images BY <1>1, <3>2, SetNext DEF Advances
    <3> HIDE DEF s1
    <3>5. ~Stopped(s1)
      <4>1. CASE r = s1 BY <4>1
      <4>2. CASE r = resched_curr(s2, c)
        <5>1. r.fault = s2.fault BY <3>4, <4>2 DEF resched_curr, Images
        <5> QED BY <3>3, <5>1 DEF Stopped
      <4> QED BY <3>1, <4>1, <4>2
    <3>6. Marks(s, s1, c) /\ WorkMarked(s1, c) BY <2>1, <3>2, <3>5, SameMarks
    <3>7. CASE r = s1 BY <3>6, <3>7
    <3>8. CASE r = resched_curr(s2, c)
      <4>1. Live(s) BY DEF Shape
      <4>2. t \in Listed(s1, c) \ {s1.cfs[c].curr}
        BY <3>2, <3>5, <3>6, <4>1 DEF Marks, Stays, Same, SameQueue, SameCfs, NoLighter
      <4>3. Marks(s1, s2, c)
        BY <1>1, <3>2, <3>6, <4>2, MarkNext DEF Marks
      <4> HIDE DEF s2
      <4>4. Marks(s2, r, c) /\ WorkMarked(r, c)
        BY <3>4, <3>8, <4>3, MarkCurr DEF Marks
      <4> QED BY <3>6, <4>3, <4>4, MarksTrans
    <3> QED BY <3>1, <3>7, <3>8
  <2> QED BY <2>2, <2>3
<1> QED BY <1>3, <1>4

\* sched_slice, check_preempt_tick and entity_tick below the tick.
LEMMA SameSlice ==
    ASSUME NEW s \in Images, NEW c \in CPUs, NEW e \in Entities
    PROVE  LET r == sched_slice(s, c, e).image
           IN  Same(s, r) /\ r.fault = s.fault
<1> DEFINE r == sched_slice(s, c, e).image
<1>1. PICK w \in {0, Weight[e]} : r = [s EXCEPT !.cfs[c].weight = @ + w]
  BY DEF sched_slice
<1> HIDE DEF r
<1>2. s.cfs[c].weight + w >= s.cfs[c].weight
  BY WeightAssumption DEF Images, CfsType, ULong
<1>3. \A d \in CPUs : \A n \in Int : s.cfs[d].weight >= n => r.cfs[d].weight >= n
  BY <1>1, <1>2, WeightAssumption DEF Images, CfsType, ULong
<1>4. /\ r.rq = s.rq /\ r.se = s.se /\ r.tl = s.tl /\ r.fault = s.fault
      /\ \A d \in CPUs : /\ r.cfs[d].curr = s.cfs[d].curr
                         /\ r.cfs[d].next = s.cfs[d].next
                         /\ r.cfs[d].nr_running = s.cfs[d].nr_running
                         /\ r.cfs[d].runnable_weight = s.cfs[d].runnable_weight
  BY <1>1 DEF Images, CfsType
<1>5. Same(s, r) /\ r.fault = s.fault
  BY <1>3, <1>4 DEF Same, SameQueue, SameRq, SameCfs, NoLighter, SameWaiters, SameEntity, Live, Stopped
<1> QED BY <1>5 DEF r

LEMMA TickPreempts ==
    ASSUME NEW s \in Images, NEW c \in CPUs, NEW e \in Entities,
           Sound(s), ~Stopped(check_preempt_tick(s, c, e))
    PROVE  LET r == check_preempt_tick(s, c, e) IN Sound(r) /\ Stays(s, r)
<1> DEFINE s1 == sched_slice(s, c, e).image
           s2 == resched_curr(s1, c)
           s3 == clear_buddies(s2, c, e)
           r  == check_preempt_tick(s, c, e)
<1>1. r = s3 \/ r = s1 \/ r = Crash(s1) \/ r = s2 BY DEF check_preempt_tick
<1>2. s1 \in Images /\ Same(s, s1) /\ s1.fault = s.fault
  BY SchedSlice, SameSlice DEF Advances
<1>3. ~Stopped(s1) BY <1>2 DEF Sound, Shape, Live, Stopped
<1> HIDE DEF s1
<1>4. Marks(s, s1, c) /\ WorkMarked(s1, c) BY <1>2, <1>3, SameMarks DEF Sound
<1>5. s2 \in Images BY <1>2, ReschedCurr DEF Advances
<1>6. Marks(s1, s2, c) /\ WorkMarked(s2, c) BY <1>2, <1>4, MarkCurr DEF Marks
<1> HIDE DEF s2
<1>7. Marks(s2, s3, c) /\ WorkMarked(s3, c)
  <2>1. CASE s2.cfs[c].next = e
    <3>1. s3 = [s2 EXCEPT !.cfs[c].next = NULL] BY <2>1 DEF clear_buddies
    <3> QED BY <1>5, <1>6, <3>1, MarkNext DEF Marks
  <2>2. CASE s2.cfs[c].next # e
    <3>1. s3 = s2 BY <2>2 DEF clear_buddies
    <3> QED BY <1>6, <3>1 DEF Marks, Stays
  <2> QED BY <2>1, <2>2
<1> HIDE DEF s3
<1>8. r # Crash(s1)
  <2>1. Stopped(Crash(s1)) BY <1>2, <1>3 DEF Crash, Stopped, Images
  <2> QED BY <2>1
<1> HIDE DEF r
<1>9. Marks(s, r, c) /\ WorkMarked(r, c)
  BY <1>1, <1>4, <1>6, <1>7, <1>8, MarksTrans
<1>10. Sound(r) /\ Stays(s, r) BY <1>9 DEF Marks, Sound
<1> QED BY <1>10 DEF r

\* The tick keeps the invariant.
LEMMA SoundSame ==
    ASSUME NEW s \in Images, NEW r \in Images, Sound(s), Same(s, r), ~Stopped(r)
    PROVE  Sound(r) /\ Stays(s, r)
BY SameShape DEF Sound

LEMMA TaskTicks ==
    ASSUME TimelineContract, jiffies \in Nat,
           NEW s \in Images, NEW c \in CPUs, NEW e \in Entities,
           Sound(s), ~Stopped(task_tick_fair(s, c, e))
    PROVE  LET r == task_tick_fair(s, c, e) IN Sound(r) /\ Stays(s, r)
<1> DEFINE s1 == update_curr(s, c)
           r  == task_tick_fair(s, c, e)
<1>1. r = s1 \/ r = check_preempt_tick(s1, c, e) BY DEF task_tick_fair
<1>2. s1 \in Images /\ Same(s, s1)
  BY UpdateCurr, SameCurr, ShapeCurr DEF Advances, Sound
<1> HIDE DEF s1
<1>3. ~Stopped(s1)
  <2>1. CASE r = s1 BY <2>1
  <2>2. CASE r = check_preempt_tick(s1, c, e)
    <3>1. Stopped(s1) => Stopped(check_preempt_tick(s1, c, e))
      BY <1>2 DEF check_preempt_tick, sched_slice, resched_curr, clear_buddies, Crash,
                  Stopped, Images
    <3> QED BY <2>2, <3>1
  <2> QED BY <1>1, <2>1, <2>2
<1>4. Sound(s1) /\ Stays(s, s1) BY <1>2, <1>3, SoundSame
<1>5. CASE r = s1 BY <1>4, <1>5
<1>6. CASE r = check_preempt_tick(s1, c, e)
  BY <1>2, <1>4, <1>6, TickPreempts, StaysTrans
<1> QED BY <1>1, <1>5, <1>6

\* The preemption count is not part of it.
LEMMA SameDisable ==
    ASSUME NEW s \in Images, NEW c \in CPUs
    PROVE  Same(s, preempt_disable(s, c)) /\ preempt_disable(s, c).fault = s.fault
BY DEF Same, SameQueue, SameRq, SameCfs, NoLighter, SameWaiters, SameEntity, Live, Stopped,
       preempt_disable, Images, RqType

LEMMA SameCountDec ==
    ASSUME NEW s \in Images, NEW c \in CPUs
    PROVE  Same(s, preempt_count_dec(s, c)) /\ preempt_count_dec(s, c).fault = s.fault
BY DEF Same, SameQueue, SameRq, SameCfs, NoLighter, SameWaiters, SameEntity, Live, Stopped,
       preempt_count_dec, Images, RqType

\* The tick leaves everybody where he is and every promise kept.
LEMMA TickSound ==
    ASSUME TimelineContract, jiffies \in Nat, NEW s \in Images, NEW c \in CPUs,
           Sound(s), ~Stopped(scheduler_tick(s, c))
    PROVE  LET r == scheduler_tick(s, c) IN Sound(r) /\ Stays(s, r)
<1> DEFINE s1 == preempt_disable(s, c)
           e  == s1.rq[c].curr
           s2 == task_tick_fair(s1, c, e)
           b  == IF idle_cpu(s2, c) THEN 1 ELSE 0
           r  == [s2 EXCEPT !.rq[c].idle_balance = b]
<1>1. s1 \in Images /\ Same(s, s1) /\ ~Stopped(s1)
  BY PreemptDisable, SameDisable DEF Advances, Sound, Shape, Live, Stopped
<1> HIDE DEF s1
<1>2. Sound(s1) /\ Stays(s, s1) BY <1>1, SoundSame
<1>3. e \in Entities BY <1>1 DEF Images, RqType
<1>4. s2 \in Images BY <1>1, <1>3, TaskTickFair DEF Advances
<1>5. scheduler_tick(s, c) = r BY DEF scheduler_tick, s1
<1> HIDE DEF s2, b
<1>6. Same(s2, r) /\ r.fault = s2.fault
  BY <1>4 DEF Same, SameQueue, SameRq, SameCfs, NoLighter, SameWaiters, SameEntity, Live, Stopped,
              Images, RqType
<1>7. ~Stopped(s2) /\ ~Stopped(r) BY <1>5, <1>6 DEF Stopped
<1>8. r \in Images BY <1>5, SchedulerTick DEF Advances
<1> HIDE DEF r
<1>9. Sound(s2) /\ Stays(s1, s2) BY <1>1, <1>2, <1>3, <1>7, TaskTicks DEF s2
<1>10. Sound(r) /\ Stays(s2, r) BY <1>4, <1>6, <1>7, <1>8, <1>9, SoundSame
<1> QED BY <1>2, <1>5, <1>9, <1>10, StaysTrans

-----------------------------------------------------------------------------
(* schedule.                                                               *)

\* Two CPUs do not run the same entity.
LEMMA CurrsDiffer ==
    ASSUME NEW s \in Images, Shape(s), NEW c \in CPUs, NEW d \in CPUs, c # d
    PROVE  s.rq[c].curr # s.rq[d].curr
<1>1. s.rq[c].curr = idle[c] \/ s.rq[c].curr \in Listed(s, c) BY DEF Shape, CurrListed
<1>2. s.rq[d].curr = idle[d] \/ s.rq[d].curr \in Listed(s, d) BY DEF Shape, CurrListed
<1>3. Listed(s, c) \cap Listed(s, d) = {} BY DEF Shape, Accounted
<1>4. Listed(s, c) \subseteq Tasks /\ Listed(s, d) \subseteq Tasks BY ShapeCurr
<1> QED BY <1>1, <1>2, <1>3, <1>4, IdleAssumption

\* The running task has gone back to the ones that wait.
Parked(s, r, c) ==
    /\ Live(r)
    /\ \A d \in CPUs \ {c} : SameQueue(s, r, d)
    /\ \A e \in Entities : SameEntity(s, r, e)
    /\ SameRq(s, r, c)
    /\ r.cfs[c].curr = NULL /\ r.cfs[c].next = s.cfs[c].next
    /\ r.cfs[c].nr_running = s.cfs[c].nr_running
    /\ NoLighter(s, r, c)
    /\ TLMembers(r.tl, c) = Listed(s, c)

\* put_prev_entity.
LEMMA PutPrevParks ==
    ASSUME TimelineContract, MemberContract, jiffies \in Nat,
           NEW s \in Images, NEW c \in CPUs, Shape(s),
           ~Stopped(put_prev_entity(s, c, s.rq[c].curr))
    PROVE  Parked(s, put_prev_entity(s, c, s.rq[c].curr), c)
<1> DEFINE prev == s.rq[c].curr
           s0 == update_curr(s, c)
           s1 == IF s.se[prev].on_rq = 1 THEN __enqueue_entity(s0, c, prev) ELSE s
           s2 == [s1 EXCEPT !.cfs[c].curr = NULL]
           r  == debug_tasktimeline(s2, c)
<1>1. put_prev_entity(s, c, prev) = r BY DEF put_prev_entity
<1>2. Live(s) /\ NULL \notin Tasks /\ Listed(s, c) \subseteq Tasks
  BY ShapeCurr, IdleAssumption DEF Shape, Entities
<1>3. /\ s1 \in Images
      /\ s1.fault = "none" =>
            /\ s1.tl \in ProperTimelines
            /\ \A d \in CPUs \ {c} : SameQueue(s, s1, d)
            /\ \A e \in Entities : SameEntity(s, s1, e)
            /\ SameRq(s, s1, c) /\ SameCfs(s, s1, c)
            /\ TLMembers(s1.tl, c) = Listed(s, c)
  <2>1. CASE s.se[prev].on_rq = 1
    <3>1. prev # idle[c] BY <2>1 DEF Images, SeImages
    <3>2. prev = s.cfs[c].curr /\ prev \in Listed(s, c) /\ prev \in Tasks
      BY <1>2, <3>1 DEF Shape, CurrListed
    <3>3. s0 \in Images /\ Same(s, s0)
      BY UpdateCurr, SameCurr, ShapeCurr DEF Advances
    <3>4. s1 = __enqueue_entity(s0, c, prev) BY <2>1
    <3> HIDE DEF s0, s1, prev
    <3>5. s1 \in Images BY <3>2, <3>3, <3>4, EnqueueInTree DEF Advances
    <3>6. TLMembers(s.tl, c) = Listed(s, c) \ {prev}
      BY <3>2 DEF Shape, WaitersTimed
    <3>7. Live(s0) => TLMembers(s0.tl, c) = TLMembers(s.tl, c)
      BY <1>2, <3>3 DEF Same, SameQueue, SameWaiters, Live
    <3>8. Retimed(s0, s1, c, TLMembers(s0.tl, c) \cup {prev})
      BY <3>2, <3>3, <3>4, <3>6, <3>7, TreeInsert
    <3>9. s1.fault = "none" => Live(s0)
      BY <1>2, <3>3, <3>8 DEF Same, Retimed, Live, Stopped
    <3>10. ASSUME s1.fault = "none"
           PROVE  /\ s1.tl \in ProperTimelines
                  /\ s1.rq = s0.rq /\ s1.cfs = s0.cfs /\ s1.se = s0.se
                  /\ \A d \in CPUs \ {c} : SameWaiters(s0, s1, d)
                  /\ TLMembers(s1.tl, c) = Listed(s, c)
                  /\ \A d \in CPUs : SameQueue(s, s0, d)
                  /\ \A e \in Entities : SameEntity(s, s0, e)
      <4>1. Live(s0) /\ ~Stopped(s0) /\ ~Stopped(s1) BY <3>9, <3>10 DEF Live, Stopped
      <4>2. TLMembers(s1.tl, c) = (Listed(s, c) \ {prev}) \cup {prev}
        BY <3>6, <3>7, <3>8, <4>1 DEF Retimed
      <4> QED BY <1>2, <3>2, <3>3, <3>8, <4>1, <4>2 DEF Same, Retimed, SameWaiters
    <3> QED
      BY <3>5, <3>10 DEF SameQueue, SameRq, SameCfs, NoLighter, SameWaiters, SameEntity
  <2>2. CASE s.se[prev].on_rq # 1
    <3>1. prev \notin Listed(s, c) BY <2>2, ShapeCurr
    <3>2. s.cfs[c].curr = NULL BY <3>1 DEF Shape, CurrListed
    <3>3. TLMembers(s.tl, c) = Listed(s, c) BY <1>2, <3>2 DEF Shape, WaitersTimed
    <3>4. s1 = s BY <2>2
    <3> QED BY <1>2, <3>3, <3>4
      DEF SameQueue, SameRq, SameCfs, NoLighter, SameWaiters, SameEntity, Live
  <2> QED BY <2>1, <2>2
<1> HIDE DEF s1
<1>4. /\ s2.rq = s1.rq /\ s2.se = s1.se /\ s2.tl = s1.tl /\ s2.fault = s1.fault
      /\ \A d \in CPUs \ {c} : s2.cfs[d] = s1.cfs[d]
      /\ s2.cfs[c].curr = NULL /\ s2.cfs[c].next = s1.cfs[c].next
      /\ s2.cfs[c].nr_running = s1.cfs[c].nr_running
      /\ s2.cfs[c].weight = s1.cfs[c].weight
      /\ s2.cfs[c].runnable_weight = s1.cfs[c].runnable_weight
  BY <1>3 DEF Images, CfsType
<1>5. s2 \in Images BY <1>3, SetCurr DEF Advances
<1> HIDE DEF s2
<1>6. Same(s2, r) BY <1>5, SameWalk
<1>7. ~Stopped(r) /\ s1.fault = "none" BY <1>1, <1>4, <1>6 DEF Same, Stopped
<1>8. Live(s2) BY <1>3, <1>4, <1>7 DEF Live, Stopped
<1> HIDE DEF r
<1>9. Parked(s, r, c)
  BY <1>3, <1>4, <1>6, <1>7, <1>8
  DEF Parked, Same, SameQueue, SameRq, SameCfs, NoLighter, SameWaiters, SameEntity, Live
<1> QED BY <1>1, <1>9

\* The next task, if there is one, waited on this CPU.
LEMMA PickIsListed ==
    ASSUME MemberContract, NEW s, NEW r \in Images, NEW c \in CPUs,
           Shape(s), Parked(s, r, c), pick_next_entity(r, c) # NULL
    PROVE  pick_next_entity(r, c) \in Listed(s, c)
<1>1. r.tl \in ProperTimelines BY DEF Parked, Live
<1>2. TLFirst(r.tl, c) # NULL => TLFirst(r.tl, c) \in Listed(s, c)
  BY <1>1 DEF MemberContract, Parked
<1>3. r.cfs[c].next # NULL => r.cfs[c].next \in Listed(s, c)
  BY DEF Parked, Shape, BuddiesListed
<1> QED BY <1>2, <1>3 DEF pick_next_entity

\* The queue of c is ready for n to run on it.
Chosen(s, r, c, n) ==
    /\ Live(r)
    /\ \A d \in CPUs \ {c} : SameQueue(s, r, d)
    /\ \A e \in Entities : SameEntity(s, r, e)
    /\ r.rq[c].nr_running = s.rq[c].nr_running
    /\ r.cfs[c].nr_running = s.cfs[c].nr_running
    /\ NoLighter(s, r, c)
    /\ Len(r.rq[c].cfs_tasks) = Len(s.rq[c].cfs_tasks)
    /\ IsInjective(r.rq[c].cfs_tasks) /\ Listed(r, c) = Listed(s, c)
    /\ \/ n = idle[c] /\ r.cfs[c].curr = NULL /\ Listed(s, c) = {}
       \/ n = r.cfs[c].curr /\ n \in Listed(s, c)
    /\ TLMembers(r.tl, c) = Listed(s, c) \ {r.cfs[c].curr}
    /\ r.cfs[c].next # NULL => r.cfs[c].next \in Listed(s, c) \ {r.cfs[c].curr}

\* clear_buddies, set_next_entity and move_to_front_cfs_tasks.
LEMMA SetNextChooses ==
    ASSUME TimelineContract, MemberContract, jiffies \in Nat,
           NEW s \in Images, NEW q \in Images, NEW c \in CPUs, Shape(s), Parked(s, q, c),
           NEW e \in Listed(s, c),
           ~Stopped(move_to_front_cfs_tasks(
                        set_next_entity(clear_buddies(q, c, e), c, e), c, e))
    PROVE  Chosen(s, move_to_front_cfs_tasks(
                        set_next_entity(clear_buddies(q, c, e), c, e), c, e), c, e)
<1> DEFINE q1 == clear_buddies(q, c, e)
           s1 == IF q1.se[e].on_rq = 1 THEN __dequeue_entity(q1, c, e) ELSE q1
           s2 == [s1 EXCEPT !.se[e].exec_start = ExecStamp,
                            !.se[e].prev_sum_exec_runtime = s1.se[e].sum_exec_runtime,
                            !.cfs[c].curr = e]
           s3 == debug_tasktimeline(s2, c)
           r  == move_to_front_cfs_tasks(s3, c, e)
<1>1. e \in Tasks /\ e \in Entities /\ s.se[e].on_rq = 1 /\ e # NULL
  BY ShapeCurr, IdleAssumption DEF Entities
<1>2. s3 = set_next_entity(q1, c, e) BY DEF set_next_entity
<1> q1 \in Images BY ClearBuddies DEF Advances
<1>3. /\ q1.rq = q.rq /\ q1.se = q.se /\ q1.tl = q.tl /\ q1.fault = q.fault
      /\ \A d \in CPUs \ {c} : q1.cfs[d] = q.cfs[d]
      /\ q1.cfs[c].nr_running = q.cfs[c].nr_running
      /\ q1.cfs[c].weight = q.cfs[c].weight
      /\ q1.cfs[c].runnable_weight = q.cfs[c].runnable_weight
      /\ q1.cfs[c].next = IF q.cfs[c].next = e THEN NULL ELSE q.cfs[c].next
  BY DEF clear_buddies, Images, CfsType
<1>4. q1.se[e].on_rq = 1 BY <1>1, <1>3 DEF Parked, SameEntity
<1> HIDE DEF q1
<1>5. Live(q1) /\ TLMembers(q1.tl, c) = Listed(s, c)
  BY <1>3 DEF Parked, Live, Stopped
<1>6. s1 \in Images /\ Retimed(q1, s1, c, Listed(s, c) \ {e})
  BY <1>1, <1>3, <1>4, <1>5, TreeErase, DequeueFromTree DEF Advances
<1> HIDE DEF s1
<1>7. /\ s2.rq = s1.rq /\ s2.tl = s1.tl /\ s2.fault = s1.fault
      /\ \A x \in Entities : SameEntity(s1, s2, x)
      /\ \A d \in CPUs \ {c} : s2.cfs[d] = s1.cfs[d]
      /\ s2.cfs[c].curr = e /\ s2.cfs[c].next = s1.cfs[c].next
      /\ s2.cfs[c].nr_running = s1.cfs[c].nr_running
      /\ s2.cfs[c].weight = s1.cfs[c].weight
      /\ s2.cfs[c].runnable_weight = s1.cfs[c].runnable_weight
  BY <1>1, <1>6 DEF Images, SeImages, SeType, CfsType, SameEntity
<1>8. s2 \in Images
  <2> DEFINE x  == [s1.se[e] EXCEPT !.exec_start = ExecStamp,
                                   !.prev_sum_exec_runtime = s1.se[e].sum_exec_runtime]
             r1 == [s1 EXCEPT !.se = [s1.se EXCEPT ![e] = x]]
  <2>1. ExecStamp \in ULong BY DEF ExecStamp, jiffies_to_msecs, ULong
  <2>2. s1.se[e] \in SeType BY <1>1, <1>6 DEF Images, SeImages
  <2>3. x \in SeType BY <2>1, <2>2 DEF SeType
  <2>4. s2 = [r1 EXCEPT !.cfs[c].curr = e] BY <1>1, <1>6 DEF Images, SeImages
  <2> HIDE DEF x, s2
  <2>5. r1 \in Images BY <1>1, <1>6, <2>3, SetSe DEF Advances
  <2> HIDE DEF r1
  <2> QED BY <1>1, <2>4, <2>5, SetCurr DEF Advances
<1> HIDE DEF s2
<1>9. s3 \in Images /\ Same(s2, s3) BY <1>8, SameWalk, PrintTree DEF Advances
<1> HIDE DEF s3
<1>10. /\ r.cfs = s3.cfs /\ r.se = s3.se /\ r.tl = s3.tl /\ r.fault = s3.fault
       /\ \A d \in CPUs \ {c} : r.rq[d] = s3.rq[d]
       /\ r.rq[c].nr_running = s3.rq[c].nr_running
       /\ r.rq[c].cfs_tasks = Cons(e, RemoveFirst(s3.rq[c].cfs_tasks, e))
  BY <1>9 DEF move_to_front_cfs_tasks, Images, RqType
<1>11. ~Stopped(r) BY <1>2 DEF q1
<1> HIDE DEF r
<1>12. ~Stopped(s3) /\ ~Stopped(s2) /\ ~Stopped(s1)
  BY <1>7, <1>9, <1>10, <1>11 DEF Same, Stopped
<1>13. Live(s2) /\ TLMembers(s2.tl, c) = Listed(s, c) \ {e}
       /\ \A d \in CPUs \ {c} : TLMembers(s2.tl, d) = TLMembers(q1.tl, d)
  BY <1>5, <1>6, <1>7, <1>12 DEF Retimed, Live
<1>14. Live(r) BY <1>9, <1>10, <1>11, <1>12, <1>13 DEF Same, Live
<1>15. /\ \A d \in CPUs : SameQueue(s2, s3, d)
       /\ \A x \in Entities : SameEntity(s2, s3, x)
  BY <1>9, <1>12, <1>13 DEF Same
<1>16. /\ \A d \in CPUs \ {c} : SameQueue(s, r, d)
       /\ \A x \in Entities : SameEntity(s, r, x)
  <2>1. ASSUME NEW d \in CPUs \ {c} PROVE SameQueue(s, r, d)
    <3>1. SameQueue(s, q, d) BY DEF Parked
    <3>2. s2.rq = q.rq /\ s2.cfs[d] = q.cfs[d] /\ TLMembers(s2.tl, d) = TLMembers(q.tl, d)
      BY <1>3, <1>6, <1>7, <1>13 DEF Retimed
    <3>3. SameQueue(s2, s3, d) BY <1>15
    <3>4. r.rq[d] = s3.rq[d] /\ r.cfs[d] = s3.cfs[d] /\ r.tl = s3.tl BY <1>10
    <3> QED BY <3>1, <3>2, <3>3, <3>4 DEF SameQueue, SameRq, SameCfs, NoLighter, SameWaiters
  <2>2. ASSUME NEW x \in Entities PROVE SameEntity(s, r, x)
    <3>1. SameEntity(s, q, x) BY DEF Parked
    <3>2. s1.se = q.se /\ SameEntity(s1, s2, x) BY <1>3, <1>6, <1>7 DEF Retimed
    <3>3. SameEntity(s2, s3, x) BY <1>15
    <3> QED BY <1>10, <3>1, <3>2, <3>3 DEF SameEntity
  <2> QED BY <2>1, <2>2
<1>17. /\ s3.rq[c].nr_running = s.rq[c].nr_running
       /\ s3.rq[c].cfs_tasks = s.rq[c].cfs_tasks
       /\ s3.cfs[c].nr_running = s.cfs[c].nr_running
       /\ s3.cfs[c].curr = e
       /\ s3.cfs[c].next = IF s.cfs[c].next = e THEN NULL ELSE s.cfs[c].next
       /\ TLMembers(s3.tl, c) = Listed(s, c) \ {e}
  <2>1. SameRq(s, q, c) /\ q.cfs[c].next = s.cfs[c].next
        /\ q.cfs[c].nr_running = s.cfs[c].nr_running
    BY DEF Parked
  <2>2. /\ s2.rq = q.rq /\ s2.cfs[c].next = q1.cfs[c].next
        /\ s2.cfs[c].nr_running = q.cfs[c].nr_running
    BY <1>3, <1>6, <1>7 DEF Retimed
  <2>3. SameQueue(s2, s3, c) BY <1>15
  <2> QED BY <1>3, <1>7, <1>13, <2>1, <2>2, <2>3 DEF SameQueue, SameRq, SameCfs, NoLighter, SameWaiters
<1>18. /\ Len(r.rq[c].cfs_tasks) = Len(s.rq[c].cfs_tasks)
       /\ IsInjective(r.rq[c].cfs_tasks) /\ Listed(r, c) = Listed(s, c)
  <2>1. s.rq[c].cfs_tasks \in Seq(Tasks) BY DEF Images, RqType
  <2>2. IsInjective(s.rq[c].cfs_tasks) BY DEF Shape, Accounted
  <2> QED BY <1>10, <1>17, <2>1, <2>2, FrontElements DEF Listed
<1>19. r.cfs[c].next # NULL => r.cfs[c].next \in Listed(s, c) \ {e}
  BY <1>10, <1>17 DEF Shape, BuddiesListed
<1>20. NoLighter(s, r, c)
  <2>1. NoLighter(s, q, c) BY DEF Parked
  <2>2. s2.cfs[c].weight = q.cfs[c].weight
        /\ s2.cfs[c].runnable_weight = q.cfs[c].runnable_weight
    BY <1>3, <1>6, <1>7 DEF Retimed
  <2>3. NoLighter(s2, s3, c) BY <1>15 DEF SameQueue, SameCfs
  <2> QED BY <1>10, <2>1, <2>2, <2>3 DEF NoLighter
<1>21. Chosen(s, r, c, e)
  BY <1>10, <1>14, <1>16, <1>17, <1>18, <1>19, <1>20 DEF Chosen
<1> QED BY <1>2, <1>21 DEF r, q1

\* The CPU changes over to the next task: nobody on it is marked any more.
Switched(s, q, c, n) ==
    [q EXCEPT !.se[s.rq[c].curr].RESCHED = 0, !.rq[c].NEED_RESCHED = 0, !.rq[c].curr = n]

\* The previous task goes back to the timeline, the chosen one leaves it.
LEMMA SwitchSound ==
    ASSUME NEW s \in Images, NEW q \in Images, NEW c \in CPUs, NEW n,
           Sound(s), Chosen(s, q, c, n)
    PROVE  LET r == Switched(s, q, c, n)
           IN  /\ Sound(r) /\ Stays(s, r) /\ r.rq[c].NEED_RESCHED = 0
               /\ r.rq[c].curr = idle[c] <=> r.rq[c].nr_running = 0
<1> DEFINE prev == s.rq[c].curr
           r == Switched(s, q, c, n)
<1>1. /\ prev \in Entities /\ \A u \in Tasks : u \in Entities
      /\ \A d \in CPUs : s.rq[d].curr \in Entities /\ s.rq[d].cfs_tasks \in Seq(Tasks)
  BY DEF Images, RqType, Entities
<1>2. /\ r.cfs = q.cfs /\ r.tl = q.tl /\ r.fault = q.fault
      /\ \A d \in CPUs \ {c} : r.rq[d] = q.rq[d]
      /\ r.rq[c].curr = n /\ r.rq[c].NEED_RESCHED = 0
      /\ r.rq[c].nr_running = q.rq[c].nr_running
      /\ r.rq[c].cfs_tasks = q.rq[c].cfs_tasks
      /\ r.se[prev].RESCHED = 0
      /\ \A e \in Entities : /\ r.se[e].on_rq = q.se[e].on_rq
                             /\ r.se[e].task_on_rq = q.se[e].task_on_rq
                             /\ r.se[e].RESCHED \in {q.se[e].RESCHED, 0}
                             /\ e # prev => r.se[e].RESCHED = q.se[e].RESCHED
  BY <1>1 DEF Switched, Images, SeImages, SeType, RqType
<1> HIDE DEF prev, r
<1>3. \A d \in CPUs : Listed(r, d) = Listed(s, d)
  BY <1>2 DEF Listed, Chosen, SameQueue, SameRq
<1>4. \A d \in CPUs \ {c} : s.rq[d].curr # prev /\ s.rq[d].curr # n
  <2>1. ASSUME NEW d \in CPUs \ {c} PROVE s.rq[d].curr # n
    <3>1. s.rq[d].curr = idle[d] \/ s.rq[d].curr \in Listed(s, d)
      BY DEF Sound, Shape, CurrListed
    <3>2. n = idle[c] \/ n \in Listed(s, c) BY DEF Chosen
    <3>3. Listed(s, c) \cap Listed(s, d) = {} BY DEF Sound, Shape, Accounted
    <3>4. Listed(s, c) \subseteq Tasks /\ Listed(s, d) \subseteq Tasks
      BY ShapeCurr DEF Sound
    <3> QED BY <3>1, <3>2, <3>3, <3>4, IdleAssumption
  <2> QED BY <2>1, CurrsDiffer DEF Sound, prev
<1>5. n \in Entities
  <2>1. Listed(s, c) \subseteq Tasks BY ShapeCurr DEF Sound
  <2> QED BY <2>1 DEF Chosen, Entities
<1> USE DEF SameQueue, SameRq, SameCfs, NoLighter, SameWaiters, SameEntity
<1>6. Live(r) BY <1>2 DEF Chosen, Live, Stopped
<1>7. Accounted(r)
  <2>1. ASSUME NEW d \in CPUs
        PROVE  /\ r.rq[d].nr_running = Len(r.rq[d].cfs_tasks)
               /\ r.cfs[d].nr_running = Len(r.rq[d].cfs_tasks)
               /\ IsInjective(r.rq[d].cfs_tasks)
    <3>1. /\ s.rq[d].nr_running = Len(s.rq[d].cfs_tasks)
          /\ s.cfs[d].nr_running = Len(s.rq[d].cfs_tasks)
          /\ IsInjective(s.rq[d].cfs_tasks)
      BY DEF Sound, Shape, Accounted
    <3>2. CASE d = c BY <1>2, <3>1, <3>2 DEF Chosen
    <3>3. CASE d # c BY <1>2, <3>1, <3>3 DEF Chosen
    <3> QED BY <3>2, <3>3
  <2>2. ASSUME NEW u \in Tasks
        PROVE  r.se[u].on_rq = 1 <=> \E d \in CPUs : u \in Listed(r, d)
    <3>1. r.se[u].on_rq = s.se[u].on_rq BY <1>1, <1>2 DEF Chosen
    <3>2. s.se[u].on_rq = 1 <=> \E d \in CPUs : u \in Listed(s, d)
      BY DEF Sound, Shape, Accounted
    <3> QED BY <1>3, <3>1, <3>2
  <2> QED BY <1>3, <2>1, <2>2 DEF Sound, Shape, Accounted
<1>8. CurrListed(r) BY <1>2, <1>3 DEF Sound, Shape, CurrListed, Chosen
<1>9. WaitersTimed(r) BY <1>2, <1>3 DEF Sound, Shape, WaitersTimed, Chosen
<1>10. BuddiesListed(r) BY <1>2, <1>3 DEF Sound, Shape, BuddiesListed, Chosen
<1>11. \A e \in Entities : s.se[e].RESCHED = 1 => \E d \in CPUs : s.rq[d].curr = e
  BY DEF Sound, Shape, MarksRun
<1>12. MarksRun(r)
  <2>1. ASSUME NEW e \in Entities, r.se[e].RESCHED = 1
        PROVE  \E d \in CPUs : r.rq[d].curr = e
    <3>1. e # prev /\ s.se[e].RESCHED = 1 BY <1>2, <2>1 DEF Chosen
    <3>2. PICK d \in CPUs : s.rq[d].curr = e BY <1>11, <3>1
    <3>3. d # c BY <3>1, <3>2 DEF prev
    <3> QED BY <1>2, <3>2, <3>3 DEF Chosen
  <2>2. ASSUME NEW d \in CPUs
        PROVE  r.rq[d].NEED_RESCHED = r.se[r.rq[d].curr].RESCHED
    <3>1. CASE d # c
      <4>1. r.rq[d].curr = s.rq[d].curr /\ r.rq[d].NEED_RESCHED = s.rq[d].NEED_RESCHED
        BY <1>2, <3>1 DEF Chosen
      <4>2. r.se[s.rq[d].curr].RESCHED = s.se[s.rq[d].curr].RESCHED
        BY <1>1, <1>2, <1>4, <3>1 DEF Chosen
      <4>3. s.rq[d].NEED_RESCHED = s.se[s.rq[d].curr].RESCHED
        BY DEF Sound, Shape, MarksRun
      <4> QED BY <4>1, <4>2, <4>3
    <3>2. CASE d = c
      <4>1. CASE n = prev BY <1>2, <3>2, <4>1
      <4>2. CASE n # prev
        <5>1. s.se[n].RESCHED # 1
          <6> SUFFICES ASSUME s.se[n].RESCHED = 1 PROVE FALSE OBVIOUS
          <6>1. PICK x \in CPUs : s.rq[x].curr = n BY <1>5, <1>11
          <6> QED BY <1>4, <4>2, <6>1 DEF prev
        <5>2. s.se[n].RESCHED = 0 BY <1>5, <5>1 DEF Images, SeImages, SeType, Bit
        <5> QED BY <1>2, <1>5, <3>2, <5>2 DEF Chosen
      <4> QED BY <4>1, <4>2
    <3> QED BY <3>1, <3>2
  <2> QED BY <2>1, <2>2 DEF MarksRun
<1>13. TasksOnRq(r) BY <1>1, <1>2 DEF Sound, Shape, TasksOnRq, Chosen
<1>14. Stays(s, r) BY <1>1, <1>2, <1>3 DEF Stays, Chosen
<1>15. r.rq[c].curr = idle[c] <=> r.rq[c].nr_running = 0
  <2>1. s.rq[c].cfs_tasks \in Seq(Tasks) BY <1>1
  <2>2. s.rq[c].nr_running = 0 <=> Listed(s, c) = {}
    <3>1. s.rq[c].nr_running = Len(s.rq[c].cfs_tasks) BY DEF Sound, Shape, Accounted
    <3> QED BY <2>1, <3>1, EmptyElements DEF Listed
  <2>3. Listed(s, c) \subseteq Tasks BY ShapeCurr DEF Sound
  <2> QED BY <1>2, <2>2, <2>3, IdleAssumption DEF Chosen
<1>16. \A d \in CPUs : WorkMarked(r, d)
  <2>1. ASSUME NEW d \in CPUs \ {c} PROVE WorkMarked(r, d)
    BY <1>2 DEF Sound, WorkMarked, Chosen
  <2>2. WorkMarked(r, c) BY <1>15 DEF WorkMarked
  <2> QED BY <2>1, <2>2
<1>17. Weighed(r)
  <2>1. \A d \in CPUs : NoLighter(s, r, d) BY <1>2 DEF Chosen
  <2> QED BY <1>3, <2>1, WeighedStays DEF Sound, Shape
<1>18. Sound(r)
  BY <1>6, <1>7, <1>8, <1>9, <1>10, <1>12, <1>13, <1>16, <1>17 DEF Sound, Shape
<1> QED BY <1>2, <1>14, <1>15, <1>18 DEF r, prev

\* One round of schedule leaves nobody marked on its CPU, and lets it idle only
\* if no task is queued.
LEMMA ScheduleOnceSound ==
    ASSUME TimelineContract, MemberContract, jiffies \in Nat,
           NEW s \in Images, NEW c \in CPUs, Sound(s), ~Stopped(__schedule(s, c))
    PROVE  LET r == __schedule(s, c)
           IN  /\ Sound(r) /\ Stays(s, r) /\ r.rq[c].NEED_RESCHED = 0
               /\ r.rq[c].curr = idle[c] <=> r.rq[c].nr_running = 0
<1> DEFINE prev == s.rq[c].curr
           some == s.rq[c].nr_running # 0
           q    == IF some THEN pick_next_task_fair(s, c, prev) ELSE s
           n    == IF some THEN q.cfs[c].curr ELSE idle[c]
           r    == __schedule(s, c)
<1>1. prev \in Entities BY DEF Images, RqType
<1>2. r = IF Stopped(q) THEN q ELSE Switched(s, q, c, n)
  BY DEF __schedule, Switched
<1>3. ~Stopped(q) BY <1>2
<1>4. q \in Images BY <1>1, PickNextTask DEF Advances
<1> HIDE DEF r
<1>5. Chosen(s, q, c, n)
  <2>1. CASE some
    <3> DEFINE s1 == put_prev_entity(s, c, prev)
               e  == pick_next_entity(s1, c)
               s2 == move_to_front_cfs_tasks(
                        set_next_entity(clear_buddies(s1, c, e), c, e), c, e)
    <3>1. q = IF Stopped(s1) THEN s1 ELSE IF e = NULL THEN Crash(s1) ELSE s2
      BY <2>1 DEF pick_next_task_fair
    <3>2. s1 \in Images BY <1>1, PutPrevEntity DEF Advances
    <3>3. ~Stopped(s1) BY <1>3, <3>1
    <3>4. e # NULL
      <4>1. Stopped(Crash(s1)) BY <3>2, <3>3 DEF Crash, Stopped, Images
      <4> QED BY <1>3, <3>1, <3>3, <4>1
    <3>5. Parked(s, s1, c) BY <3>3, PutPrevParks DEF Sound
    <3> HIDE DEF s1
    <3>6. e \in Listed(s, c) BY <3>2, <3>4, <3>5, PickIsListed DEF Sound
    <3>7. q = s2 BY <3>1, <3>3, <3>4
    <3> HIDE DEF e
    <3>8. Chosen(s, s2, c, e) BY <1>3, <3>2, <3>5, <3>6, <3>7, SetNextChooses DEF Sound
    <3> HIDE DEF q, s2
    <3>9. s2.cfs[c].curr = e
      <4>1. Listed(s, c) # {} BY <3>6
      <4> QED BY <3>8, <4>1 DEF Chosen
    <3>10. q.cfs[c].curr = e BY <3>7, <3>9
    <3> QED BY <2>1, <3>7, <3>8, <3>10
  <2>2. CASE ~some
    <3>1. s.rq[c].cfs_tasks \in Seq(Tasks) BY DEF Images, RqType
    <3>2. Listed(s, c) = {}
      <4>1. s.rq[c].nr_running = Len(s.rq[c].cfs_tasks) BY DEF Sound, Shape, Accounted
      <4> QED BY <2>2, <3>1, <4>1, EmptyElements DEF Listed
    <3>3. s.cfs[c].curr = NULL /\ s.cfs[c].next = NULL
      BY <3>2 DEF Sound, Shape, CurrListed, BuddiesListed
    <3>4. q = s /\ n = idle[c] BY <2>2
    <3>5. IsInjective(s.rq[c].cfs_tasks) BY DEF Sound, Shape, Accounted
    <3>6. TLMembers(s.tl, c) = Listed(s, c) \ {s.cfs[c].curr}
      BY DEF Sound, Shape, WaitersTimed
    <3>7. Chosen(s, s, c, idle[c])
      BY <3>2, <3>3, <3>5, <3>6 DEF Chosen, Sound, Shape, SameQueue, SameRq, SameCfs, NoLighter,
                                    SameWaiters, SameEntity
    <3> QED BY <3>4, <3>7
  <2> QED BY <2>1, <2>2
<1> HIDE DEF q, n
<1>6. r = Switched(s, q, c, n) BY <1>2, <1>3
<1>7. /\ Sound(r) /\ Stays(s, r) /\ r.rq[c].NEED_RESCHED = 0
      /\ r.rq[c].curr = idle[c] <=> r.rq[c].nr_running = 0
  BY <1>4, <1>5, <1>6, SwitchSound
<1> QED BY <1>7 DEF r

\* So schedule takes one round.
LEMMA ScheduleSound ==
    ASSUME TimelineContract, MemberContract, jiffies \in Nat,
           NEW s \in Images, NEW c \in CPUs, Sound(s), ~Stopped(schedule(s, c))
    PROVE  LET r == schedule(s, c)
           IN  /\ Sound(r) /\ Stays(s, r) /\ r.se[r.rq[c].curr].RESCHED = 0
               /\ r.rq[c].curr = idle[c] <=> r.rq[c].nr_running = 0
<1> DEFINE round(x) == IF Stopped(x) THEN x ELSE __schedule(x, c)
           s1 == __schedule(s, c)
           r  == schedule(s, c)
<1>1. round(s) = s1 BY DEF Sound, Shape, Live
<1>2. r = IF ~Stopped(s1) /\ need_resched(s1, c) THEN round(s1) ELSE s1
  BY <1>1 DEF schedule
<1>3. ~Stopped(s1) BY <1>2
<1>4. /\ Sound(s1) /\ Stays(s, s1) /\ s1.rq[c].NEED_RESCHED = 0
      /\ s1.rq[c].curr = idle[c] <=> s1.rq[c].nr_running = 0
  BY <1>3, ScheduleOnceSound
<1> HIDE DEF s1, r
<1>5. s1.se[s1.rq[c].curr].RESCHED = 0 BY <1>4 DEF Sound, Shape, MarksRun
<1>6. ~need_resched(s1, c) BY <1>5 DEF need_resched
<1>7. r = s1 BY <1>2, <1>6
<1> QED BY <1>4, <1>5, <1>7 DEF r

\* preempt_enable schedules when the count is back at 0.
LEMMA EnableSound ==
    ASSUME TimelineContract, MemberContract, jiffies \in Nat,
           NEW s \in Images, NEW c \in CPUs, Sound(s), ~Stopped(preempt_enable(s, c))
    PROVE  LET r == preempt_enable(s, c) IN Sound(r) /\ Stays(s, r)
<1> DEFINE s1 == preempt_count_dec(s, c)
           q1 == preempt_disable(s1, c)
           s2 == schedule(q1, c)
           s3 == preempt_count_dec(s2, c)
           r  == preempt_enable(s, c)
<1>1. r = s1 \/ r = s3 BY DEF preempt_enable, Sound, Shape, Live
<1>2. s1 \in Images /\ Same(s, s1) /\ s1.fault = s.fault
  BY SameCountDec, PreemptCountDec DEF Advances
<1> HIDE DEF s1, r
<1>3. ~Stopped(s1) BY <1>2 DEF Sound, Shape, Live, Stopped
<1>4. Sound(s1) /\ Stays(s, s1) BY <1>2, <1>3, SoundSame
<1>5. CASE r = s1 BY <1>4, <1>5 DEF r
<1>6. CASE r = s3
  <2>1. q1 \in Images /\ Same(s1, q1) /\ q1.fault = s1.fault
    BY <1>2, SameDisable, PreemptDisable DEF Advances
  <2> HIDE DEF q1
  <2>2. ~Stopped(q1) BY <1>3, <2>1 DEF Stopped
  <2>3. Sound(q1) /\ Stays(s1, q1) BY <1>2, <1>4, <2>1, <2>2, SoundSame
  <2>4. s2 \in Images BY <2>1, ScheduleAll DEF Advances
  <2>5. Same(s2, s3) /\ s3.fault = s2.fault /\ s3 \in Images
    BY <2>4, SameCountDec, PreemptCountDec DEF Advances
  <2>6. ~Stopped(s3) BY <1>6 DEF r
  <2>7. ~Stopped(s2) BY <2>5, <2>6 DEF Stopped
  <2>8. Sound(s2) /\ Stays(q1, s2) BY <2>1, <2>3, <2>7, ScheduleSound
  <2> HIDE DEF s2, s3
  <2>9. Sound(s3) /\ Stays(s2, s3) BY <2>4, <2>5, <2>6, <2>8, SoundSame
  <2>10. Stays(s, s3) BY <1>4, <2>3, <2>8, <2>9, StaysTrans
  <2> QED BY <1>6, <2>9, <2>10 DEF r
<1> QED BY <1>1, <1>5, <1>6

-----------------------------------------------------------------------------
(* The handlers.                                                           *)

\* The balancer keeps a task: the list is another, its tasks are the same.
LEMMA KeepSound ==
    ASSUME NEW s \in Images, NEW c \in CPUs, Sound(s), NEW t \in Listed(s, c)
    PROVE  LET r == move_to_front_cfs_tasks(s, c, t)
           IN  Sound(r) /\ Stays(s, r)
<1> DEFINE r == move_to_front_cfs_tasks(s, c, t)
<1>1. /\ r.cfs = s.cfs /\ r.se = s.se /\ r.tl = s.tl /\ r.fault = s.fault
      /\ \A d \in CPUs : /\ r.rq[d].curr = s.rq[d].curr
                         /\ r.rq[d].NEED_RESCHED = s.rq[d].NEED_RESCHED
                         /\ r.rq[d].nr_running = s.rq[d].nr_running
                         /\ d # c => r.rq[d].cfs_tasks = s.rq[d].cfs_tasks
      /\ r.rq[c].cfs_tasks = Cons(t, RemoveFirst(s.rq[c].cfs_tasks, t))
  BY DEF move_to_front_cfs_tasks, Images, RqType
<1> HIDE DEF r
<1>2. /\ Len(r.rq[c].cfs_tasks) = Len(s.rq[c].cfs_tasks)
      /\ IsInjective(r.rq[c].cfs_tasks) /\ Listed(r, c) = Listed(s, c)
  <2>1. s.rq[c].cfs_tasks \in Seq(Tasks) BY DEF Images, RqType
  <2>2. IsInjective(s.rq[c].cfs_tasks) BY DEF Sound, Shape, Accounted
  <2> QED BY <1>1, <2>1, <2>2, FrontElements DEF Listed
<1>3. \A d \in CPUs : Listed(r, d) = Listed(s, d) BY <1>1, <1>2 DEF Listed
<1>4. Live(r) BY <1>1 DEF Sound, Shape, Live, Stopped
<1>5. Accounted(r)
  <2>1. ASSUME NEW d \in CPUs
        PROVE  /\ r.rq[d].nr_running = Len(r.rq[d].cfs_tasks)
               /\ r.cfs[d].nr_running = Len(r.rq[d].cfs_tasks)
               /\ IsInjective(r.rq[d].cfs_tasks)
    BY <1>1, <1>2 DEF Sound, Shape, Accounted
  <2> QED BY <1>1, <1>3, <2>1 DEF Sound, Shape, Accounted
<1>6. CurrListed(r) BY <1>1, <1>3 DEF Sound, Shape, CurrListed
<1>7. WaitersTimed(r) BY <1>1, <1>3 DEF Sound, Shape, WaitersTimed
<1>8. BuddiesListed(r) BY <1>1, <1>3 DEF Sound, Shape, BuddiesListed
<1>9. MarksRun(r) /\ TasksOnRq(r) BY <1>1 DEF Sound, Shape, MarksRun, TasksOnRq
<1>10. \A d \in CPUs : WorkMarked(r, d) BY <1>1 DEF Sound, WorkMarked
<1>11. Weighed(r) BY <1>1, <1>3 DEF Sound, Shape, Weighed
<1>12. Sound(r) /\ Stays(s, r)
  BY <1>1, <1>3, <1>4, <1>5, <1>6, <1>7, <1>8, <1>9, <1>10, <1>11 DEF Sound, Shape, Stays
<1> QED BY <1>12 DEF r

\* __set_task_cpu moves loads and vruntimes only.
LEMMA SameTaskCpu ==
    ASSUME NEW s \in Images, NEW t \in Tasks, NEW c
    PROVE  Same(s, set_task_cpu(s, t, c))
<1> DEFINE old == s.se[t].cpu
           s1  == IF old = c \/ Stopped(s) THEN s
                  ELSE IF old \notin CPUs THEN Crash(s) ELSE migrate_task_rq(s, t)
           r   == [s1 EXCEPT !.se[t].cpu = c]
<1>1. set_task_cpu(s, t, c) = r BY DEF set_task_cpu
<1>2. t \in Entities BY DEF Entities
<1>3. CASE s1 = s
  <2>1. r = [s EXCEPT !.se[t].cpu = c] BY <1>3
  <2> HIDE DEF r
  <2>2. /\ r.rq = s.rq /\ r.cfs = s.cfs /\ r.tl = s.tl /\ r.fault = s.fault
        /\ \A x \in Entities : SameEntity(s, r, x)
    BY <1>2, <2>1 DEF SameEntity, Images, SeImages, SeType
  <2>3. Same(s, r)
    BY <2>2 DEF Same, SameQueue, SameRq, SameCfs, NoLighter, SameWaiters, Live, Stopped
  <2> QED BY <1>1, <2>3
<1>4. CASE s1 = Crash(s)
  <2>1. r.fault = Crash(s).fault BY <1>4 DEF Crash, Images
  <2>2. Stopped(r) BY <2>1 DEF Crash, Stopped, Images
  <2> QED BY <1>1, <2>2 DEF Same
<1>5. CASE s1 = migrate_task_rq(s, t)
  <2>1. PICK d : r = [s EXCEPT !.cfs[d].attached[t] = @ - 1, !.se[t].last_update = 0,
                               !.se[t].exec_start = 0, !.se[t].cpu = c]
    BY <1>2, <1>5 DEF migrate_task_rq, Images, SeImages, SeType
  <2> HIDE DEF r
  <2>2. /\ r.rq = s.rq /\ r.tl = s.tl /\ r.fault = s.fault
        /\ \A x \in CPUs : SameCfs(s, r, x)
        /\ \A x \in Entities : SameEntity(s, r, x)
    BY <1>2, <2>1 DEF SameCfs, NoLighter, SameEntity, Images, SeImages, SeType, CfsType
  <2>3. Same(s, r)
    BY <2>2 DEF Same, SameQueue, SameRq, SameWaiters, Live, Stopped
  <2> QED BY <1>1, <2>3
<1> QED BY <1>1, <1>3, <1>4, <1>5

\* One iteration of detach_tasks.
LEMMA DetachSound ==
    ASSUME TimelineContract, MemberContract, jiffies \in Nat,
           NEW s \in Images, NEW src \in CPUs, NEW dst \in CPUs, Sound(s),
           NEW t \in Listed(s, src), t # s.rq[src].curr,
           ~Stopped(detach_task(s, t, src, dst))
    PROVE  LET r == detach_task(s, t, src, dst) IN Sound(r) /\ Departed(s, r, src, t)
<1> DEFINE q  == [s EXCEPT !.se[t].task_on_rq = 2]
           s1 == deactivate_task(q, src, t)
           r  == detach_task(s, t, src, dst)
<1>1. t \in Tasks /\ t \in Entities BY ShapeCurr DEF Sound, Entities
<1>2. q \in Images
  <2>1. 2 \in 0 .. 2 OBVIOUS
  <2> QED BY <1>1, <2>1, SetTaskOnRq DEF Advances
<1>3. /\ q.rq = s.rq /\ q.cfs = s.cfs /\ q.tl = s.tl /\ q.fault = s.fault
      /\ \A e \in Entities : q.se[e].on_rq = s.se[e].on_rq
  BY <1>1 DEF Images, SeImages, SeType
<1>4. Live(q) /\ CurrQueued(q, src) /\ q.cfs[src].curr # t /\ t \in TLMembers(q.tl, src)
  <2>1. Live(q) BY <1>3 DEF Sound, Shape, Live, Stopped
  <2>2. CurrQueued(s, src) /\ t # s.cfs[src].curr BY ShapeCurr DEF Sound
  <2>3. TLMembers(s.tl, src) = Listed(s, src) \ {s.cfs[src].curr}
    BY DEF Sound, Shape, WaitersTimed
  <2>4. CurrQueued(q, src)
    <3>1. s.cfs[src].curr \in Tasks \cup {NULL} BY DEF Images, CfsType
    <3> QED BY <1>3, <2>2, <3>1 DEF CurrQueued, Entities
  <2> QED BY <1>3, <2>1, <2>2, <2>3, <2>4
<1>5. s1 \in Images /\ Dequeued(q, s1, src, t, 1)
  <2> HIDE DEF q
  <2> QED BY <1>1, <1>2, <1>4, DeactivateEffect, DeactivateTask DEF Advances
<1>6. r = set_task_cpu(s1, t, dst) BY DEF detach_task
<1> HIDE DEF s1
<1>7. Same(s1, r) /\ r \in Images
  BY <1>1, <1>5, <1>6, SameTaskCpu, SetTaskCpu DEF Advances
<1> HIDE DEF r
<1>8. ~Stopped(s1) /\ ~Stopped(r) BY <1>7 DEF Same, r
<1>9. /\ Shape(s1) /\ Departed(s, s1, src, t)
      /\ \A d \in CPUs : WorkMarked(s, d) => WorkMarked(s1, d)
  BY <1>5, <1>8, Departure DEF Sound
<1>10. Sound(s1) BY <1>9 DEF Sound
<1>11. Sound(r) /\ Stays(s1, r) BY <1>5, <1>7, <1>8, <1>10, SoundSame
<1> QED BY <1>1, <1>9, <1>11 DEF Departed, Stays, r

\* A task that is nowhere is attached: it may take the CPU, and if the CPU was
\* idle it will be noticed.
LEMMA AttachSound ==
    ASSUME TimelineContract, MemberContract, jiffies \in Nat,
           NEW s \in Images, NEW c \in CPUs, Sound(s),
           NEW t \in Tasks, s.se[t].task_on_rq # 1, ~Stopped(attach_task(s, t, c))
    PROVE  LET r == attach_task(s, t, c) IN Sound(r) /\ Arrived(s, r, c, t)
<1> DEFINE s1 == activate_task(s, c, t)
           s2 == [s1 EXCEPT !.se[t].task_on_rq = 1]
           r  == check_preempt_wakeup(s2, c, t)
<1>1. attach_task(s, t, c) = r BY DEF attach_task
<1>2. t \in Entities /\ t # NULL BY IdleAssumption DEF Entities
<1>3. s.se[t].on_rq = 0
  <2>1. s.se[t].on_rq # 1 BY DEF Sound, Shape, TasksOnRq
  <2> QED BY <1>2, <2>1 DEF Images, SeImages, SeType, Bit
<1>4. Live(s) /\ CurrQueued(s, c) /\ s.cfs[c].curr # t /\ t \notin TLMembers(s.tl, c)
  <2>1. Live(s) BY DEF Sound, Shape
  <2>2. \A u \in Listed(s, c) : s.se[u].on_rq = 1 BY ShapeCurr DEF Sound
  <2>3. t \notin Listed(s, c) BY <1>3, <2>2
  <2>4. CurrQueued(s, c) /\ s.cfs[c].curr # t BY <1>2, <2>3, ShapeCurr DEF Sound
  <2> QED BY <2>1, <2>3, <2>4 DEF Sound, Shape, WaitersTimed
<1>5. s1 \in Images /\ Enqueued(s, s1, c, t, 1)
  BY <1>4, ActivateEffect, ActivateTask DEF Advances
<1> HIDE DEF s1
<1>6. s2 \in Images
  <2>1. 1 \in 0 .. 2 OBVIOUS
  <2> QED BY <1>5, <2>1, SetTaskOnRq DEF Advances
<1>7. ~Stopped(r) BY <1>1
<1>8. ~Stopped(s1)
  <2>1. s2.fault = s1.fault BY <1>5 DEF Images
  <2>2. Stopped(s2) => r = s2 BY DEF check_preempt_wakeup
  <2> QED BY <1>7, <2>1, <2>2 DEF Stopped
<1>9. /\ Shape(s2) /\ Arrived(s, s2, c, t) /\ t # s2.cfs[c].curr
      /\ \A d \in CPUs \ {c} : WorkMarked(s, d) => WorkMarked(s2, d)
  BY <1>3, <1>5, <1>8, Arrival DEF Sound
<1> HIDE DEF s2
<1>10. t \in Listed(s2, c) BY <1>9 DEF Arrived
<1>11. Marks(s2, r, c) /\ WorkMarked(r, c) BY <1>6, <1>7, <1>9, <1>10, WakeupPreempts
<1> HIDE DEF r
<1>12. Sound(r) BY <1>9, <1>11 DEF Sound, Marks
<1>13. Arrived(s, r, c, t) BY <1>9, <1>11 DEF Arrived, Marks, Stays
<1> QED BY <1>1, <1>12, <1>13

\* wake_up_new_task with its reschedule.
LEMMA WakeSound ==
    ASSUME TimelineContract, MemberContract, jiffies \in Nat,
           NEW s \in Images, NEW c \in CPUs, Sound(s),
           NEW t \in Tasks, s.se[t].task_on_rq # 1, ~Stopped(wake_up_new_task(s, t, c))
    PROVE  LET r == wake_up_new_task(s, t, c) IN Sound(r) /\ Arrived(s, r, c, t)
<1> DEFINE s0 == preempt_disable(s, c)
           s1 == attach_entity_load_avg(s0, c, t)
           s2 == attach_task(s1, t, c)
           s3 == preempt_enable(s2, c)
           r  == wake_up_new_task(s, t, c)
<1>1. r = s3 \/ r = Crash(s3) BY DEF wake_up_new_task, attach_task
<1>2. s0 \in Images /\ Same(s, s0) /\ s0.fault = s.fault
  BY SameDisable, PreemptDisable DEF Advances
<1> HIDE DEF s0
<1>3. s1 \in Images /\ Same(s0, s1) BY <1>2, SameAttach, AttachLoad DEF Advances
<1>4. s1.fault = s0.fault BY <1>2 DEF attach_entity_load_avg, Images
<1> HIDE DEF s1
<1>5. ~Stopped(s1) BY <1>2, <1>4 DEF Sound, Shape, Live, Stopped
<1>6. Sound(s1) /\ Stays(s, s1) BY <1>2, <1>3, <1>5, SameTrans, SoundSame
<1>7. s2 \in Images BY <1>3, AttachTask DEF Advances
<1>8. s3 \in Images BY <1>7, PreemptEnable DEF Advances
<1>9. ~Stopped(s3) /\ r = s3
  <2>1. Stopped(Crash(s3)) BY <1>8 DEF Crash, Stopped, Images
  <2>2. Stopped(s3) => Crash(s3) = s3 BY DEF Crash
  <2> QED BY <1>1, <2>1, <2>2
<1> HIDE DEF r
<1>10. ~Stopped(s2)
  <2>1. Stopped(s2) => s3 = s2 BY DEF preempt_enable
  <2> QED BY <1>9, <2>1
<1>11. Sound(s2) /\ Arrived(s1, s2, c, t)
  <2>1. s1.se[t].task_on_rq # 1 BY <1>6 DEF Stays
  <2> QED BY <1>3, <1>6, <1>10, <2>1, AttachSound
<1> HIDE DEF s2
<1>12. Sound(s3) /\ Stays(s2, s3) BY <1>7, <1>9, <1>11, EnableSound
<1>13. Arrived(s, s3, c, t)
  BY <1>6, <1>11, <1>12 DEF Arrived, Stays
<1> QED BY <1>9, <1>12, <1>13 DEF r

-----------------------------------------------------------------------------
(* The inductive invariant.  What stopped the program is left out of the   *)
(* image: a handler that stops has committed nothing.                      *)

Memory == [rq |-> rq, cfs |-> cfs, se |-> se, tl |-> tl, fault |-> "none"]

\* The balancer's list holds the migrating tasks.
Flight ==
    /\ IsInjective(env.tasks)
    /\ \A t \in Tasks : se[t].task_on_rq = 2 <=> t \in ToSet(env.tasks)

\* It holds them only while tasks are moved, and they move to another CPU.
Phased ==
    /\ env.tasks # << >> => env.phase \in {"detach", "attach"}
    /\ env.phase \in {"detach", "attach"} => env.src # env.dst

\* The inductive invariant: the types of RunQueueProofs, an image in which the
\* representations agree, and a list in flight that agrees with the states.
Settled == IInv /\ Sound(Memory) /\ Flight /\ Phased

\* The image that handlers start from, and what committing one does.
LEMMA MemoryImage ==
    ASSUME IInv
    PROVE  Memory \in Images /\ (fault = "none" => Memory = Image)
BY DEF IInv, Memory, Image, Images, Faults

LEMMA CommitMemory ==
    ASSUME NEW s \in Images, Commit(s)
    PROVE  /\ Stopped(s) => Memory' = Memory /\ UNCHANGED <<rq, cfs, se, tl>>
           /\ ~Stopped(s) => Memory' = s /\ fault' = "none"
           /\ fault' = s.fault
BY DEF Commit, Memory, Stopped, Images

\* It holds at the start.
LEMMA InitSettled == ASSUME TimelineContract, MemberContract, Init PROVE Settled
<1>1. IInv BY InitIInv
<1> DEFINE s == Memory
<1>2. \A c \in CPUs : /\ rq[c].curr = idle[c] /\ rq[c].nr_running = 0
                      /\ rq[c].cfs_tasks = << >> /\ rq[c].NEED_RESCHED = 0
  BY DEF Init, NewRq
<1>3. \A c \in CPUs : /\ cfs[c].curr = NULL /\ cfs[c].next = NULL
                      /\ cfs[c].nr_running = 0
                      /\ cfs[c].weight = 0 /\ cfs[c].runnable_weight = 0
  BY DEF Init, NewCfs
<1>4. \A e \in Entities : se[e].on_rq = 0 /\ se[e].task_on_rq = 0 /\ se[e].RESCHED = 0
  BY DEF Init, NewEntity
<1>5. Len(<< >>) = 0 /\ ToSet(<< >>) = {} /\ IsInjective(<< >>)
  BY DEF ToSet, IsInjective
<1>6. /\ s.rq = rq /\ s.cfs = cfs /\ s.se = se /\ s.tl = TLInit /\ s.fault = "none"
      /\ \A c \in CPUs : Listed(s, c) = {}
  BY <1>2, <1>5 DEF Memory, Listed, Init
<1>7. \A t \in Tasks : t \in Entities BY DEF Entities
<1>8. \A c \in CPUs : idle[c] \in Entities BY DEF Entities
<1> HIDE DEF s
<1>9. Live(s) /\ WaitersTimed(s)
  BY <1>6 DEF MemberContract, Live, Stopped, WaitersTimed
<1>10. Accounted(s) BY <1>2, <1>3, <1>4, <1>5, <1>6, <1>7 DEF Accounted
<1>11. CurrListed(s) /\ BuddiesListed(s)
  BY <1>2, <1>3, <1>6 DEF CurrListed, BuddiesListed
<1>12. MarksRun(s) /\ TasksOnRq(s)
  BY <1>2, <1>4, <1>6, <1>7, <1>8 DEF MarksRun, TasksOnRq
<1>13. Sound(s)
  <2>1. IsFiniteSet({}) BY FS_EmptySet
  <2>2. SumFunctionOnSet(Weight, {}) = 0 BY <2>1, SumSteps
  <2>3. Weighed(s) BY <1>3, <1>6, <2>2 DEF Weighed
  <2> QED BY <1>2, <1>6, <1>9, <1>10, <1>11, <1>12, <2>3 DEF Sound, Shape, WorkMarked
<1>14. Flight /\ Phased
  BY <1>4, <1>5, <1>7 DEF Init, NoEnv, Flight, Phased
<1> QED BY <1>1, <1>13, <1>14 DEF Settled, s

\* What a step may do to the places of the tasks: nothing; start a task; take a
\* waiting task into the balancer's list; put the first one of that list into
\* the queue of another CPU.
Rests ==
    /\ Stays(Memory, Memory')
    /\ \/ env.tasks = << >> /\ env'.tasks = << >>
       \/ env'.tasks = env.tasks /\ env'.src = env.src
\* or it queues a task that was nowhere,
Starts(t, c) ==
    /\ Arrived(Memory, Memory', c, t)
    /\ se[t].task_on_rq = 0 /\ env.tasks = << >> /\ env' = env
\* or takes a task out, into the balancer's list,
Detaches(t) ==
    /\ env.src \in CPUs /\ t \in Listed(Memory, env.src)
    /\ Departed(Memory, Memory', env.src, t)
    /\ env'.tasks = Cons(t, env.tasks) /\ env'.src = env.src
\* or the first of the list into the queue of the destination.
Attaches(t) ==
    /\ env.dst \in CPUs /\ env.src # env.dst
    /\ env.tasks # << >> /\ t = Head(env.tasks)
    /\ Arrived(Memory, Memory', env.dst, t)
    /\ env'.tasks = Tail(env.tasks) /\ env'.src = env.src

\* A step of the system is one of these.
Moves ==
    \/ Rests
    \/ \E t \in Tasks, c \in CPUs : Starts(t, c)
    \/ \E t \in Tasks : Detaches(t)
    \/ \E t \in Tasks : Attaches(t)

\* A handler that stops, and a step that only writes env, leave the tasks alone.
LEMMA MemoryRests ==
    ASSUME Settled, Memory' = Memory
    PROVE  Sound(Memory') /\ Stays(Memory, Memory')
BY DEF Settled, Stays

\* Which of them each action is.
LEMMA WakeMoves ==
    ASSUME TimelineContract, MemberContract, Settled,
           NEW t \in Tasks, NEW c \in CPUs, Wake(t, c)
    PROVE  Sound(Memory') /\ (Rests \/ Starts(t, c)) /\ Phased'
<1>1. fault = "none" /\ env.phase = "none" /\ env.tasks = << >> /\ env' = env
      /\ se[t].task_on_rq = 0 /\ jiffies \in Nat
  BY DEF Wake, Running, Settled, Phased, IInv
<1>2. PICK garbage \in UninitCpu :
        Commit(wake_up_new_task([Image EXCEPT !.se[t].cpu = garbage], t, c))
  BY DEF Wake
<1> DEFINE s == [Image EXCEPT !.se[t].cpu = garbage]
           r == wake_up_new_task(s, t, c)
<1>3. Memory \in Images /\ Memory = Image BY <1>1, MemoryImage DEF Settled
<1>4. s \in Images BY <1>3, SetCpu DEF Advances
<1>5. /\ s.rq = Memory.rq /\ s.cfs = Memory.cfs /\ s.tl = Memory.tl
      /\ s.fault = Memory.fault /\ \A e \in Entities : SameEntity(Memory, s, e)
  BY <1>3 DEF SameEntity, Images, SeImages, SeType
<1>6. Commit(r) BY <1>2
<1> HIDE DEF s
<1>7. Same(Memory, s) /\ ~Stopped(s)
  BY <1>5 DEF Same, SameQueue, SameRq, SameCfs, NoLighter, SameWaiters, Live, Stopped, Memory
<1>8. Sound(s) /\ Stays(Memory, s) BY <1>3, <1>4, <1>7, SoundSame DEF Settled
<1>9. s.se[t].task_on_rq # 1 BY <1>1, <1>8 DEF Stays, Memory
<1>10. r \in Images BY <1>1, <1>4, WakeUpNewTask DEF Advances
<1>11. ~Stopped(r) => Sound(r) /\ Arrived(s, r, c, t)
  BY <1>1, <1>4, <1>8, <1>9, WakeSound
<1> HIDE DEF r
<1>12. CASE Stopped(r)
  <2>1. Memory' = Memory BY <1>6, <1>10, <1>12, CommitMemory
  <2>2. Rests BY <1>1, <2>1, MemoryRests DEF Rests
  <2> QED BY <1>1, <2>1, <2>2, MemoryRests DEF Settled, Phased
<1>13. CASE ~Stopped(r)
  <2>1. Memory' = r BY <1>6, <1>10, <1>13, CommitMemory
  <2>2. Arrived(Memory, r, c, t) BY <1>8, <1>11, <1>13 DEF Arrived, Stays
  <2>3. Starts(t, c) BY <1>1, <2>1, <2>2 DEF Starts
  <2> QED BY <1>1, <1>11, <1>13, <2>1, <2>3 DEF Settled, Phased
<1> QED BY <1>12, <1>13

LEMMA ScheduleMoves ==
    ASSUME TimelineContract, MemberContract, Settled, NEW c \in CPUs, Schedule(c)
    PROVE  /\ Sound(Memory') /\ Moves /\ Phased'
           /\ fault' = "none" =>
                 /\ se'[rq'[c].curr].RESCHED = 0
                 /\ rq'[c].curr = idle[c] <=> rq'[c].nr_running = 0
<1> DEFINE r == schedule(Image, c)
<1>1. fault = "none" /\ env.phase = "none" /\ env.tasks = << >> /\ env' = env
      /\ jiffies \in Nat /\ Commit(r)
  BY DEF Schedule, Running, Settled, Phased, IInv
<1>2. Memory \in Images /\ Memory = Image BY <1>1, MemoryImage DEF Settled
<1>3. r \in Images BY <1>1, <1>2, ScheduleAll DEF Advances
<1>4. ~Stopped(r) => /\ Sound(r) /\ Stays(Memory, r) /\ r.se[r.rq[c].curr].RESCHED = 0
                     /\ r.rq[c].curr = idle[c] <=> r.rq[c].nr_running = 0
  BY <1>1, <1>2, ScheduleSound DEF Settled
<1> HIDE DEF r
<1>5. CASE Stopped(r)
  <2>1. Memory' = Memory /\ fault' = r.fault BY <1>1, <1>3, <1>5, CommitMemory
  <2>2. fault' # "none" BY <1>5, <2>1 DEF Stopped
  <2> QED BY <1>1, <2>1, <2>2, MemoryRests DEF Settled, Phased, Moves, Rests
<1>6. CASE ~Stopped(r)
  <2>1. Memory' = r BY <1>1, <1>3, <1>6, CommitMemory
  <2>2. rq' = r.rq /\ se' = r.se BY <2>1 DEF Memory
  <2> QED BY <1>1, <1>4, <1>6, <2>1, <2>2 DEF Settled, Phased, Moves, Rests
<1> QED BY <1>5, <1>6

LEMMA TickMoves ==
    ASSUME TimelineContract, MemberContract, Settled, NEW c \in CPUs, Tick(c)
    PROVE  Sound(Memory') /\ Moves /\ Phased'
<1> DEFINE r == scheduler_tick(Image, c)
<1>1. fault = "none" /\ env.phase = "none" /\ env.tasks = << >>
      /\ jiffies \in Nat /\ Commit(r)
  BY DEF Tick, Running, Settled, Phased, IInv
<1>2. env'.tasks = << >> /\ env'.phase \in {"none", "balance"}
  BY DEF Tick, NoEnv
<1>3. Memory \in Images /\ Memory = Image BY <1>1, MemoryImage DEF Settled
<1>4. r \in Images BY <1>1, <1>3, SchedulerTick DEF Advances
<1>5. ~Stopped(r) => Sound(r) /\ Stays(Memory, r)
  BY <1>1, <1>3, TickSound DEF Settled
<1> HIDE DEF r
<1>6. Sound(Memory') /\ Stays(Memory, Memory')
  BY <1>1, <1>4, <1>5, CommitMemory, MemoryRests
<1>7. Phased' BY <1>2 DEF Phased
<1> QED BY <1>1, <1>2, <1>6, <1>7 DEF Moves, Rests

LEMMA BeginMoves ==
    ASSUME Settled, NEW src, NEW dst, NEW loop_max, NEW cpu_idle,
           BeginDetach(src, dst, loop_max, cpu_idle)
    PROVE  Sound(Memory') /\ Moves /\ Phased'
<1>1. Memory' = Memory BY DEF BeginDetach, Memory
<1>2. env \in EnvType BY DEF Settled, IInv, EnvOK
<1>3. env.tasks = << >> BY DEF BeginDetach, Running, Settled, Phased
<1>4. env'.tasks = << >> /\ env'.src = src /\ env'.dst = dst /\ src # dst
  BY <1>2, <1>3 DEF BeginDetach, EnvType
<1>5. Phased' BY <1>4 DEF Phased
<1> QED BY <1>1, <1>3, <1>4, <1>5, MemoryRests DEF Moves, Rests

\* A loop of the balancer ends, or its whole round.
LEMMA EndMoves ==
    ASSUME Settled, DetachEnd \/ AttachEnd \/ BalanceEnd \/ AdvanceJiffies
    PROVE  Sound(Memory') /\ Moves /\ Phased'
<1>1. env \in EnvType BY DEF Settled, IInv, EnvOK
<1>2. Memory' = Memory
  BY DEF DetachEnd, AttachEnd, BalanceEnd, AdvanceJiffies, Memory
<1>3. CASE DetachEnd
  <2>1. /\ env.phase = "detach" /\ env'.phase = "attach" /\ env'.tasks = env.tasks
        /\ env'.src = env.src /\ env'.dst = env.dst
    BY <1>1, <1>3 DEF DetachEnd, Running, EnvType
  <2> QED BY <1>2, <2>1, MemoryRests DEF Settled, Phased, Moves, Rests
<1>4. CASE AttachEnd
  <2>1. env'.phase = "balance" /\ env.tasks = << >> /\ env'.tasks = << >>
    BY <1>1, <1>4 DEF AttachEnd, EnvType
  <2>2. Phased' BY <2>1 DEF Phased
  <2> QED BY <1>2, <2>1, <2>2, MemoryRests DEF Moves, Rests
<1>5. CASE BalanceEnd
  <2>1. env'.phase = "none" /\ env.tasks = << >> /\ env'.tasks = << >>
    BY <1>5 DEF BalanceEnd, NoEnv, Running, Settled, Phased
  <2>2. Phased' BY <2>1 DEF Phased
  <2> QED BY <1>2, <2>1, <2>2, MemoryRests DEF Moves, Rests
<1>6. CASE AdvanceJiffies
  <2>1. env' = env BY <1>6 DEF AdvanceJiffies
  <2> QED BY <1>2, <2>1, MemoryRests DEF Settled, Phased, Moves, Rests
<1> QED BY <1>3, <1>4, <1>5, <1>6

\* The task that detach_tasks looks at is in the list of the source.
LEMMA LastListed ==
    ASSUME Settled, DetachLoops
    PROVE  /\ env.src \in CPUs /\ env.dst \in CPUs
           /\ Memory \in Images /\ Memory = Image /\ jiffies \in Nat
           /\ Last(rq[env.src].cfs_tasks) \in Listed(Memory, env.src)
<1>1. env.src \in CPUs /\ env.dst \in CPUs /\ jiffies \in Nat /\ fault = "none"
  BY DEF DetachLoops, Running, Settled, IInv, EnvOK
<1>2. Memory \in Images /\ Memory = Image BY <1>1, MemoryImage DEF Settled
<1>3. rq[env.src].cfs_tasks \in Seq(Tasks) /\ Memory.rq = rq
  BY <1>1, <1>2 DEF Memory, Images, RqType
<1>4. rq[env.src].cfs_tasks # << >> BY DEF DetachLoops
<1> DEFINE q == rq[env.src].cfs_tasks
<1> HIDE DEF q
<1>5. Len(q) \in 1 .. Len(q) /\ DOMAIN q = 1 .. Len(q) BY <1>3, <1>4 DEF q
<1>6. Last(q) \in ToSet(q) BY <1>5 DEF Last, ToSet
<1> QED BY <1>1, <1>2, <1>3, <1>6 DEF q, Listed

LEMMA KeepMoves ==
    ASSUME TimelineContract, MemberContract, Settled, DetachKeep
    PROVE  Sound(Memory') /\ Moves /\ Phased'
<1> DEFINE t == Last(rq[env.src].cfs_tasks)
           r == move_to_front_cfs_tasks(Image, env.src, t)
<1>1. /\ env.src \in CPUs /\ t \in Listed(Memory, env.src)
      /\ Memory \in Images /\ Memory = Image
  BY LastListed DEF DetachKeep
<1>2. Commit(r) BY DEF DetachKeep
<1>3. /\ env'.tasks = env.tasks /\ env'.src = env.src /\ env'.dst = env.dst
      /\ env'.phase = env.phase
  BY DEF DetachKeep, Settled, IInv, EnvOK, EnvType
<1> HIDE DEF t
<1>4. t \in Tasks BY <1>1, ShapeCurr DEF Settled, Sound
<1>5. r \in Images BY <1>1, <1>4, MoveToFront DEF Advances
<1>6. Sound(r) /\ Stays(Memory, r) BY <1>1, KeepSound DEF Settled
<1> HIDE DEF r
<1>7. Sound(Memory') /\ Stays(Memory, Memory')
  BY <1>2, <1>5, <1>6, CommitMemory, MemoryRests
<1> QED BY <1>3, <1>7 DEF Settled, Phased, Moves, Rests

\* The task that is taken waits in the queue of env.src.
LEMMA DetachMoves ==
    ASSUME TimelineContract, MemberContract, Settled, NEW more \in BOOLEAN,
           DetachMove(more)
    PROVE  Sound(Memory') /\ Moves /\ Phased'
<1> DEFINE t == Last(rq[env.src].cfs_tasks)
           r == detach_task(Image, t, env.src, env.dst)
<1>1. /\ env.src \in CPUs /\ env.dst \in CPUs /\ t \in Listed(Memory, env.src)
      /\ Memory \in Images /\ Memory = Image /\ jiffies \in Nat
  BY LastListed DEF DetachMove
<1>2. /\ Commit(r) /\ t # rq[env.src].curr /\ env.phase = "detach"
      /\ env' = IF Stopped(r) THEN env
                ELSE [env EXCEPT !.loop = @ + 1, !.tasks = Cons(t, @),
                                 !.phase = IF more THEN @ ELSE "attach"]
  BY DEF DetachMove, DetachLoops, Running
<1> HIDE DEF t
<1>3. t \in Tasks BY <1>1, ShapeCurr DEF Settled, Sound
<1>4. r \in Images BY <1>1, <1>3, DetachTask DEF Advances
<1>5. ~Stopped(r) => Sound(r) /\ Departed(Memory, r, env.src, t)
  <2>1. t # Memory.rq[env.src].curr BY <1>2 DEF Memory
  <2> QED BY <1>1, <2>1, DetachSound DEF Settled
<1> HIDE DEF r
<1>6. CASE Stopped(r)
  <2>1. Memory' = Memory BY <1>2, <1>4, <1>6, CommitMemory
  <2> QED BY <1>2, <1>6, <2>1, MemoryRests DEF Settled, Phased, Moves, Rests
<1>7. CASE ~Stopped(r)
  <2>1. Memory' = r BY <1>2, <1>4, <1>7, CommitMemory
  <2>2. /\ env'.tasks = Cons(t, env.tasks) /\ env'.src = env.src /\ env'.dst = env.dst
        /\ env'.phase \in {"detach", "attach"}
    BY <1>2, <1>7 DEF Settled, IInv, EnvOK, EnvType
  <2>3. Detaches(t) BY <1>1, <1>5, <1>7, <2>1, <2>2 DEF Detaches
  <2>4. Phased' BY <1>2, <2>2 DEF Settled, Phased
  <2> QED BY <1>3, <1>5, <1>7, <2>1, <2>3, <2>4 DEF Moves
<1> QED BY <1>6, <1>7

\* The task that is attached leaves the list.
LEMMA AttachMoves ==
    ASSUME TimelineContract, MemberContract, Settled, AttachNext
    PROVE  Sound(Memory') /\ Moves /\ Phased'
<1> DEFINE t == Head(env.tasks)
           r == attach_task(Image, t, env.dst)
<1>1. /\ env.dst \in CPUs /\ env.src # env.dst /\ jiffies \in Nat /\ fault = "none"
      /\ env.tasks # << >> /\ env.tasks \in Seq(Tasks) /\ env.phase = "attach"
  BY DEF AttachNext, Running, Settled, Phased, IInv, EnvOK, EnvType
<1>2. /\ Commit(r)
      /\ env' = IF Stopped(r) THEN env ELSE [env EXCEPT !.tasks = Tail(@)]
  BY DEF AttachNext
<1>3. t \in Tasks /\ t \in ToSet(env.tasks)
  <2>1. t \in ToSet(env.tasks) BY <1>1, TailElements DEF Settled, Flight
  <2> QED BY <1>1, <2>1
<1> HIDE DEF t
<1>4. Memory \in Images /\ Memory = Image BY <1>1, MemoryImage DEF Settled
<1>5. Memory.se[t].task_on_rq # 1 BY <1>3 DEF Settled, Flight, Memory
<1>6. r \in Images BY <1>1, <1>3, <1>4, AttachTask DEF Advances
<1>7. ~Stopped(r) => Sound(r) /\ Arrived(Memory, r, env.dst, t)
  BY <1>1, <1>3, <1>4, <1>5, AttachSound DEF Settled
<1> HIDE DEF r
<1>8. CASE Stopped(r)
  <2>1. Memory' = Memory BY <1>2, <1>6, <1>8, CommitMemory
  <2> QED BY <1>2, <1>8, <2>1, MemoryRests DEF Settled, Phased, Moves, Rests
<1>9. CASE ~Stopped(r)
  <2>1. Memory' = r BY <1>2, <1>6, <1>9, CommitMemory
  <2>2. /\ env'.tasks = Tail(env.tasks) /\ env'.src = env.src /\ env'.dst = env.dst
        /\ env'.phase = "attach"
    BY <1>1, <1>2, <1>9 DEF Settled, IInv, EnvOK, EnvType
  <2>3. Attaches(t) BY <1>1, <1>7, <1>9, <2>1, <2>2 DEF Attaches, t
  <2>4. Phased' BY <1>1, <2>2 DEF Phased
  <2> QED BY <1>3, <1>7, <1>9, <2>1, <2>3, <2>4 DEF Moves
<1> QED BY <1>8, <1>9

\* The balancer's list follows the moves.
LEMMA MovesFlight ==
    ASSUME Settled, Moves
    PROVE  Flight'
<1>1. env.tasks \in Seq(Tasks) BY DEF Settled, IInv, EnvOK, EnvType
<1>2. ToSet(<< >>) = {} /\ IsInjective(<< >>) BY DEF ToSet, IsInjective
<1>3. Memory.se = se /\ Memory'.se = se' BY DEF Memory
<1>4. CASE Rests
  <2>1. \A t \in Tasks : se'[t].task_on_rq = se[t].task_on_rq
    BY <1>3, <1>4 DEF Rests, Stays
  <2>2. env'.tasks = env.tasks BY <1>4 DEF Rests
  <2> QED BY <2>1, <2>2 DEF Settled, Flight
<1>5. ASSUME NEW t \in Tasks, NEW c \in CPUs, Starts(t, c) PROVE Flight'
  <2>1. /\ se'[t].task_on_rq = 1
        /\ \A u \in Tasks \ {t} : se'[u].task_on_rq = se[u].task_on_rq
    BY <1>3, <1>5 DEF Starts, Arrived
  <2>2. env'.tasks = << >> /\ env.tasks = << >> BY <1>5 DEF Starts
  <2> QED BY <1>2, <2>1, <2>2 DEF Settled, Flight
<1>6. ASSUME NEW t \in Tasks, Detaches(t) PROVE Flight'
  <2>1. /\ se'[t].task_on_rq = 2
        /\ \A u \in Tasks \ {t} : se'[u].task_on_rq = se[u].task_on_rq
    BY <1>3, <1>6 DEF Detaches, Departed
  <2>2. se[t].task_on_rq = 1
    BY <1>3, <1>6 DEF Detaches, Settled, Sound, Shape, TasksOnRq, Accounted
  <2>3. t \notin ToSet(env.tasks) BY <2>2 DEF Settled, Flight
  <2>4. ToSet(env'.tasks) = ToSet(env.tasks) \cup {t} /\ IsInjective(env'.tasks)
    BY <1>1, <1>6, <2>3, ConsElements DEF Detaches, Settled, Flight
  <2> QED BY <2>1, <2>4 DEF Settled, Flight
<1>7. ASSUME NEW t \in Tasks, Attaches(t) PROVE Flight'
  <2>1. /\ se'[t].task_on_rq = 1
        /\ \A u \in Tasks \ {t} : se'[u].task_on_rq = se[u].task_on_rq
    BY <1>3, <1>7 DEF Attaches, Arrived
  <2>2. ToSet(env'.tasks) = ToSet(env.tasks) \ {t} /\ IsInjective(env'.tasks)
    BY <1>1, <1>7, TailElements DEF Attaches, Settled, Flight
  <2> QED BY <2>1, <2>2 DEF Settled, Flight
<1> QED BY <1>4, <1>5, <1>6, <1>7 DEF Moves

\* Every step moves.
LEMMA StepMoves ==
    ASSUME TimelineContract, MemberContract, Settled, Next
    PROVE  Settled' /\ Moves
<1>1. IInv' BY StepAdvances DEF Settled
<1>2. Sound(Memory') /\ Moves /\ Phased'
  <2>1. CASE AdvanceJiffies BY <2>1, EndMoves
  <2>2. CASE \E t \in Tasks, c \in CPUs : Wake(t, c) BY <2>2, WakeMoves DEF Moves
  <2>3. CASE \E c \in CPUs : Schedule(c) BY <2>3, ScheduleMoves
  <2>4. CASE \E c \in CPUs : Tick(c) BY <2>4, TickMoves
  <2>5. CASE \E src \in CPUs : ChooseSrc(src) BY <2>5, BeginMoves DEF ChooseSrc
  <2>6. CASE \E dst \in CPUs : MoreBalance(dst) BY <2>6, BeginMoves DEF MoreBalance
  <2>7. CASE BalanceStep
    <3>1. CASE DetachKeep BY <3>1, KeepMoves
    <3>2. CASE \E more \in BOOLEAN : DetachMove(more) BY <3>2, DetachMoves
    <3>3. CASE DetachEnd BY <3>3, EndMoves
    <3>4. CASE AttachNext BY <3>4, AttachMoves
    <3>5. CASE AttachEnd BY <3>5, EndMoves
    <3> QED BY <2>7, <3>1, <3>2, <3>3, <3>4, <3>5 DEF BalanceStep
  <2>8. CASE BalanceEnd BY <2>8, EndMoves
  <2> QED BY <2>1, <2>2, <2>3, <2>4, <2>5, <2>6, <2>7, <2>8 DEF Next
<1>3. Flight' BY <1>2, MovesFlight
<1> QED BY <1>1, <1>2, <1>3 DEF Settled

\* The invariant is inductive.
LEMMA SettledAlways ==
    ASSUME TimelineContract, MemberContract PROVE Spec => []Settled
<1>1. Init => Settled BY InitSettled
<1>2. Settled /\ [Next]_vars => Settled'
  <2>1. ASSUME Settled, Next PROVE Settled' BY <2>1, StepMoves
  <2>2. ASSUME Settled, UNCHANGED vars PROVE Settled'
    <3>1. IInv' BY <2>2 DEF Settled, IInv, EnvOK, Image, vars
    <3>2. Memory' = Memory /\ Flight' /\ Phased'
      BY <2>2 DEF Settled, Memory, Flight, Phased, vars
    <3> QED BY <2>2, <3>1, <3>2 DEF Settled
  <2> QED BY <2>1, <2>2
<1> QED BY <1>1, <1>2, PTL DEF Spec

-----------------------------------------------------------------------------
(* The theorems.                                                           *)

\* The invariant of the memory image says of the variables what the properties
\* of the runs say.
LEMMA SettledMeans ==
    ASSUME Settled
    PROVE  /\ QueueAccounting /\ CurrAgrees /\ TimelineHoldsWaiters
           /\ MarkedIsRunning /\ IdleWithWorkIsMarked /\ BuddyWaits
           /\ MigratingIsInFlight /\ WeightCoversQueue
<1>1. /\ Memory.rq = rq /\ Memory.cfs = cfs /\ Memory.se = se /\ Memory.tl = tl
      /\ \A c \in CPUs : Listed(Memory, c) = Queued(c)
  BY DEF Memory, Listed, Queued
<1>2. QueueAccounting
  BY <1>1 DEF Settled, Sound, Shape, Accounted, QueueAccounting, QueuedOn
<1>3. CurrAgrees BY <1>1 DEF Settled, Sound, Shape, CurrListed, CurrAgrees
<1>4. TimelineHoldsWaiters
  BY <1>1 DEF Settled, Sound, Shape, WaitersTimed, TimelineHoldsWaiters
<1>5. MarkedIsRunning BY <1>1 DEF Settled, Sound, Shape, MarksRun, MarkedIsRunning
<1>6. IdleWithWorkIsMarked BY <1>1 DEF Settled, Sound, WorkMarked, IdleWithWorkIsMarked
<1>7. BuddyWaits BY <1>1 DEF Settled, Sound, Shape, BuddiesListed, BuddyWaits
<1>8. MigratingIsInFlight BY DEF Settled, Flight, Phased, MigratingIsInFlight
<1>9. WeightCoversQueue
  BY <1>1 DEF Settled, Sound, Shape, Weighed, WeightCoversQueue
<1> QED BY <1>2, <1>3, <1>4, <1>5, <1>6, <1>7, <1>8, <1>9

\* enqueue_entity and dequeue_entity (runqueue.cpp:49-110), activate_task and
\* deactivate_task (407-416) and the list operations agree, whatever handler
\* calls them: both counts are the length of the task list, which holds a task
\* at most once, and on_rq says whether some list holds it.
THEOREM QueuesAccounted ==
    ASSUME TimelineContract, MemberContract PROVE Spec => []QueueAccounting
<1>1. Settled => QueueAccounting BY SettledMeans
<1> QED BY <1>1, SettledAlways, PTL

\* rq->curr, written by __schedule (runqueue.cpp:621-645), and cfs_rq->curr,
\* written by put_prev_entity, set_next_entity and update_min_vruntime, agree.
THEOREM CurrsAgree ==
    ASSUME TimelineContract, MemberContract PROVE Spec => []CurrAgrees
<1>1. Settled => CurrAgrees BY SettledMeans
<1> QED BY <1>1, SettledAlways, PTL

\* The running task is out of the tree, and every other queued one in it.
THEOREM TimelinesHoldWaiters ==
    ASSUME TimelineContract, MemberContract PROVE Spec => []TimelineHoldsWaiters
<1>1. Settled => TimelineHoldsWaiters BY SettledMeans
<1> QED BY <1>1, SettledAlways, PTL

\* The two marks for rescheduling go together, and only a running task has one.
THEOREM MarkedRuns ==
    ASSUME TimelineContract, MemberContract PROVE Spec => []MarkedIsRunning
<1>1. Settled => MarkedIsRunning BY SettledMeans
<1> QED BY <1>1, SettledAlways, PTL

\* Work that a migration brings to an idle CPU is never forgotten.
THEOREM IdleCpuWithWorkMarked ==
    ASSUME TimelineContract, MemberContract PROVE Spec => []IdleWithWorkIsMarked
<1>1. Settled => IdleWithWorkIsMarked BY SettledMeans
<1> QED BY <1>1, SettledAlways, PTL

\* The pointer cfs_rq->next never outlives the wait of the task it points to.
THEOREM BuddyAlwaysWaits ==
    ASSUME TimelineContract, MemberContract PROVE Spec => []BuddyWaits
<1>1. Settled => BuddyWaits BY SettledMeans
<1> QED BY <1>1, SettledAlways, PTL

\* TASK_ON_RQ_MIGRATING and the balancer's list are the same set of tasks.
THEOREM MigratingInFlight ==
    ASSUME TimelineContract, MemberContract PROVE Spec => []MigratingIsInFlight
<1>1. Settled => MigratingIsInFlight BY SettledMeans
<1> QED BY <1>1, SettledAlways, PTL

\* The two weights of a queue, which account_entity_enqueue and
\* account_entity_dequeue keep (runqueue.cpp): the one sched_slice divides by is
\* never less than the weight of what is queued, so never 0 where the tick
\* divides, and the other is exact.
THEOREM WeightsCoverQueues ==
    ASSUME TimelineContract, MemberContract PROVE Spec => []WeightCoversQueue
<1>1. Settled => WeightCoversQueue BY SettledMeans
<1> QED BY <1>1, SettledAlways, PTL

\* The loop of schedule (runqueue.cpp:455-461) ends after one round, with a
\* task that nobody wants off the CPU, and the CPU idles only without work.
THEOREM SchedulesDrain ==
    ASSUME TimelineContract, MemberContract PROVE Spec => ScheduleDrains
<1> DEFINE Drains == \A c \in CPUs :
                        Schedule(c) /\ fault' = "none" =>
                           /\ se'[rq'[c].curr].RESCHED = 0
                           /\ rq'[c].curr = idle[c] <=> rq'[c].nr_running = 0
<1>1. Settled /\ [Next]_vars => [Drains]_vars
  <2>1. ASSUME Settled PROVE Drains BY <2>1, ScheduleMoves
  <2> QED BY <2>1
<1>2. Spec => [][Drains]_vars BY <1>1, SettledAlways, PTL DEF Spec
<1> QED BY <1>2 DEF ScheduleDrains
=============================================================================
