---------------------------- MODULE TimelineSpec ----------------------------
(***************************************************************************)
(* The abstract specification of the per-CPU task timelines: entities wait *)
(* in the order of Timeline, each on at most one CPU, and leave it from    *)
(* any place (the picked one, the preferred buddy, the migrated one).      *)
(***************************************************************************)
EXTENDS Timeline

CONSTANTS CPUs, Entities, Keys

VARIABLES timeline, key

Waiting(e) == \E c \in CPUs : e \in OrderedMembers(timeline, c)

Init ==
    /\ timeline = OrderedInit(CPUs)
    /\ key \in [Entities -> Keys]

Enqueue(c, e, k) ==
    /\ ~Waiting(e)
    /\ key' = [key EXCEPT ![e] = k]
    /\ timeline' = OrderedInsert(timeline, c, e, key')

Dequeue(c, e) ==
    /\ e \in OrderedMembers(timeline, c)
    /\ timeline' = OrderedErase(timeline, c, e)
    /\ UNCHANGED key

Next == \E c \in CPUs, e \in Entities :
            (\E k \in Keys : Enqueue(c, e, k)) \/ Dequeue(c, e)

Spec == Init /\ [][Next]_<<timeline, key>>
=============================================================================
