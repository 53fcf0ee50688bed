----------------------------- MODULE MCRunQueue -----------------------------
(* RunQueue over the ordered timelines of Timeline: what the run queue code *)
(* does when the tree keeps its promise.                                    *)
EXTENDS RunQueue, Timeline

CONSTANTS c1, c2, t1, t2, t3

MCidle == [c \in CPUs |-> <<"idle", c>>]
MCWeight == [e \in Entities |-> IF e = t2 THEN 512 ELSE 1024]
MCInit == OrderedInit(CPUs)
MCFirst(timeline, c) == OrderedFirst(timeline, c, NULL)
MCSymmetry == Permutations({t1, t3})
=============================================================================
