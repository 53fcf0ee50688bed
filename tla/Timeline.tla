------------------------------ MODULE Timeline ------------------------------
(***************************************************************************)
(* What a per-CPU task timeline promises its run queue: the queued         *)
(* entities of every CPU in the order of their vruntime, an entity behind  *)
(* the ones that were queued before it with the same vruntime.  This is    *)
(* the order __enqueue_entity (runqueue.cpp:312-331) searches for and      *)
(* rb_next (rb_tree.cpp:217-246) is documented to walk in.                 *)
(*                                                                         *)
(* The module has operators only.  RunQueue takes the timeline as constant *)
(* operators, and MCRunQueue gives it these; RbTimeline compares them with *)
(* the pointer level tree of RbTree.                                       *)
(***************************************************************************)
EXTENDS UnsignedLong, Sequences

\* One empty timeline for every CPU.
OrderedInit(CPUs) == [c \in CPUs |-> << >>]

\* How many of the entities of q stay in front of a new one with key k.
RankOf(q, k, key) ==
    CHOOSE n \in 0 .. Len(q) :
        /\ \A i \in 1 .. n : ~ULess(k, key[q[i]])
        /\ n = Len(q) \/ ULess(k, key[q[n + 1]])

\* Queue entity e of CPU c behind everything that does not compare above it.
OrderedInsert(tl, c, e, key) ==
    LET q == tl[c]
        n == RankOf(q, key[e], key)
    IN  [tl EXCEPT ![c] = [i \in 1 .. Len(q) + 1 |->
                              IF i <= n THEN q[i]
                              ELSE IF i = n + 1 THEN e ELSE q[i - 1]]]

\* Take entity e of CPU c out of its timeline.
OrderedErase(tl, c, e) ==
    LET q == tl[c]
        at == CHOOSE i \in 1 .. Len(q) : q[i] = e
    IN  IF \E i \in 1 .. Len(q) : q[i] = e
        THEN [tl EXCEPT ![c] = [i \in 1 .. Len(q) - 1 |->
                                   IF i < at THEN q[i] ELSE q[i + 1]]]
        ELSE tl

\* The entity that has waited with the smallest vruntime, if there is one.
OrderedFirst(tl, c, null) == IF tl[c] = << >> THEN null ELSE Head(tl[c])

\* The entities that wait on CPU c.
OrderedMembers(tl, c) == {tl[c][i] : i \in 1 .. Len(tl[c])}

\* Printing a timeline changes nothing, and nothing goes wrong in it.
OrderedWalk(tl, c) == tl
OrderedFault(tl) == "none"
=============================================================================
