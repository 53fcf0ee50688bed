----------------------------- MODULE RbTimeline -----------------------------
(***************************************************************************)
(* The red-black tree in the hands of cfs_rq: __enqueue_entity puts an     *)
(* entity that waits nowhere in the tree of a CPU under its new vruntime,  *)
(* __dequeue_entity takes one out of the tree it waits in, and after each  *)
(* of them the callers print the tree (debug_tasktimeline).  home is what  *)
(* the callers know from on_rq and the queue they hold; printed is the     *)
(* last listing of every CPU.                                              *)
(***************************************************************************)
EXTENDS RbTree

CONSTANT Keys

VARIABLES tree, key, home, printed

vars == <<tree, key, home, printed>>

Init ==
    /\ tree = RbInit
    /\ key = [e \in Entities |-> 0]
    /\ home = [e \in Entities |-> NULL]
    /\ printed = [c \in CPUs |-> << >>]

Waiters(c) == {e \in Entities : home[e] = c}

\* The caller continues with tree t: it prints the timeline of c.
PrintAfter(t, c) ==
    IF t.fault # "none" THEN tree' = t /\ UNCHANGED printed
    ELSE \E walk \in {RbWalkNodes(t, c)} :
            tree' = walk.t /\ printed' = [printed EXCEPT ![c] = walk.seen]

__enqueue_entity(c, e, k) ==
    /\ tree.fault = "none" /\ home[e] = NULL
    /\ home' = [home EXCEPT ![e] = c]
    /\ LET new == [key EXCEPT ![e] = k]
       IN  key' = new /\ PrintAfter(RbInsert(tree, c, e, new), c)

__dequeue_entity(c, e) ==
    /\ tree.fault = "none" /\ home[e] = c
    /\ home' = [home EXCEPT ![e] = NULL]
    /\ PrintAfter(RbErase(tree, c, e), c)
    /\ UNCHANGED key

Next == \E c \in CPUs, e \in Entities :
            (\E k \in Keys : __enqueue_entity(c, e, k)) \/ __dequeue_entity(c, e)

Spec == Init /\ [][Next]_vars

-----------------------------------------------------------------------------
(* The part of the interface in which the tree works.                      *)

\* An insertion that changes no pointer between the nodes already in the tree:
\* the new leaf is linked, and colours are flipped, but nothing is rotated.
OnlyLinks(c, e) ==
    \A d \in Sides, n \in Waiters(c) : tree'.child[d][n] \in {tree.child[d][n], e}

\* An erasure for which the parent is not read from rb_left, or is NULL there
\* rightly, and after which no black node is missing.
OnlyUnlinks(c, e) ==
    /\ tree.child["left"][e] # NULL \/ tree.root[c] = e
    /\ __rb_erase_augmented(tree, c, e).rebalance = NULL

WorkingNext ==
    \E c \in CPUs, e \in Entities :
        \/ \E k \in Keys : __enqueue_entity(c, e, k) /\ OnlyLinks(c, e)
        \/ __dequeue_entity(c, e) /\ OnlyUnlinks(c, e)

WorkingSpec == Init /\ [][WorkingNext]_vars

-----------------------------------------------------------------------------
T == INSTANCE TimelineSpec WITH timeline <- printed

\* In its working part the tree is the ordered timeline: printing it from the
\* leftmost node lists the waiting entities in the order they are due.
ImplementsTimeline == T!Spec

-----------------------------------------------------------------------------
(* What the source says of the tree and does not keep.                     *)

\* runqueue.cpp:311, "insert the sched_entity into the rb_tree": after
\* __enqueue_entity the tree of the CPU holds one entity more.
InsertAddsOne ==
    [][\A c \in CPUs, e \in Entities, k \in Keys :
          __enqueue_entity(c, e, k) =>
              RbMembers(tree', c) = RbMembers(tree, c) \cup {e}]_vars

\* rb_tree.cpp:265, "node to erase has no more than 1 child (easy!)": rb_erase
\* takes such a node out of its tree, and no other.
EraseTakesOne ==
    [][\A c \in CPUs, e \in Entities :
          /\ __dequeue_entity(c, e)
          /\ \E d \in Sides : tree.child[d][e] = NULL
          => RbMembers(tree', c) = RbMembers(tree, c) \ {e}]_vars
=============================================================================
