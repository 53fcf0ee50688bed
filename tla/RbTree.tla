------------------------------- MODULE RbTree -------------------------------
(***************************************************************************)
(* The red-black tree of rb_tree.cpp and rb_tree.hpp, pointer by pointer,  *)
(* and the search of __enqueue_entity (runqueue.cpp) that inserts in it.   *)
(*                                                                         *)
(* A tree value t holds the fields of every rb_node, whichever tree the    *)
(* node is in, because the code has one node per entity and leaves stale   *)
(* pointers in the nodes it unlinks; the root and rb_leftmost pointers of  *)
(* every CPU; and fault, what stopped the program: "crash" is a NULL       *)
(* dereference, "hang" a loop over a cyclic list.                          *)
(*                                                                         *)
(* The mirrored branches of the code are one operator with the side d as a *)
(* parameter, except where they differ.                                    *)
(***************************************************************************)
EXTENDS UnsignedLong, FiniteSets, Sequences

CONSTANTS CPUs, Entities, NULL

RED   == 0
BLACK == 1
Sides == {"left", "right"}
Opp(d) == IF d = "left" THEN "right" ELSE "left"

\* A loop that has not ended after this many rounds never ends: a round moves
\* along a pointer or recolours, and there are fewer than this many
\* combinations of a node and the colours above it in the instances checked.
LoopBound == 8 * (Cardinality(Entities) + 1)

RbInit ==
    [child    |-> [d \in Sides |-> [n \in Entities |-> NULL]],
     parent   |-> [n \in Entities |-> NULL],
     color    |-> [n \in Entities |-> RED],
     root     |-> [c \in CPUs |-> NULL],
     leftmost |-> [c \in CPUs |-> NULL],
     fault    |-> "none"]

Fail(t, how) == [t EXCEPT !.fault = how]

SetChild(t, d, n, x)  == [t EXCEPT !.child[d][n] = x]
SetParent(t, n, p)    == [t EXCEPT !.parent[n] = p]
SetColor(t, n, k)     == [t EXCEPT !.color[n] = k]
\* if (n) { n->rb_parent = p; n->color = k; }
Reparent(t, n, p, k) ==
    IF n = NULL THEN t ELSE SetColor(SetParent(t, n, p), n, k)

IsRed(t, n) == n # NULL /\ t.color[n] = RED

\* Repeat Step from st until st.done.  (The singleton makes TLC evaluate a
\* round once, not every time its result is used.)
Loop(Step(_), st) ==
    LET run[n \in 0 .. LoopBound] ==
            IF n = 0 THEN st
            ELSE CHOOSE next \in {IF last.done THEN last ELSE Step(last) :
                                     last \in {run[n - 1]}} : TRUE
        end == run[LoopBound]
    IN  IF end.done THEN end ELSE [end EXCEPT !.t = Fail(@, "hang")]

-----------------------------------------------------------------------------
__rb_change_child(t, old, new, parent, c) ==
    IF parent = NULL THEN [t EXCEPT !.root[c] = new]
    ELSE SetChild(t, IF t.child["left"][parent] = old THEN "left" ELSE "right",
                  parent, new)

\* The parent whose child pointer is redirected is read back from old after
\* it has been overwritten.
__rb_rotate_set_parents(t, old, new, c, color) ==
    LET t1 == Reparent(t, new, t.parent[old], t.color[old])
        t2 == Reparent(t1, old, new, color)
    IN  __rb_change_child(t2, old, new, t2.parent[old], c)

\* Mutant: the node keeps the children it had in the tree it was erased from.
rb_link_node_dirty(t, n, parent, d, c) ==
    LET t1 == SetColor(SetParent(t, n, parent), n, RED)
    IN  IF parent = NULL THEN [t1 EXCEPT !.root[c] = n] ELSE SetChild(t1, d, parent, n)

rb_link_node(t, n, parent, d, c) ==
    LET t1 == SetColor(SetParent(t, n, parent), n, RED)
        t2 == SetChild(SetChild(t1, "left", n, NULL), "right", n, NULL)
    IN  IF parent = NULL THEN [t2 EXCEPT !.root[c] = n]
        ELSE SetChild(t2, d, parent, n)

\* One round of __rb_insert below a red parent; d is the side of g on which
\* the code takes the parent to be.
InsertRound(st, g, d, c) ==
    LET o     == Opp(d)
        t     == st.t
        node  == st.node
        par   == st.parent
        uncle == t.child[o][g]
        flip  == SetColor(Reparent(Reparent(t, uncle, g, BLACK), par, g, BLACK),
                          g, RED)                                 \* Case 1
        inner == node = t.child[o][par]                           \* Case 2
        moved == t.child[d][node]
        t2    == IF inner
                 THEN Reparent(Reparent(SetChild(SetChild(t, o, par, moved),
                                                 d, node, par),
                                        moved, par, BLACK),
                               par, node, RED)
                 ELSE t
        top   == IF inner THEN node ELSE par
        tmp   == t2.child[o][top]
        t3    == Reparent(SetChild(SetChild(t2, d, g, tmp), o, top, g),
                          tmp, g, BLACK)                          \* Case 3
    IN  IF IsRed(t, uncle)
        THEN [st EXCEPT !.t = flip, !.node = g, !.parent = flip.parent[g]]
        ELSE [st EXCEPT !.t = __rb_rotate_set_parents(t3, g, top, c, RED),
                        !.done = TRUE]

__rb_insert(t, n, c) ==
    LET Step(st) ==
            LET p == st.parent
                g == st.t.parent[p]
            IN  IF p = NULL
                THEN [st EXCEPT !.t = Reparent(@, st.node, NULL, BLACK),
                                !.done = TRUE]
                ELSE IF st.t.color[p] = BLACK THEN [st EXCEPT !.done = TRUE]
                ELSE IF g = NULL
                THEN [st EXCEPT !.t = Fail(@, "crash"), !.done = TRUE]
                ELSE InsertRound(st, g, IF p # st.t.child["right"][g]
                                        THEN "left" ELSE "right", c)
    IN  Loop(Step, [t |-> t, node |-> n, parent |-> t.parent[n],
                    done |-> FALSE]).t

\* __enqueue_entity: search from the root, to the left only below a node with
\* a larger key; link the node, tell whether it is the leftmost, rebalance.
RbInsert(t, c, e, key) ==
    LET Step(st) ==
            IF st.link = NULL THEN [st EXCEPT !.done = TRUE]
            ELSE LET d == IF ULess(key[e], key[st.link]) THEN "left" ELSE "right"
                 IN  [st EXCEPT !.parent = st.link, !.side = d,
                                !.link = t.child[d][st.link],
                                !.leftmost = @ /\ d = "left"]
        at == Loop(Step, [t |-> t, link |-> t.root[c], parent |-> NULL,
                          side |-> "left", leftmost |-> TRUE, done |-> FALSE])
        t1 == rb_link_node(t, e, at.parent, at.side, c)
        t2 == IF at.leftmost THEN [t1 EXCEPT !.leftmost[c] = e] ELSE t1
    IN  IF at.t.fault # "none" THEN at.t ELSE __rb_insert(t2, e, c)

\* The node after n: down the right subtree, or up to the first ancestor it
\* is left of.  hang: the pointers lead around in a circle.
rb_next(t, n) ==
    LET right == t.child["right"][n]
        Down(st) == LET l == t.child["left"][st.node]
                    IN  IF l = NULL THEN [st EXCEPT !.done = TRUE]
                        ELSE [st EXCEPT !.node = l]
        Up(st)   == LET p == t.parent[st.node]
                    IN  IF p # NULL /\ st.node = t.child["right"][p]
                        THEN [st EXCEPT !.node = p]
                        ELSE [st EXCEPT !.node = p, !.done = TRUE]
        st0 == [t |-> t, node |-> n, done |-> FALSE]
        end == IF right # NULL THEN Loop(Down, [st0 EXCEPT !.node = right])
               ELSE Loop(Up, st0)
    IN  [node |-> end.node, fault |-> end.t.fault]

-----------------------------------------------------------------------------
\* The case of two children in __rb_erase_augmented: the leftmost node s of
\* the right subtree takes the place of n.
EraseInner(t, c, n) ==
    LET right == t.child["right"][n]
        Down(st) == LET l == t.child["left"][st.s]
                    IN  IF l = NULL THEN [st EXCEPT !.done = TRUE]
                        ELSE [st EXCEPT !.parent = st.s, !.s = l]
        at     == Loop(Down, [t |-> t, s |-> right, parent |-> right, done |-> FALSE])
        s      == at.s
        parent == at.parent
        child2 == t.child["right"][s]
        t1 == IF s = right THEN t
              ELSE SetParent(SetChild(SetChild(t, "left", parent, child2),
                                      "right", s, right), right, s)
        left == t1.child["left"][n]
        t2 == SetParent(SetChild(t1, "left", s, left), left, s)
        t3 == __rb_change_child(t2, n, s, t2.parent[n], c)
        t4 == Reparent(t3, s, t2.parent[n], t2.color[n])
    IN  CASE at.t.fault # "none" -> [t |-> at.t, rebalance |-> NULL]
          [] left = NULL -> [t |-> Fail(t1, "crash"), rebalance |-> NULL]
          [] child2 # NULL -> [t |-> Reparent(t4, child2, parent, BLACK),
                               rebalance |-> NULL]
          [] OTHER -> [t |-> t4,
                       rebalance |-> IF t3.color[s] = BLACK THEN parent ELSE NULL]

\* Unlink n from the tree of c; rebalance is where a black node is missing.
\* Without a left child, parent is read from rb_left and so is NULL.
__rb_erase_augmented(t, c, n) ==
    LET right == t.child["right"][n]
        left  == t.child["left"][n]
        next  == rb_next(t, n)
        t0 == IF t.leftmost[c] = n
              THEN [t EXCEPT !.leftmost[c] = next.node, !.fault = next.fault] ELSE t
        Replace(child, parent) ==
            [t |-> __rb_change_child(Reparent(t0, child, parent, t0.color[n]),
                                     n, child, parent, c),
             rebalance |-> IF child = NULL /\ t0.color[n] = BLACK
                           THEN parent ELSE NULL]
    IN  CASE t0.fault # "none" -> [t |-> t0, rebalance |-> NULL]
          [] left = NULL       -> Replace(right, left)
          [] right = NULL      -> Replace(left, t0.parent[n])
          [] OTHER             -> EraseInner(t0, c, n)

\* One round of ____rb_erase_color; d is the side of parent on which the code
\* takes the short subtree to be.  On the right side the test of the parent's
\* colour is an assignment.
EraseColorRound(st, d, c) ==
    LET o   == Opp(d)
        par == st.parent
        sib0 == st.t.child[o][par]
        near0 == st.t.child[d][sib0]
        t1  == IF ~IsRed(st.t, sib0) THEN st.t                    \* Case 1
               ELSE __rb_rotate_set_parents(
                        Reparent(SetChild(SetChild(st.t, o, par, near0), d, sib0, par),
                                 near0, par, BLACK),
                        par, sib0, c, RED)
        sib  == IF IsRed(st.t, sib0) THEN near0 ELSE sib0
        far  == t1.child[o][sib]
        near == t1.child[d][sib]
        \* Case 2
        flip == Reparent(t1, sib, par, RED)
        up   == [st EXCEPT !.t = IF d = "right" THEN SetColor(flip, par, RED) ELSE flip,
                           !.node = par, !.parent = flip.parent[par],
                           !.done = flip.parent[par] = NULL]
        \* Case 3
        moved == t1.child[o][near]
        t3   == IF IsRed(t1, far) THEN t1
                ELSE Reparent(SetChild(SetChild(SetChild(t1, d, sib, moved),
                                                o, near, sib), o, par, near),
                              moved, sib, BLACK)
        top  == IF IsRed(t1, far) THEN sib ELSE near
        side == IF IsRed(t1, far) THEN far ELSE sib
        \* Case 4
        over == t3.child[d][top]
        t4   == Reparent(SetChild(SetChild(t3, o, par, over), d, top, par),
                         side, top, BLACK)
        t5   == IF over = NULL THEN t4 ELSE SetParent(t4, over, par)
    IN  IF sib0 = NULL \/ (IsRed(st.t, sib0) /\ near0 = NULL)
        THEN [st EXCEPT !.t = Fail(@, "crash"), !.done = TRUE]
        ELSE IF ~IsRed(t1, far) /\ ~IsRed(t1, near)
        THEN IF d = "left" /\ flip.color[par] = RED
             THEN [st EXCEPT !.t = SetColor(flip, par, BLACK), !.done = TRUE]
             ELSE up
        ELSE [st EXCEPT !.t = __rb_rotate_set_parents(t5, par, top, c, BLACK),
                        !.done = TRUE]

____rb_erase_color(t, parent, c) ==
    LET Step(st) == EraseColorRound(st, IF st.node # st.t.child["right"][st.parent]
                                        THEN "left" ELSE "right", c)
    IN  Loop(Step, [t |-> t, node |-> NULL, parent |-> parent, done |-> FALSE]).t

\* rb_erase_cached
RbErase(t, c, n) ==
    LET r == __rb_erase_augmented(t, c, n)
    IN  IF r.rebalance = NULL \/ r.t.fault # "none" THEN r.t
        ELSE ____rb_erase_color(r.t, r.rebalance, c)

-----------------------------------------------------------------------------
\* rb_first_cached
RbFirst(t, c) == t.leftmost[c]

\* debug_tasktimeline: the nodes from the leftmost one along rb_next.
RbWalkNodes(t, c) ==
    LET Step(st) ==
            IF st.node = NULL THEN [st EXCEPT !.done = TRUE]
            ELSE LET next == rb_next(t, st.node)
                 IN  [st EXCEPT !.seen = Append(@, st.node), !.node = next.node,
                                !.t.fault = next.fault,
                                !.done = next.fault # "none"]
    IN  Loop(Step, [t |-> t, node |-> t.leftmost[c], seen |-> << >>, done |-> FALSE])

RbWalk(t, c) == RbWalkNodes(t, c).t

RbFault(t) == t.fault

\* The nodes that can be found from the root of c.
RbMembers(t, c) ==
    LET reach[n \in 0 .. Cardinality(Entities)] ==
            IF n = 0 THEN {t.root[c]} \ {NULL}
            ELSE LET r == reach[n - 1]
                 IN  r \cup ({t.child[d][x] : d \in Sides, x \in r} \ {NULL})
    IN  reach[Cardinality(Entities)]
=============================================================================
