------------------------------- MODULE Placement ------------------------------
(***************************************************************************)
(* What wake-ups and the balancer promise together about where tasks are:  *)
(* a task is put on one CPU when it is started; from then on it is there,  *)
(* or in flight from there, together with others from the same CPU, and    *)
(* lands on another CPU that it may run on, before anything else is        *)
(* started.                                                                *)
(*                                                                         *)
(* LoadBalance and RunQueue implement this: the one with the decisions of  *)
(* the balancer, the other with all that happens to the queues.            *)
(***************************************************************************)
EXTENDS FiniteSets

CONSTANTS CPUs, Tasks, Nowhere     \* Nowhere is not a CPU

VARIABLES
    may,     \* may[t]: where t may run
    at,      \* at[t]: the CPU in whose queue t is
    from     \* from[t]: the CPU t has been detached from

vars == <<may, at, from>>

Init ==
    /\ may \in [Tasks -> SUBSET CPUs]
    /\ at = [t \in Tasks |-> Nowhere] /\ from = [t \in Tasks |-> Nowhere]

InFlight == {t \in Tasks : from[t] # Nowhere}

Start(t, c) ==
    /\ InFlight = {} /\ at[t] = Nowhere /\ c \in may[t]
    /\ at' = [at EXCEPT ![t] = c]
    /\ UNCHANGED <<may, from>>

Detach(t) ==
    /\ at[t] # Nowhere
    /\ \A x \in InFlight : from[x] = at[t]
    /\ from' = [from EXCEPT ![t] = at[t]]
    /\ at' = [at EXCEPT ![t] = Nowhere]
    /\ UNCHANGED may

Attach(S, c) ==
    /\ S # {} /\ S \subseteq InFlight
    /\ \A t \in S : c \in may[t] \ {from[t]}
    /\ at' = [t \in Tasks |-> IF t \in S THEN c ELSE at[t]]
    /\ from' = [t \in Tasks |-> IF t \in S THEN Nowhere ELSE from[t]]
    /\ UNCHANGED may

Next ==
    \/ \E t \in Tasks, c \in CPUs : Start(t, c)
    \/ \E t \in Tasks : Detach(t)
    \/ \E S \in SUBSET Tasks, c \in CPUs : Attach(S, c)

Spec == Init /\ [][Next]_vars
=============================================================================
