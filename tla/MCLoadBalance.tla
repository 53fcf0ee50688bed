---------------------------- MODULE MCLoadBalance ----------------------------
(***************************************************************************)
(* LoadBalance on four CPUs and three tasks.                               *)
(***************************************************************************)
EXTENDS LoadBalance

CONSTANTS t1, t2, t3

\* Two threads of a core, another core of the same node, and another node: with
\* three levels a CPU can be refused at one that is not the last.
MCMachine ==
    MachineOf(CPU, [c \in CPU |-> IF c \in {0, 2} THEN {0, 2} ELSE {c}],
              [c \in CPU |-> IF c = 3 THEN {3} ELSE {0, 1, 2}], [c \in CPU |-> CPU])
MCLoad == [t \in Tasks |-> IF t = t3 THEN 15 ELSE 1024]
Anywhere == [t \in Tasks |-> CPU]
MCAffinities ==
    {Anywhere, [t \in Tasks |-> IF t = t3 THEN CPU ELSE {0}],
     [t \in Tasks |-> IF t = t1 THEN {0, 1} ELSE {1, 2}]}
=============================================================================
