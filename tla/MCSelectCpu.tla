----------------------------- MODULE MCSelectCpu -----------------------------
(* SelectCpu on four CPUs: two cores of one node, numbered like lscpu.json, *)
(* and three nodes in a row, one of them with two CPUs.                     *)
EXTENDS SelectCpu

MCMachines ==
    {MachineOf(CPU, [c \in CPU |-> {x \in CPU : x % 2 = c % 2}],
               [c \in CPU |-> CPU], [c \in CPU |-> CPU]),
     MachineOf(CPU, [c \in CPU |-> {c}],
               [c \in CPU |-> IF c < 2 THEN {0, 1} ELSE {c}],
               [c \in CPU |-> IF c = 3 THEN {2, 3} ELSE IF c = 2 THEN CPU ELSE {0, 1, 2}])}

\* Idle; idle with load left behind by a task that went away; a task of nice
\* 19, one of nice 0, and two.
MCQueueState ==
    {[idle |-> TRUE, runnable |-> 0, load |-> 0],
     [idle |-> TRUE, runnable |-> 0, load |-> 1024],
     [idle |-> FALSE, runnable |-> 15, load |-> 15],
     [idle |-> FALSE, runnable |-> 1024, load |-> 1024],
     [idle |-> FALSE, runnable |-> 2048, load |-> 2048]}
=============================================================================
