------------------------------ MODULE MCTopology -----------------------------
(* Topology on small machines, among them one whose CPUs are numbered like  *)
(* those of lscpu.json, the threads of a core far apart.                    *)
EXTENDS Topology

\* A machine from the core and the node of every CPU and the neighbours of
\* every node.
FromTree(online, core, node, near) ==
    LET same(f) == [c \in CPU |-> {x \in CPU : f[x] = f[c]}]
    IN  MachineOf(online, same(core), same(node),
                  [c \in CPU |-> {x \in CPU : node[x] \in near[node[c]]}])

\* CPU c is a thread of core c % k: numbered like lscpu.json.
Apart(k)  == [c \in CPU |-> c % k]
Beside(n) == [c \in CPU |-> c \div n]
Ring4     == [n \in 0 .. 3 |-> {n, (n + 1) % 4, (n + 3) % 4}]
All(n)    == [k \in 0 .. n - 1 |-> 0 .. n - 1]

\* Six CPUs on two nodes; three nodes in a row, so that the middle one sees
\* more than the others; four nodes in a ring; one core.  All of them with
\* every CPU online, and with some offline.
Trees ==
    {<<Apart(3), [c \in CPU |-> IF c % 3 = 0 THEN 0 ELSE 1], All(2)>>,
     <<Beside(2), Beside(2), [n \in 0 .. 2 |-> {k \in 0 .. 2 : k - n \in -1 .. 1}]>>,
     <<[c \in CPU |-> c], [c \in CPU |-> c % 4], Ring4>>,
     <<Apart(1), Apart(1), All(1)>>,
     <<Beside(2), [c \in CPU |-> IF c < 4 THEN 0 ELSE 1], All(2)>>}
MCMachines == {FromTree(on, t[1], t[2], t[3]) :
                 t \in Trees, on \in {CPU, CPU \ {0}, {0, 3}, {1, 2, 4}}}
=============================================================================
