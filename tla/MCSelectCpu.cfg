SPECIFICATION FairSpec
CONSTANTS
    NR_CPU = 4
    Machines <- MCMachines
    QueueState <- MCQueueState
    StackWord = {0, 700, 10000000}
    ULONG_MAX_100 = 10000000
CHECK_DEADLOCK FALSE
INVARIANTS
    StaysAllowed
PROPERTIES
    MovesToLightGroup
    TakesIdleCpu
    SearchEnds
