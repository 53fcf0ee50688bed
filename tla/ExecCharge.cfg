SPECIFICATION Spec
CONSTANTS
    c1 = c1
    c2 = c2
    t1 = t1
    t2 = t2
    t3 = t3
    CPUs = {c1, c2}
    Tasks = {t1, t2}
    NULL = NULL
    idle <- MCidle
    Weight <- MCWeight
    UninitCpu = {c1}
    UninitCount = {3}
    StartJiffies = 1
    MaxJiffies = 2
    MaxPreempt = 1
    MaxRuntime = 80
    TLInit <- MCInit
    TLInsert <- OrderedInsert
    TLErase <- OrderedErase
    TLFirst <- MCFirst
    TLMembers <- OrderedMembers
    TLWalk <- OrderedWalk
    TLFault <- OrderedFault
CHECK_DEADLOCK FALSE
INVARIANTS
    ExecTimeElapsed
