SPECIFICATION FairSpec
CONSTANTS
    c1 = c1
    c2 = c2
    t1 = t1
    t2 = t2
    t3 = t3
    CPUs = {c1, c2}
    Tasks = {t1, t2, t3}
    NULL = NULL
    idle <- MCidle
    Weight <- MCWeight
    UninitCpu = {c1}
    UninitCount = {3}
    StartJiffies = 1
    MaxJiffies = 1
    MaxPreempt = 1
    MaxRuntime = 0
    TLInit <- MCInit
    TLInsert <- OrderedInsert
    TLErase <- OrderedErase
    TLFirst <- MCFirst
    TLMembers <- OrderedMembers
    TLWalk <- OrderedWalk
    TLFault <- OrderedFault
CHECK_DEADLOCK FALSE
PROPERTIES
    MigrationCompletes
