SPECIFICATION Spec
CONSTANTS
    t1 = t1
    t2 = t2
    t3 = t3
    c1 = c1
    c2 = c2
    CPUs = {c1, c2}
    Tasks = {t1, t2}
    NULL = NULL
    Weight <- MCWeight
    IdleWeight = 1024
    UninitCpu = {c1, c2}
    MaxWeight = 1039
    StartJiffies = 1000
    MaxJiffies = 1003
CHECK_DEADLOCK FALSE
SYMMETRY MCSymmetry
INVARIANTS
    LoadIsWeight
    QueueLoadIsWeight
    TaskUtilInScale

    
