SPECIFICATION Spec
CONSTANTS
    NR_CPU = 6
    Machines <- MCMachines
    Garbage = {0}
CHECK_DEADLOCK FALSE
INVARIANTS
    BuiltAsDescribed
    GroupsSplitSpan
