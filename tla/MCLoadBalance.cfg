SPECIFICATION Spec
CONSTANTS
    t1 = t1
    t2 = t2
    t3 = t3
    NR_CPU = 4
    Machine <- MCMachine
    Tasks = {t1, t2, t3}
    NULL = NULL
    Load <- MCLoad
    Affinities <- MCAffinities
    Util = {0, 1024}
    UninitFailed = {0}
    UninitCount = {0}
INVARIANTS
    AllowedPlacement
    RunningStays
    EligibleAtAndAbove
PROPERTIES
    ImplementsPlacement
