SPECIFICATION Spec
CONSTANTS
    NrLevel = 2
    Weight <- MCWeight
    MigrationCost = 500
    MaxJiffies = 27
CHECK_DEADLOCK FALSE
INVARIANTS
    NeverOverdue
    IntervalInRange
PROPERTIES
    NextIsEarliest
