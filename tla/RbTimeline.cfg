SPECIFICATION WorkingSpec
CONSTANTS
    CPUs = {c1}
    Entities = {e1, e2, e3, e4}
    Keys = {0, 1}
    NULL = NULL
CHECK_DEADLOCK FALSE
PROPERTIES
    ImplementsTimeline
