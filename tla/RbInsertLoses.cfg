SPECIFICATION Spec
CONSTANTS
    CPUs = {c1}
    Entities = {e1, e2, e3}
    Keys = {0, 1}
    NULL = NULL
CHECK_DEADLOCK FALSE
PROPERTIES
    InsertAddsOne
