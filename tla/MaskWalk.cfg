SPECIFICATION FairSpec
CONSTANT NR_CPU = 5
INVARIANTS EachOnce OwnerFirst
PROPERTY WalkEnds
CHECK_DEADLOCK FALSE
