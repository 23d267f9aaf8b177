CONSTANT Jobs = {j1, j2, j3, j4, j5}
SPECIFICATION FairSpec
INVARIANTS FenceExclusive NoLostWakeup CountersExact FenceOrder
PROPERTIES ImplementsAccess EveryJobCompletes
CHECK_DEADLOCK FALSE
