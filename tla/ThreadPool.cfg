CONSTANTS
    Threads = {t1, t2, t3}
    MaxSettings = {1, 2, 3}
    QueueBound = 2
SPECIFICATION FairSpec
INVARIANTS IdleCountExact
PROPERTIES ExitsWithEmptyQueue JobsAreServed AbortEndsThreads
