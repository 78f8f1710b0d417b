CONSTANTS
    t1 = t1
    t2 = t2
    t3 = t3
    g1 = g1
    g2 = g2
    Tasks <- MCTasks
    GCJobs <- MCGCJobs
    MaxFlushes = 5
SPECIFICATION Spec
INVARIANT NoJobDuringFlush
CHECK_DEADLOCK FALSE
