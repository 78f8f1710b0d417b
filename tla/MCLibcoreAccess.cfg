CONSTANTS
    t1 = t1
    t2 = t2
    t3 = t3
    g1 = g1
    g2 = g2
    Tasks <- MCTasks
    GCJobs <- MCGCJobs
    MaxFlushes = 5
SPECIFICATION FairSpec
INVARIANTS
    CounterIsExact
    TimerOnlyWhenIdle
    JobsFollowLastFlush
PROPERTIES
    GarbageIsCollected
    AfterGCJobsRun
CHECK_DEADLOCK FALSE
