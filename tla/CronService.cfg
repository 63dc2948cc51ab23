\* The cron service with manual runs, edits, and a crash.
CONSTANTS
    every = every
    once = once
    m1 = m1
    Jobs <- MCJobs
    Recurring = {every}
    Calls = {m1}
    JobOf <- MCJobOf
    InitialStores <- MCInitialStores
    MaxCrashes = 1
    MaxTime = 2
    MaxEdits = 2
    PatchedTimes = {2}
    MaxConcurrentRuns = 1
    MaxImmediate = 1
CHECK_DEADLOCK FALSE
SPECIFICATION FairSpec
INVARIANTS
    ConcurrentRunsHaveACause
    RunsAreRecorded
    SchedulerStaysArmed
PROPERTIES
    SlotsArePassedOverByRuns
    DueJobsAreRun
