\* Safety and liveness of the command queue on one busy lane and one idle lane.
CONSTANTS
    main = main
    side = side
    e1 = e1
    e2 = e2
    e3 = e3
    Lanes <- MCLanes
    Entries <- MCEntries
    LaneOf <- MCLaneOf
    MaxConcurrency = 2
    MaxGeneration = 1
SPECIFICATION FairSpec
INVARIANTS
    TypeOK
    NoStrandedWork
    ActiveIsExact
    PendingIsLocated
    NoOvertaking
    DrainedIsTrue
PROPERTIES
    StartsRespectCap
    QueuedEventuallyLeaves
