\* Two deferred restarts; the process may exit for good.
CONSTANTS
    MaxPolls = 2
SPECIFICATION FairSpec
INVARIANTS
    OneServer
    LockCoversServer
    WorkIsDrained
    DrainIsOver
PROPERTY
    RestartIsCarriedOut
CHECK_DEADLOCK FALSE
