\* Three gateways that are started for one configuration.
CONSTANTS
    p1 = p1
    p2 = p2
    p3 = p3
    NoOne = NoOne
    Processes <- MCProcesses
CHECK_DEADLOCK FALSE
SPECIFICATION LockFairSpec
INVARIANTS
    OneRightfulHolder
PROPERTIES
    RobbedHasACause
    AbandonedLockIsTaken
