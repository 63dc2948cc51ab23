\* The debouncer with two keys, saturated by one of them.
CONSTANTS
    k1 = k1
    k2 = k2
    Keys <- MCKeys
    MaxTrackedKeys = 1
    MaxItems = 4
CHECK_DEADLOCK FALSE
SPECIFICATION FairSpec
INVARIANTS
    FlushedInOrder
PROPERTIES
    EveryMessageIsFlushed
