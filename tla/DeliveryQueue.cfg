\* One delivery and two overlapping recovery scans.
CONSTANTS
    r1 = r1
    r2 = r2
    None = None
    Deliveries = {1}
    Recoverers <- MCRecoverers
    BestEffort = {1}
    Watched = {}
    Abortable = {1}
    Cancellable = {1}
    Legacy = {1}
    DiskFails = TRUE
    MaxRetries = 2
    RetryCap = 3
SPECIFICATION Spec
SYMMETRY ScanSymmetry
INVARIANTS
    NothingLost
    DuplicatesHaveACause
PROPERTIES
    SettledStaysSettled
