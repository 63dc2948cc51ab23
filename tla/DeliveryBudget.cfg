\* Two deliveries and one recovery scan at a time, with its time budget.
CONSTANTS
    r1 = r1
    r2 = r2
    None = None
    Deliveries = {1, 2}
    Recoverers = {r1}
    BestEffort = {}
    Watched = {}
    Abortable = {}
    Cancellable = {}
    Legacy = {1}
    DiskFails = FALSE
    MaxRetries = 2
    RetryCap = 3
SPECIFICATION FairSpec
PROPERTIES
    EntriesAreResolved
