\* A best-effort delivery whose caller is told of failures, replayed by recovery.
CONSTANTS
    r1 = r1
    r2 = r2
    None = None
    Deliveries = {1}
    Recoverers = {r1}
    BestEffort = {1}
    Watched = {1}
    Abortable = {}
    Cancellable = {}
    Legacy = {}
    DiskFails = FALSE
    MaxRetries = 1
    RetryCap = 1
SPECIFICATION Spec
INVARIANTS
    AckedWasDelivered
