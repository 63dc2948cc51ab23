\* Two runners, wakes for everybody and for a session, two batches.
CONSTANTS
    h1 = h1
    h2 = h2
    session = session
    wake = wake
    All = All
    Interval = Interval
    None = None
    Handlers <- MCHandlers
    Targets <- MCTargets
    Reasons <- MCReasons
    Priority <- MCPriority
    Batches <- MCBatches
    b1 = b1
    b2 = b2
SPECIFICATION Spec
SYMMETRY Identities
INVARIANTS
    PendingIsScheduled
    OneBatchAtATime
    HeartbeatsStayArmed

PROPERTY
    RequestsAreKept
