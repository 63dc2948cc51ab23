\* The followup queue: two messages of two destinations, a redelivery, both modes,
\* and an overflow that is refused or summarized.
CONSTANTS
    m1 = m1
    m2 = m2
    m3 = m3
    chanA = chanA
    chanB = chanB
    Unroutable = Unroutable
    None = None
    Objects = {1, 2}
    Messages <- MCMessages
    IdOf <- Redelivered
    RouteOf <- MCRouteOf
    Settings <- MCSettings
    MaxClears = 1
    MaxForgotten = 1
SPECIFICATION FairSpec
INVARIANTS
    TypeOK
    NothingVanishesUnlessLossy
    HandedAtMostOnce
    HandedInOrder
    BatchHasOneDestination
PROPERTIES
    EventuallyAccountedFor
