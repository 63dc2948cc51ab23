\* An overflow while a batch is being sent, under the default settings.
CONSTANTS
    m1 = m1
    m2 = m2
    m3 = m3
    chanA = chanA
    chanB = chanB
    Unroutable = Unroutable
    None = None
    Objects = {1, 2}
    Messages <- MCMessages
    IdOf <- OwnIds
    RouteOf <- OneRoute
    Settings <- DefaultSettings
    MaxClears = 0
    MaxForgotten = 0
SPECIFICATION Spec
INVARIANTS
    NothingVanishes
