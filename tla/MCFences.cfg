SPECIFICATION Spec
CONSTANTS
    c1 = c1
    c2 = c2
    b1 = b1
    b2 = b2
    Clients <- MCClients
    Buffers = {b1}
    Drivers <- MCDrivers
    StaleHandles = FALSE
    MaxFences = 3
    MaxSuspends = 1
    MaxFailures = 2
INVARIANTS
    HandleIsMine
    RefsExact
    WaitedForIsReachable
PROPERTIES
    WaitsEnd
CHECK_DEADLOCK FALSE
