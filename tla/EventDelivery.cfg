SPECIFICATION Spec
CONSTANTS
    Clients = {c1}
    MaxEvents = 2
    OutboxBatch = 2
    HubCapacity = 1
    Page = 1
    SeenCap = 1
    MaxFaults = 3
CHECK_DEADLOCK FALSE
INVARIANTS
    TypeOK
    Accounted
    RevokedStops
PROPERTIES
    EventuallyInformed
