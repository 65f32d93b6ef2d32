\* The refresh endpoint is unavailable.
SPECIFICATION Spec
CONSTANTS
    u1 = u1
    u2 = u2
    Users = {u1, u2}
    None = None
    QueueCapacity = 1
    AccountLimit = 2
    MaxGrant = 2
    MaxFaults = 0
    MaxCrashes = 0
PROPERTIES
    OutagesDropNobody
CHECK_DEADLOCK FALSE
