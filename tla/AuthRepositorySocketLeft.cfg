\* One store operation fails.
SPECIFICATION Spec
CONSTANTS
    u1 = u1
    u2 = u2
    Users = {u1, u2}
    None = None
    QueueCapacity = 1
    AccountLimit = 2
    MaxGrant = 2
    MaxFaults = 1
    MaxCrashes = 0
INVARIANTS
    SocketFollowsAccount
CHECK_DEADLOCK FALSE
