\* Three accounts where two fit, one command waiting, one store fault, one crash.
SPECIFICATION Spec
CONSTANTS
    u1 = u1
    u2 = u2
    u3 = u3
    Users = {u1, u2, u3}
    None = None
    QueueCapacity = 1
    AccountLimit = 2
    MaxGrant = 2
    MaxFaults = 1
    MaxCrashes = 1
SYMMETRY Symmetric
INVARIANTS
    TypeOK
    SessionIsWhole
    StoresAgree
    WithinLimit
PROPERTIES
    OnlyEndedSessionsAreDropped
CHECK_DEADLOCK FALSE
