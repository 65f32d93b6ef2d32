\* Liveness: one call, two faults, one sign-in.
SPECIFICATION FairSpec
CONSTANTS
    c1 = c1
    Calls = {c1}
    Ping = Ping
    MaxRequestId = 2
    a = a
    Credentials = {a}
    Anonymous = Anonymous
    Capacity = 1
    QueueCapacity = 1
    MaxAttempt = 2
    MaxFaults = 2
    MaxChanges = 1
PROPERTIES
    CallsEnd
    HostSettles
CHECK_DEADLOCK FALSE
