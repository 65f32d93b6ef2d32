\* A frame whose write failed is written again on the next connection.
SPECIFICATION Spec
CONSTANTS
    c1 = c1
    Calls = {c1}
    Ping = Ping
    MaxRequestId = 2
    a = a
    Credentials = {a}
    Anonymous = Anonymous
    Capacity = 1
    QueueCapacity = 1
    MaxAttempt = 2
    MaxFaults = 2
    MaxChanges = 1
PROPERTIES
    NeverReplays
CHECK_DEADLOCK FALSE
