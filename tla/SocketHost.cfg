\* Safety and the contract: two calls, an account that signs in and out, one fault.
SPECIFICATION Spec
CONSTANTS
    c1 = c1
    c2 = c2
    Calls = {c1, c2}
    Ping = Ping
    MaxRequestId = 3
    a = a
    Credentials = {a}
    Anonymous = Anonymous
    Capacity = 2
    QueueCapacity = 1
    MaxAttempt = 1
    MaxFaults = 1
    MaxChanges = 1
SYMMETRY Symmetric
INVARIANTS
    TypeOK
    AnswersAreOwn
    SlotsMatchCallers
    NeverUnderAnEarlierCredential
PROPERTIES
    KeepsContract
CHECK_DEADLOCK FALSE
