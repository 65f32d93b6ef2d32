\* An operation waiting for its retry does not hold its lane.
SPECIFICATION Spec
CONSTANTS
    MaxOps = 2
    chat1 = chat1
    Lanes = {chat1}
    MaxClaims = 2
    MaxNow = 1
    BaseDelay = 1
    MaxExponent = 1
INVARIANTS
    LaneLandsInOrder
CHECK_DEADLOCK FALSE
