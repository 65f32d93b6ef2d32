\* A read between the press and its commit voids the commit.
SPECIFICATION Spec
CONSTANTS
    p = p
    Profiles = {p}
    v = v
    Viewers = {v}
    NoViewer = NoViewer
    NoCall = NoCall
    QueueCapacity = 2
    MaxCommands = 6
    MaxLost = 0
INVARIANTS
    InFlightIsPursued
CHECK_DEADLOCK FALSE
