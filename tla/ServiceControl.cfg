SPECIFICATION FairControlSpec
CONSTANTS
    Clients = {c1, c2}
    Watchdogs = {w1, w2}
    Attempts = 3
    MaxStops = 1
    MaxCrashes = 2
INVARIANTS
    OneRuntime
    StopHolds
PROPERTIES
    StopStops
CHECK_DEADLOCK FALSE
