SPECIFICATION FairSpec
CONSTANTS
    Clients = {1, 2}
    Kept = {2}
    FifoSize = 3
    MaxResets = 1
    MaxFaults = 1
INVARIANTS
    DevicesExact
    NoUseAfterFree
PROPERTIES
    StartMeansStarted
    ComesUp
\* Nothing remains to be done once the bus is up and the bounds are used, or
\* when the driver gave up.
CHECK_DEADLOCK FALSE
