SPECIFICATION FairSpec
CONSTANTS
    Image = 3
    CacheLine = 2
    DmaLimit = 3
    IpcPayload = 2
    Caps <- Capabilities
    MaxAttempts = 1
    MaxFaults = 2
INVARIANTS
    StartedWhole
    NoOops
PROPERTY
    Recovers
\* Main firmware stays, and so does a load whose retries are used.
CHECK_DEADLOCK FALSE
