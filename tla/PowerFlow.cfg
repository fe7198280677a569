SPECIFICATION FairSpec
CONSTANTS
    MaxSleeps = 2
    MaxData = 2
    MaxFaults = 1
INVARIANTS
    SleepsTold
    NothingOverwritten
PROPERTY
    WakesUp
\* Nothing remains to be done once the bounds are used.
CHECK_DEADLOCK FALSE
