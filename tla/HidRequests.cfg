SPECIFICATION FairSpec
CONSTANTS
    t1 = t1
    t2 = t2
    Threads = {t1, t2}
    MaxDevs = 2
    MaxWaits = 2
    MaxTries = 2
    MaxCalls = 2
    MaxEvents = 3
INVARIANTS
    DescriptorsRight
    OwnAnswers
    ResetsForCause
PROPERTY
    ComesUp
\* Nothing remains to be done once the bounds are used.
CHECK_DEADLOCK FALSE
