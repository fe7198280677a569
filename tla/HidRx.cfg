SPECIFICATION HidFairSpec
CONSTANTS
    r1 = r1
    r2 = r2
    t1 = t1
    t2 = t2
    Rbs = {r1, r2}
    Takers = {t1, t2}
    Opener = t1
    Worker = t2
    Isr = Isr
    None = None
    MaxFrags = 2
    Long = {1, 2, 3, 4, 5}
    MaxMsgs = 5
    IpcMayFail = FALSE
INVARIANTS
    NoEventLost
PROPERTIES
    AllProcessed
    ImplementsClientRx
\* The firmware stops after MaxMsgs messages.
CHECK_DEADLOCK FALSE
