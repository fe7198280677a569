SPECIFICATION PseFairSpec
CONSTANTS
    r1 = r1
    r2 = r2
    t1 = t1
    t2 = t2
    Rbs = {r1, r2}
    Takers = {t1, t2}
    Opener = t1
    Isr = Isr
    None = None
    MaxFrags = 2
    Long = {1, 2}
    MaxMsgs = 2
    MaxUnread = 2
    IpcMayFail = TRUE
INVARIANTS
    HoldsWhatItShows
    ReadInOrder
    NoNullRead
PROPERTIES
    EveryMessageRead
    ImplementsClientRx
\* Nothing remains to be done once MaxMsgs messages were read, and a reader
\* that dereferences NULL keeps the lock.
CHECK_DEADLOCK FALSE
