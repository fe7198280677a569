SPECIFICATION FairSpec
CONSTANTS
    t1 = t1
    t2 = t2
    Threads = {t1, t2}
    Isr = Isr
    RingSize = 2
    None = None
    Window = 2
    MaxFrags = 2
    MaxMsgs = 3
    IpcMayFail = TRUE
    Trees = {"6.5", "5.15"}
INVARIANTS
    TxBufsConserved
    CreditPerMessage
    FragmentsUnlessRewound
PROPERTY
    EveryMessageSent
\* The senders stop after MaxMsgs messages.
CHECK_DEADLOCK FALSE
