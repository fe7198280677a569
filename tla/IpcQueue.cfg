SPECIFICATION FairSpec
CONSTANTS
    t1 = t1
    b1 = b1
    b2 = b2
    Threads = {t1}
    Irq = Irq
    Worker = Worker
    Buffers = {b1, b2}
    MaxSends = 2
    MaxResets = 2
INVARIANTS
    BuffersConserved
    NoLostWakeup
    NoStaleAtAck
PROPERTIES
    QueueDrains
    ImplementsChannel
\* Senders stop after MaxSends messages, and a disabled device stays quiet.
CHECK_DEADLOCK FALSE
