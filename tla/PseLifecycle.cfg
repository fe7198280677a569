SPECIFICATION FairSpec
CONSTANTS
    u1 = u1
    u2 = u2
    c1 = c1
    c2 = c2
    Users = {u1, u2}
    Callers = {u1}
    Bus = Bus
    Ev = Ev
    Cls = {c1, c2}
    Senders = {c1}
    None = None
    MaxResets = 1
    MaxReqs = 2
INVARIANTS
    LinksExact
    ReadyUnlessHindered
PROPERTY
    ResetCompletes
\* An operation on a freed client ends the behaviour.
CHECK_DEADLOCK FALSE
