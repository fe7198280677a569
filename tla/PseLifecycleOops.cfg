SPECIFICATION Spec
CONSTANTS
    u1 = u1
    c1 = c1
    c2 = c2
    Users = {u1}
    Callers = {u1}
    Bus = Bus
    Ev = Ev
    Cls = {c1, c2}
    Senders = {c1}
    None = None
    MaxResets = 1
    MaxReqs = 1
INVARIANT
    NoUseAfterFree
CHECK_DEADLOCK FALSE
