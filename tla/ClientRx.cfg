SPECIFICATION Spec
CONSTANTS
    r1 = r1
    r2 = r2
    r3 = r3
    r4 = r4
    t1 = t1
    t2 = t2
    Rbs = {r1, r2, r3, r4}
    Takers = {t1, t2}
    Opener = t1
    Isr = Isr
    None = None
    MaxFrags = 2
    Long = {2, 3}
    MaxMsgs = 4
    IpcMayFail = TRUE
SYMMETRY Symmetry
INVARIANTS
    RbsConserved
    SingleFc
    GrantHasBuffer
    NeverDryUnlessHindered
\* The firmware stops after MaxMsgs messages.
CHECK_DEADLOCK FALSE
