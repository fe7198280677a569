SPECIFICATION AppSpec
CONSTANTS
    TxRing = 2
    RxRing = 2
    MaxFaults = 2
INVARIANTS
    InStep
    LeftDisabled
\* A program ends.
CHECK_DEADLOCK FALSE
