\* Savers may stop saving, and do at MaxHistory: a behaviour may end.
SPECIFICATION Spec
CHECK_DEADLOCK FALSE
CONSTANTS
    Saver = {p, q}
    Unsynced = {q}
    Value = {v1, v2}
    Names = {n1, n2}
    Partial = Partial
    NoFile = NoFile
    MaxHistory = 3
    MaxFaults = 2
INVARIANTS
    AtomicTypeOK
    TempIsOwn
    TargetWhole
PROPERTY
    IsRegister
