CONSTANTS
    t1 = t1  t2 = t2  b1 = b1  b2 = b2
    Ticks = {t1, t2}
    Batches = {b1, b2}
    None = None
    MaxEdits = 3
    MaxUpsets = 2
CHECK_DEADLOCK FALSE
SPECIFICATION Spec
INVARIANTS
    TypeOK
    OneBatchPerRun
PROPERTIES
    EndedIsFrozen
    RunIsServedUnlessStranded
