CONSTANTS
    o1 = o1  o2 = o2  ann = ann
    Orders = {o1, o2}
    People = {ann}
    None = None
    MaxVersion = 2
    MaxRuns = 2
    MaxKnowledge = 2
    MaxOrderRev = 7
    MaxUpsets = 1
SYMMETRY Alike
CHECK_DEADLOCK FALSE
SPECIFICATION Spec
INVARIANTS
    DeliveredWasEndorsed
PROPERTIES
    StartsAreCurrent
    VerifiedAsShown
