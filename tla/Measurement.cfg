CONSTANTS
    c1 = c1  p1 = p1  s1 = s1  s2 = s2
    Captures = {c1}
    Procs = {p1}
    Slots = {s1, s2}
    None = None
    MaxRuns = 2
    MaxReviews = 1
    MaxAttempts = 2
    MaxFailures = 1
SPECIFICATION FairSpec
INVARIANTS
    TypeOK
    SnapshotIsCurrent
PROPERTIES
    ReviewStands
    MeasurementEnds
