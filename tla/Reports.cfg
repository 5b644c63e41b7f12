CONSTANTS
    MaxMetrics = 2
    MaxRuns = 3
    MaxReports = 2
    MaxTries = 2
    MaxExtras = 1
CHECK_DEADLOCK FALSE
SPECIFICATION FairSpec
INVARIANTS
    FrozenIsReviewedUnlessUndone
    FrozenOnceUnlessCrossed
PROPERTIES
    PassedIsFrozen
