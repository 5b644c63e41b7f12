CONSTANTS
    r1 = r1  r2 = r2  p1 = p1  p2 = p2
    Runs = {r1, r2}
    Procs = {p1, p2}
    None = None
    MaxInput = 2
    MaxAttempts = 2
    MaxUpsets = 2
CHECK_DEADLOCK FALSE
SPECIFICATION FairSpec
INVARIANTS
    OneOpenRun
    OpenRunIsMoving
PROPERTIES
    ResultStands
    RunEndsUnlessCut
