CONSTANTS
    j1 = j1  j2 = j2  p1 = p1  p2 = p2  m1 = m1  m2 = m2
    Jobs = {j1, j2}
    Procs = {p1, p2}
    Members = {m1, m2}
    None = None
    MaxAttempts = 3
    MaxUpsets = 2
CHECK_DEADLOCK FALSE
SPECIFICATION FairSpec
PROPERTIES
    DocumentsArrive
