CONSTANTS
    c1 = c1  c2 = c2
    Clients = {c1, c2}
    None = None
    Emits = {TRUE, FALSE}
    MaxMessages = 1
    MaxTurns = 2
    MaxRuns = 6
    MaxCalls = 1
    MaxUpsets = 1
CHECK_DEADLOCK FALSE
SPECIFICATION FairSpec
INVARIANTS
    TranscriptInOrder
    ToolRunsOnce
PROPERTIES
    TurnEnds
