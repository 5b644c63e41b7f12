CONSTANTS
    j1 = j1  j2 = j2  b1 = b1  o1 = o1
    kimi = kimi  p1 = p1  p2 = p2  s1 = s1  s2 = s2
    Jobs = {j1, j2}
    Batches = {b1}
    Orgs = {o1}
    Platforms = {kimi}
    BatchOf <- OneBatch
    PlatformOf <- OnePlatform
    OrgOf <- OneOrg
    Procs = {p1}
    Slots = {s1, s2}
    None = None
    Outcomes = {"complete", "quota"}
    MaxAttempts = 2
    MaxCrashes = 1
    MaxFaults = 1
    MaxSuspensions = 1
    MaxUpsets = 1
SPECIFICATION FairSpec
INVARIANTS
    TypeOK
    EvidenceIffComplete
    ClosedBatchIsRight
    ClosingIsAhead
PROPERTIES
    LedgerSpec
    LiveLeaseIsExclusive
    ConvergesUnlessStranded
