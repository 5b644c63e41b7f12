CONSTANTS
    r1 = r1   chat = chat  p1 = p1  p2 = p2  s1 = s1  s2 = s2  m1 = m1  m2 = m2
    Runs = {r1}
    Sessions = {}
    Members = {m1}
    Procs = {p1}
    Slots = {s1}
    None = None
    SessionOf <- NoSession
    Kinds = {"article"}
    MaxAttempts = 2
    MaxUpsets = 0
SPECIFICATION Spec
INVARIANTS
    OneApprovalTakesEffect
