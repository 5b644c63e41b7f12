CONSTANTS
    chat = chat  m1 = m1  m2 = m2  p1 = p1  p2 = p2  s1 = s1  s2 = s2  batch = batch  draft = draft
    Sessions = {chat}
    Members = {m1, m2}
    Procs = {p1}
    Slots = {s1, s2}
    Nobody = Nobody
    Things = {draft}
    Reviewed = {draft}
    MaxAttempts = 2
    MaxQuestions = 1
    MaxFaults = 2
    Failing = FALSE
CHECK_DEADLOCK FALSE
SPECIFICATION SessionSpec
PROPERTIES
    AnswerIsToolResult
