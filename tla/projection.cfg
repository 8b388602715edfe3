SPECIFICATION Spec
CONSTANTS
    Nodes = {"coding"}
    NoNode = "none"
    ReportIds = {}
    Reasons = {op1}
    op1 = op1
    MaxVisit = 0
    MaxTerm = 0
    EndNode = "end"
    Sessions = {s1, s2}
    s1 = s1
    s2 = s2
    NoSession = NoSession
    MaxStep = 3
    MaxSlow = 1
SYMMETRY Symmetry
INVARIANTS
    ReasonAnnounced
    RebuiltTimelineAgrees
PROPERTIES
    DecisionsStand
    FinishedStepsStand
    RegisteredSessionStands
CHECK_DEADLOCK FALSE
