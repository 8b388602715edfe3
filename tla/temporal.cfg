SPECIFICATION FairSpec
CONSTANTS
    Nodes <- MCNodes
    NoNode = "none"
    ReportIds = {r1}
    Reasons = {op1}
    op1 = op1
    r1 = r1
    MaxVisit = 0
    MaxTerm = 0
    EndNode = "end"
    StartTarget = "coding"
    Legal <- MCLegal
    KeepTerminals = TRUE
    CleanupOnEnd = TRUE
    IsRestart = TRUE
    MaxExecs = 2
    Scenarios <- OneOrTwo
INVARIANTS
    ReportsConsumedOnce
    DecisionIsTemporals
    CanceledLeavesNothing
PROPERTIES
    StepsSettle
CHECK_DEADLOCK FALSE
