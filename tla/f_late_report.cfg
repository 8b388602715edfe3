\* A late report of an old visit counts for the current one.
\* A decided run stops: no deadlock check.
CONSTANTS
  Nodes <- MCNodes
  NoNode = "none"
  ReportIds = {r1, r2, r3}
  Reasons = {op1}
  MaxVisit = 0
  MaxTerm = 0
  EndNode = "end"
  StartTarget = "coding"
  Legal <- MCLegal
  KeepTerminals = FALSE
  CleanupOnEnd = FALSE
  IsRestart = FALSE
  RecoverByTitle = TRUE
  MaxExecs = 1
  Scenarios <- Faultless
SPECIFICATION Spec
INVARIANTS ReportsCountForTheirVisit
SYMMETRY Symmetry
CHECK_DEADLOCK FALSE
