\* Liveness with a failing call, or with a dying terminal and a crash.
\* A decided run stops: no deadlock check.
CONSTANTS
  Nodes <- MCNodes
  NoNode = "none"
  ReportIds = {r1}
  Reasons = {op1}
  MaxVisit = 0
  MaxTerm = 0
  EndNode = "end"
  StartTarget = "coding"
  Legal <- MCLegal
  KeepTerminals = FALSE
  CleanupOnEnd = FALSE
  IsRestart = TRUE
  RecoverByTitle = TRUE
  MaxExecs = 1
  Scenarios <- Recovering
SPECIFICATION PersistentSpec
PROPERTIES StartedRunsExecute LostAgentIsReplaced ReportMovesRun CancelSettles
CHECK_DEADLOCK FALSE
