\* Terminals are closed behind each visit; any one fault.
\* A decided run stops: no deadlock check.
CONSTANTS
  Nodes <- MCNodes
  NoNode = "none"
  ReportIds = {r1, r2}
  Reasons = {op1}
  MaxVisit = 0
  MaxTerm = 0
  EndNode = "end"
  StartTarget = "coding"
  Legal <- MCLegal
  KeepTerminals = FALSE
  CleanupOnEnd = FALSE
  IsRestart = FALSE
  RecoverByTitle = TRUE
  MaxExecs = 2
  Scenarios <- AnyOne
SPECIFICATION Spec
INVARIANTS TypeOK NoAgentLeft OneReportPerVisit EffectsInOrder AcceptedIsDurable
PROPERTIES QuietAfterEnd
SYMMETRY Symmetry
CHECK_DEADLOCK FALSE
