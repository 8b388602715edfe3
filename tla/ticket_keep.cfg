\* A run that keeps its terminals and cleans up at end; any one fault,
\* or an execution abandoned after a failing call and created again.
\* A decided run stops: no deadlock check.
CONSTANTS
  Nodes <- MCNodes
  NoNode = "none"
  ReportIds = {r1}
  Reasons = {op1, op2}
  MaxVisit = 0
  MaxTerm = 0
  EndNode = "end"
  StartTarget = "coding"
  Legal <- MCAgain
  KeepTerminals = TRUE
  CleanupOnEnd = TRUE
  IsRestart = FALSE
  RecoverByTitle = TRUE
  MaxExecs = 2
  Scenarios <- OneOrAbandoned
SPECIFICATION Spec
INVARIANTS CancellationStaged CanceledIsAnnounced PublishedIsAwaited OneAgentPerNode
PROPERTIES LifecycleSpec
SYMMETRY Symmetry
CHECK_DEADLOCK FALSE
