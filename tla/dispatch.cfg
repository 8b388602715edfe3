\* Two workflows, one change to the ticket, one submission, one server start.
\* Bounds cut calls that a server would answer: no deadlock check.
CONSTANTS
  Workflows = {w1, w2}
  NoWorkflow = none
  Us = us
  Others = {them}
  MaxAttempts = 2
  MaxSubmits = 1
  MaxEdits = 1
  MaxStarts = 1
SPECIFICATION Spec
INVARIANTS OneLiveRun LiveRunsMatchDefinition RunsOnlyOnOwnClaims
PROPERTIES AttemptsSpec
SYMMETRY WorkflowSymmetry
CHECK_DEADLOCK FALSE
