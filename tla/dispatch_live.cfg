\* Polls finish what a crash interrupted.
\* Bounds cut calls that a server would answer: no deadlock check.
CONSTANTS
  Workflows = {w1}
  NoWorkflow = none
  Us = us
  Others = {them}
  MaxAttempts = 2
  MaxSubmits = 0
  MaxEdits = 1
  MaxStarts = 2
SPECIFICATION FairSpec
PROPERTIES ClaimedTicketsRun
CHECK_DEADLOCK FALSE
