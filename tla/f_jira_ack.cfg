\* The answer to one write is lost.
\* A run's operations end: no deadlock check.
CONSTANTS
    Offered <- Classic
    Scenarios <- Losing
SPECIFICATION FairSpec
PROPERTIES LostCompletionSettles
CHECK_DEADLOCK FALSE
