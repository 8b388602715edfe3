\* A run's operations end: no deadlock check.
CONSTANTS
    Offered <- Classic
    Scenarios <- Mixed
SPECIFICATION FairSpec
INVARIANTS NothingTwice AnsweredIsDone
PROPERTIES OpsSettle
CHECK_DEADLOCK FALSE
