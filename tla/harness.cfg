\* A plugin may wait for its session forever: no deadlock check.
CONSTANTS
    MaxMsgs = 2
    Scenarios <- EchoAndOne
SPECIFICATION FairSpec
INVARIANTS CorrectedOnce
PROPERTIES HumanGate DecidedOnce AgentIsHeard
CHECK_DEADLOCK FALSE
