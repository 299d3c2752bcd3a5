SPECIFICATION MCSpec
CONSTANTS
    MaxAttempts = 3
    MaxTakeovers = 3
    MaxAttempt = 5
    Runners = {1, 2}
    Deciders = {3}
    AttemptOf <- FirstAttempt
    LastAttempt = 1
    Steps = 1
    ModelCalls = 2
    Retries = 1
    MaxSends = 1
INVARIANTS
    RunIsSettledOnce
PROPERTIES
    JobEnds
    EveryCallEnds
CHECK_DEADLOCK FALSE
