SPECIFICATION AuthoritySpec
CONSTANTS
    MaxAttempts = 5
    MaxTakeovers = 3
    MaxAttempt = 3
INVARIANTS
    DeadWorkersCostNoAttempt
