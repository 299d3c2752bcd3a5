SPECIFICATION FairSpec
CONSTANTS
    Jobs = {j1}
    Workers = {w1}
    Dispatchers = {d1}
    Tasks = {t1}
    MaxRuns = 1
    MaxCrashes = 1
    MaxAttempts = 2
    MaxTakeovers = 2
    MaxClaims = 2
PROPERTIES
    EveryJobSettles
    CancelLands
CHECK_DEADLOCK FALSE
