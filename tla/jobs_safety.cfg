SPECIFICATION Spec
CONSTANTS
    Jobs = {j1}
    Workers = {w1, w2}
    Dispatchers = {d1}
    Tasks = {t1}
    MaxRuns = 2
    MaxCrashes = 1
    MaxAttempts = 2
    MaxTakeovers = 2
    MaxClaims = 2
CONSTRAINT ClaimsBounded
SYMMETRY Symmetric
INVARIANTS
    TypeOK
    LeaseIffRunning
    NoLostWork
    RecordsAreHonest
    EveryClaimIsPaid
PROPERTIES
    StaleAttemptsAreFenced
    DecisionsStand
CHECK_DEADLOCK FALSE
