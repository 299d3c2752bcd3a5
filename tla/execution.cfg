SPECIFICATION MCSpec
CONSTANTS
    r1 = r1
    r2 = r2
    d1 = d1
    d2 = d2
    Runners = {r1, r2}
    Deciders = {d1, d2}
    AttemptOf <- AttemptOfCall
    LastAttempt = 2
    Steps = 2
    ModelCalls = 3
    Retries = 1
    MaxSends = 2
    Inventory <- Pairs
    Bindings <- ManyBindings
    Materials <- AllMaterials
    Reviews <- AllReviews
    Disturbances <- AllEvents
    MaxExecutions = 2
SYMMETRY DecidersAreAlike
INVARIANTS
    BudgetIsKept
    ResultsAreEarned
    SessionsAreSound
PROPERTIES
    NoCallBesideAnUnsettledOne
    TasksAreFenced
CHECK_DEADLOCK FALSE
