SPECIFICATION MCSpec
CONSTANTS
    Clients = {c1, c2}
    Tasks = {t1}
    MaxAttempts = 2
    MaxTakeovers = 2
    MaxRuns = 2
    MaxDefers = 1
    MaxClaims = 2
SYMMETRY Symmetric
INVARIANTS
    RowsAreSound
PROPERTIES
    HistoryIsKept
    ImplementsLedger
CHECK_DEADLOCK FALSE
