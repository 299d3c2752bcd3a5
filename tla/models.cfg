SPECIFICATION MCSpec
CONSTANTS
    Senders = {s1, s2}
    MaxSends = 2
    MaxRequests = 3
    Interval = 2
    Procs = {p1, p2}
    Nil = Nil
    PageRequests <- AnyPages
    Regions <- PageRegions
    Policy <- RoutedPolicy
    Worlds <- AllWorlds
    Bodies <- AnyBody
    Errors <- AllErrors
    Amounts <- AnyAmount
    Rendered <- AllRendered
    Observing <- BothOutcomes
    Priced = FALSE
    Grants <- AllGrants
    Tokens = 2
    Attempts = 2
    MaxPages = 2
    MaxCalls = 3
    MaxAttempts = 2
    MaxConcurrency = 2
    MaxBytes = 5
    MaxTokens = 5
INVARIANTS
    SendsAreAdmitted
    PagesAreAccounted
PROPERTIES
    NothingIsAdmittedInDoubt
CHECK_DEADLOCK FALSE
