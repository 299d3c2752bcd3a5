SPECIFICATION MCSpec
CONSTANTS
    Results = {r1, r2}
    Pages = {1}
    Faults = {"permission", "engine"}
    MaxVersion = 2
    MaxReviews = 1
    MaxArchives = 1
    MaxIds = 2
    MaxFiles = 2
    NoValue = NoValue
    Sources <- OneSource
    SourcePages <- TwoPages
    Detected <- Found
    Manual = {}
    MaxEvents = 6
    MaxApprovals = 2
    MaxPreviews = 2
INVARIANTS
    SentIsKnown
    RestoredIsEarned
PROPERTIES
    NothingPassesUnreviewed
SYMMETRY Symmetric
CHECK_DEADLOCK FALSE
