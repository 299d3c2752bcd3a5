SPECIFICATION MCSpec
CONSTANTS
    c1 = c1
    c2 = c2
    ann = ann
    bob = bob
    w1 = w1
    w2 = w2
    Empty = Empty
    Other = Other
    Contexts <- OneContext
    Pages <- FormPages
    Proposals <- PlainProposals
    Reviewers <- TwoReviewers
    Owner = ann
    Requests <- PlainRequest
    Adapters <- LocalOnly
    Verdicts <- VerifiedOnly
    Outcomes <- WrittenOnly
    Strays <- NoStrays
    MaxVersion = 2
    MaxEdits = 1
    MaxPrepared = 1
    MaxRevision = 2
    MaxRuns = 1
    MaxPaint = 5
    MaxStyle = 4
    MaxText = 4
INVARIANTS
    OutcomeIsEarned
    PagesAndFilesAreKept
PROPERTIES
    WritesAreFaithful
CHECK_DEADLOCK FALSE
