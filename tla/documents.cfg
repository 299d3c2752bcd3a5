SPECIFICATION MCSpec
CONSTANTS
    Workers = {w1, w2}
    Readers = {}
    Contents = {pdf1, pdf2}
    Backend = "sqlite"
    MaxRun = 2
    MaxToken = 2
    MaxTime = 2
    MaxRevoke = 1
    LeaseTTL = 1
    ApprovalTTL = 2
    UrlTTL = 2
    None = None
    Callers = {c1, c2}
    MaxClaims = 2
    uploader = "uploader"
    Attestations <- Signed
    Pdfs <- TwoPdfs
    SourceRuns <- TwoRuns
    DocumentGrants <- Full
    NoValue = NoValue
    MaxFaults = 1
    MaxRewrites = 1
SYMMETRY Symmetric
INVARIANTS
    ReadersAreEntitled
    HandedOutIsAdmitted
PROPERTIES
    PublicationIsAuthorized
    ChecksAreBinding
CHECK_DEADLOCK FALSE
