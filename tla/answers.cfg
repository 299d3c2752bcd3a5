SPECIFICATION MCSpec
CONSTANTS
    Sides = {s1, s2}
    Facts = {s1}
    Keys = {k1, k2}
    Calls = {c1, c2}
    MaxRuns = 3
    MaxAttempts = 2
    MaxTakeovers = 1
    MaxClaims = 2
    People <- SomePeople
    Subjects <- TwoSubjects
    Materials <- SomeMaterials
    Plans <- SomePlans
    Proposals <- SomeProposals
    MaxActiveRuns = 3
    MaxTasks = 3
SYMMETRY Symmetric
INVARIANTS
    QuestionsAreSettledOnce
    ReceiptsTellTheTruth
    MaterialIsWhatWasAnswered
    LocalTasksAreSound
PROPERTIES
    AnswersAreExact
CHECK_DEADLOCK FALSE
