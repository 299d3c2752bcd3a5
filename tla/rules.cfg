SPECIFICATION MCSpec
CONSTANTS
    x1 = x1
    f1 = f1
    f2 = f2
    g1 = g1
    a = a
    b = b
    tot = tot
    u = u
    c1 = c1
    c2 = c2
    c3 = c3
    c4 = c4
    good = good
    poor = poor
    near = near
    NoValue = NoValue
    Absent = Absent
    Factors <- TwoFactors
    Definitions <- AnyDefinition
    Observations <- AnyObservation
    Adjustments <- Altered
    MaxPairs = 2
    Inputs <- AllCases
INVARIANTS
    ReviewIsGrounded
    GradesAreGrounded
CHECK_DEADLOCK FALSE
