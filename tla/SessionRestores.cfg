SPECIFICATION FairSpec
CONSTANTS
    c1 = c1
    c2 = c2
    o1 = o1
    o2 = o2
    NoObject = NoObject
    Callers = {c1, c2}
    Objects = {o1, o2}
    Calls = {"restore", "renew"}
    Faults = {"crash"}
    MaxTokens = 3
INVARIANT NeverPresentsSpent
INVARIANT RotationIsSaved
PROPERTY SessionSurvives
PROPERTY CallsReturn
