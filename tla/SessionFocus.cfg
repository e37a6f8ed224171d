SPECIFICATION Spec
CONSTANTS
    c1 = c1
    c2 = c2
    o1 = o1
    o2 = o2
    o3 = o3
    NoObject = NoObject
    Callers = {c1, c2}
    Objects = {o1, o2, o3}
    Calls = {"restore", "focus"}
    Faults = {}
    MaxTokens = 2
SYMMETRY Symmetry
PROPERTY SessionSurvives
