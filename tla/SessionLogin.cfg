SPECIFICATION Spec
CONSTANTS
    c1 = c1
    o1 = o1
    o2 = o2
    o3 = o3
    NoObject = NoObject
    Callers = {c1}
    Objects = {o1, o2, o3}
    Calls = {"restore", "login"}
    Faults = {}
    MaxTokens = 3
SYMMETRY Symmetry
PROPERTY LoginIsSaved
