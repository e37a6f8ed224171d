SPECIFICATION Spec
CONSTANTS
    c1 = c1
    o1 = o1
    o2 = o2
    o3 = o3
    NoObject = NoObject
    Callers = {c1}
    Objects = {o1, o2, o3}
    Calls = {"login"}
    Faults = {}
    MaxTokens = 2
SYMMETRY Symmetry
PROPERTY FailedLoginKeepsStore
