\* Every call beside every other: restores, renewals, child switches, a login
\* and logouts.
SPECIFICATION Spec
CONSTANTS
    c1 = c1
    c2 = c2
    o1 = o1
    o2 = o2
    o3 = o3
    o4 = o4
    NoObject = NoObject
    Callers = {c1, c2}
    Objects = {o1, o2, o3, o4}
    Calls = {"restore", "renew", "focus", "login", "logout"}
    Faults = {"rejects", "loses", "crash", "unavailable"}
    MaxTokens = 2
SYMMETRY Symmetry
VIEW View
INVARIANTS TypeOK LogoutForgets
