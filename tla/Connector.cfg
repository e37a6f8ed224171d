\* Two requests, a login, a logout and the keepalive's tick share one queue; any fault.
SPECIFICATION Spec
CONSTANTS
    g1 = g1  r1 = r1  r2 = r2
    Guardians <- MCGuardians
    Family <- MCFamily
    Grants = {g1}
    Requests = {r1, r2}
    Kinds = {"list", "overview", "approve"}
    Sections = 2
    Limit = 1
    Uses = {"login", "logout", "close", "tick"}
    MaxLogins = 1
    Faults = {"rejects", "unavailable", "crash", "leaves"}
INVARIANTS PlacesAccounted OnlyThePinnedGuardians EndedLoginLeavesNothing
PROPERTIES OnlyWhatWasPermitted
SYMMETRY MCSymmetry
