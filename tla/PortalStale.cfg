SPECIFICATION Spec
CONSTANTS
    Callers = {c1}
    Children = {a, b}
    Kinds = {"week", "calendar", "page", "report"}
    Hosts = {"process"}
    Uses = {"login", "logout"}
    Faults = {"rejects", "unavailable"}
    MaxEntries = 2
    MaxObjects = 3
INVARIANT ReadsWithTheLiveSession
CHECK_DEADLOCK FALSE
