SPECIFICATION Spec
CONSTANTS
    ClientIds = {c1}
    RequestIds = {q1}
    GrantIds = {g1}
    Networks = {n1}
    Scopes = {read, write}
    MaxClients = 1
    MaxPending = 2
    MaxPerRequester = 2
    MaxGrants = 1
    MaxTokens = 3
    Faults = {"write", "sync", "answer", "restart"}
    Ending <- MCGrantLifetimes
    MaxRotations = 2
    MaxRuns = 2
VIEW View
INVARIANTS RevocationIsFinal HonouredIsStored NewestIsGood OneChain
PROPERTIES ScopesNeverWiden ImplementsConnections
CHECK_DEADLOCK FALSE
