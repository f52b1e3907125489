SPECIFICATION ServicesSpec

CONSTANTS
    CogCallers = {"c1", "c2", "c3"}
    MaxLoops = 4
    MaxStopCalls = 2

    Requests = {"q1", "q2", "q3"}
    Keys = {"k1", "k2"}
    NoKey = "none"
    Drain = "drain"
    KeyChoices <- MCKeyChoices
    Capacity = 2
    MaxQueue = 1
    MaxRecords = 1
    MaxBytes = 2
    Sizes = {1, 2}

    Clients = {"c1", "c2"}
    Admins = {"a1"}
    Evictor = "evictor"
    Flusher = "flusher"
    MaxTries = 2
    MaxPasses = 1

    Callers = {"c1", "c2", "c3"}
    Namespaces = {"m", "n"}
    Nobody = "nobody"
    MaxStores = 1
    MaxCalls = 4

    Ids = {"s1", "s2"}
    MaxSessions = 2
    MaxRequests = 3

INVARIANTS
    PermitsConserved
    NoWorkBesideFlush
    TableAccounted
    StoreExclusive
    StoresBounded
    DecidedOnCurrent
    

PROPERTIES
    EveryLoopAccounted
    
    EveryRequestAnswered
    EveryLookupEnds
    EveryToolCallReturns
    EveryPermitReturns

CHECK_DEADLOCK FALSE
