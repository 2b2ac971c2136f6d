SPECIFICATION Spec
CONSTANTS
    a = a
    b = b
    m1 = m1
    m2 = m2
    m3 = m3
    v = v
    w = w
    Person = Person
    Unsent = Unsent
    NoDelivery = NoDelivery
    Agent <- MCAgent
    Message <- MCMessage
    Worker <- MCWorker
    Hosts <- MCHosts
    MaxActive = 1
    LeaseTime = 1
    RetryTime = 1
    Batch = 1
    MaxDepth = 1
    MaxTurns = 2
    Width = 1
    MaxAsks = 1
    MaxTroubles = 1
SYMMETRY Interchangeable
INVARIANTS ResolvedIsVisible
PROPERTIES RowsHaveOwners KeepsPromises
