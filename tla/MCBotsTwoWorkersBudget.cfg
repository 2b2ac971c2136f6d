SPECIFICATION Spec
CONSTANTS
    a = a
    b = b
    m1 = m1
    m2 = m2
    m3 = m3
    v = v
    w = w
    Person = Person
    Unsent = Unsent
    NoDelivery = NoDelivery
    Agent <- MCAgent
    Message <- MCThree
    Worker <- MCWorker
    Hosts <- MCHosts
    MaxActive = 1
    LeaseTime = 1
    RetryTime = 1
    Batch = 2
    MaxDepth = 1
    MaxTurns = 3
    Width = 1
    MaxAsks = 1
    MaxTroubles = 0
PROPERTIES
    WakesWithinBudget
