SPECIFICATION Spec
CONSTANTS
    Op = {o1, o2}
    Input = {i1}
    Process = {p1, p2}
    TurnsMaxGen = 3
    MaxFaults = 1
    MaxAttempts = 3
    MaxQueued = 2
    MaxCalls = 4
    LinkMaxGen = 2
    Limit = 3
    MaxInvalid = 2
    ToolsMaxGen = 2
    MaxRevision = 2
    MaxBatch = 2
    Saved = {"read", "save"}
    Offers = {{"fetch", "save"}}
    Account = {u1, u2}
    Device = {d1, d2}
    DeviceOwner <- FirstOwnsDevices
    RoomsAgent = {"c1", "c2"}
    AgentOwner <- FirstOwnsAgents
    Local = {"c1"}
    LocalModel = {d1}
    CloudService = {d1, d2}
    NameOf <- OwnNames
    RoomsRequest = {q1}
    Paired = {d1}
    HostOf <- OnTheModelsDevice
    MaxRooms = 1
    MaxMessages = 2
    MaxChanges = 2
    WorkAgent = {a1, a2}
    Caller = {k1, k2}
    Person = {k1}
    MaxHandoffs = 1
    MaxDms = 3
    MaxArchived = 1
    Target = {t1}
    BrokerCall = {c1, c2}
    MaxShots = 2
    MaxRules = 2
    MaxStops = 1
    MaxTold = 2
    None = None
INVARIANTS TurnsSafe ShownIsStored AnswersAreOwn  HandoffsSafe
PROPERTIES BrokerSafe 
CHECK_DEADLOCK FALSE
