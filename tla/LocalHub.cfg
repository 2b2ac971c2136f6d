SPECIFICATION Spec
CONSTANTS
    Schedule = {s1}
    Agent = {c1}
    AgentOf <- SoleAgent
    Every <- EverySecond
    StartAt = {0, 1}
    RunTimeout = 1
    MaxPerTick = 2
    MaxTime = 3
    MaxTroubles = 1
    MaxAsks = 1
    Path = {n1, n2}
    Scanner = {s1, s2}
    Watcher = {s1, s2}
    MaxVersion = 2
    MaxScans = 2
    Note = {n1, n2}
    Connector = {c1}
    ManagedMaxText = 2
    MaxGen = 2
    MaxRuns = 2
    SharingDevice = {d1, d2}
    Member = {d1}
    Project = {p1}
    Contents = {x1}
    Repo = {r1}
    Vault = {v1}
    Card = {t1, t2}
    SharingMaxText = 2
    EnrollmentDevice = {k1, k2}
    Account = {u1, u2}
    Process = {p1}
    Guesses = 2
    MaxCodes = 1
    MaxNonce = 2
    MaxSigned = 2
    MaxTasks = 4
    MaxFlows = 1
    RoundLimit = 1
    Allowed = {0, 2}
    MaxByHand = 1
    FlowsMaxChanges = 1
    Op = {k1, k2}
    Worker = {c1}
    ChoiceMaxChanges = 2
    None = None
INVARIANTS SchedulesSafe SharingSafe SelectionSafe
PROPERTIES FolderSafe  EnrollmentSafe WorkflowsSafe
SYMMETRY Symmetric
CHECK_DEADLOCK FALSE
