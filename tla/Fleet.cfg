SPECIFICATION Spec
CONSTANTS
    DispatchNode = {n1, n2}
    DispatchCard = {"c1", "c2"}
    Parent <- NoParents
    Deps <- OneAfterTheOther
    Rank <- InOrder
    OwnNode = {n1}
    Budgets = {1}
    Costs = {2}
    Purse = 2
    DispatchTTL = 1
    DispatchMaxCrashes = 0
    ArchiveServer = {s1, s2}
    Member = "member"
    ArchiveFund = "fund"
    Treasury = "treasury"
    Source = {"earned"}
    Last = 6
    MaxTxns = 3
    Keep = 1
    Writer = {s1}
    BlobMaxCrashes = 3
    ElectionServer = {s1, s2, s3}
    Standby = {s3}
    ElectionTTL = 2
    MaxVersion = 0
    ElectionMaxFaults = 2
    LoopNode = {k1, k2}
    MaxRevisions = 1
    LoopTTL = 1
    MaxDrafts = 2
    LoopMaxFaults = 1
    MaxSendBacks = 1
    MaxPresses = 3
    WorkerMaxLost = 2
    MaxBreaks = 1
    MaxTurns = 4
    MaxRepairs = 1
    MaxVerifyRuns = 2
    Declared = TRUE
    Lease = 3
    MaxBatch = 2
    CheckoutCard = {"c1", "c2"}
    Process = {"p1", "p2", "p3", "p4"}
    CardOf <- TwoSessionsEach
    CheckoutFresh = {"p4"}
    CheckoutMaxFaults = 2
    MaxWork = 1
    ControlCard = {c1}
    MaxCalls = 3
    MaxTokens = 4
    MaxLeases = 2
    ControlMaxFaults = 1
    Codes = {c1, c2}
    Servers = {s1, s2}
    MaxSteps = 1
    TauriStarts = {s1, s2}
    TauriMaxLost = 1
    MaxLaunches = 2
    Left = c1
    Limit <- SmallLimit
    Second = 2
    MaxTime = 4
    Quote = {1, 2}
    Charge = {0, 2, 3}
    BatchSize = 2
    RemoteCall = {"x", "y"}
    Asked <- OneOfEach
    Id = {"i1"}
    Agent = {"a1"}
    Built = {"bots"}
    None = None
INVARIANTS ArchiveSafe  BeliefIsTrueWhileFresh WorkerSafe SessionSafe ShownIsSo NothingLeftBehind SpendingSafe CallsSafe
PROPERTIES  ControlSafe LoopSafe CheckoutsSafe
SYMMETRY Symmetric
CHECK_DEADLOCK FALSE
