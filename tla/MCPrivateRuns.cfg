SPECIFICATION PrivateSpec
CONSTANTS
    c1 = c1
    c2 = c2
    s1 = s1
    s2 = s2
    s3 = s3
    n1 = n1
    n2 = n2
    r1 = r1
    r2 = r2
    r3 = r3
    x = x
    Card <- MCCard
    DeclaredDeps <- MCDeclaredDeps
    Ttl <- MCTtl
    Content <- MCContent
    MaxStep = 1
    NoSession = NoSession
    NoOutput = NoOutput
    NoCard = NoCard
    NoRun = NoRun
    Session <- MCSession
    Node <- MCNode
    NodeOf <- MCNodeOf
    Scope <- MCScope
    Code <- OneTask
    Private <- OneTask
    Target <- OneTarget
    Eligible <- OneEligible
    Run <- ThreeRuns
SYMMETRY RunSymmetry
INVARIANTS RunStartsClean RunsAreTold
PROPERTIES LeasesConsumeRuns
