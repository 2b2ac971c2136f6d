SPECIFICATION Spec
CONSTANTS
    c1 = c1
    c2 = c2
    c3 = c3
    s1 = s1
    s2 = s2
    s3 = s3
    n1 = n1
    n2 = n2
    x = x
    Card <- MCCard
    Session <- MCSession
    Node <- MCNode
    NodeOf <- MCNodeOf
    Code <- MCCode
    Eligible <- MCEligible
    Scope <- MCScope
    DeclaredDeps <- MCDeclaredDeps
    Ttl <- MCTtl
    Content <- MCContent
    MaxStep = 1
    NoSession = NoSession
    NoOutput = NoOutput
INVARIANTS BoardHolds
PROPERTIES OldAttemptsAreHarmless
