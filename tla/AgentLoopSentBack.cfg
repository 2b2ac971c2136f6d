SPECIFICATION Spec
CONSTANTS
    Node = {n1, n2}
    Nobody = nobody
    MaxRevisions = 2
    TTL = 2
    MaxDrafts = 4
    MaxFaults = 0
    MaxSendBacks = 1
INVARIANT SentBackMeansRedone
CHECK_DEADLOCK FALSE
