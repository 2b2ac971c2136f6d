SPECIFICATION FairSpec
CONSTANTS
    c1 = c1
    c2 = c2
    s1 = s1
    s2 = s2
    n1 = n1
    n2 = n2
    m1 = m1
    m2 = m2
    None = None
PROPERTIES  QueuesDrain RetiredGoAway SomeoneTakesOver ResumesWork
CHECK_DEADLOCK FALSE
