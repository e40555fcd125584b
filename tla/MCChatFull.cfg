SPECIFICATION FairSpec
CONSTANTS
    p1 = p1
    p2 = p2
    r1 = r1
    r2 = r2
    r3 = r3
    n1 = n1
    n2 = n2
    n3 = n3
    Procs = {p1, p2}
    Requests = {r1}
    Runs = {n1, n2}
    QueueLimit = 1
    PackLimit = 2
    MaxResends = 1
    MaxTrouble = 2
    SilentWeek = TRUE

PROPERTIES FullQueueRecovers
CHECK_DEADLOCK FALSE
