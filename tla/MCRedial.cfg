SPECIFICATION Spec
CONSTANTS
    u1 = u1
    c1 = c1
    c2 = c2
    p1 = p1
    p2 = p2
    h1 = h1
    k1 = k1
    k2 = k2
    NoCall = NoCall
    NoProc = NoProc
    Reconciler = Reconciler
    Users = {u1}
    Calls = {c1,c2}
    UserOf <- OwnedByOne
    Ttls = {1}
    Capacity = 1
    CooldownTicks = 1
    HardLimit = 1
    RecentTicks = 1
    Keys = {k1,k2}
    Procs = {p1}
    Handlers = {}
    MaxFaults = 1
SYMMETRY Symmetric
CONSTRAINT OnlyFirstCallStreams
INVARIANTS
    OneActiveCallPerUser
PROPERTIES
    KeyDialsOnce
CHECK_DEADLOCK FALSE
