SPECIFICATION Spec
CONSTANTS
    u1 = u1
    u2 = u2
    u3 = u3
    c1 = c1
    c2 = c2
    c3 = c3
    c4 = c4
    NoCall = NoCall
    Users <- MCUsers
    Calls <- MCCalls
    UserOf <- MCUserOf
    Ttls = {1, 3}
    Capacity = 2
    CooldownTicks = 2
    w1 = w1
    w2 = w2
    w3 = w3
    chat = chat
    agent = agent
    Writers = {w1, w2, w3}
    Sources = {chat, agent}
    MaxCount = 2
    Limit = 2
    MaxSeq = 6
SYMMETRY Symmetric
INVARIANTS
    KeysAgree
    CapacityRespected
    WalkIsExact
PROPERTIES
    NoLeaseStealing
    CommitsInOrder
CHECK_DEADLOCK FALSE
