SPECIFICATION PostSpec
CONSTANTS
    c1 = c1
    w1 = w1
    w2 = w2
    s1 = s1
    d1 = d1
    d2 = d2
    Jobs = {1, 2}
    Calls = {c1}
    CallOf <- OneCall
    Docs = {1}
    Workers = {w1, w2}
    MaxRetries = 1
    MaxAdminRetries = 1
    MaxTrouble = 1
    LateWrites = TRUE
    Summarizers = {s1}
    Dispatchers = {d1, d2}
    MaxTexts = 1
    MaxLater = 1
    MaxMishaps = 1
INVARIANTS OnlyOwnerWrites NeverAfterUserWrote SentAndCountedOnce
PROPERTIES NewestTraceWins NothingAfterFence JobsSettle PostprocessSettles
CHECK_DEADLOCK FALSE
