SPECIFICATION Spec
CONSTANTS
    c1 = c1
    c2 = c2
    Calls = {c1,c2}
    DayLen = 4
    MaxDay = 2
    MaxNow = 8
    DailySeconds = {0,1}
    GraceLimit = 1
    Grants = {1}
    ExtraCap = 1
    Mutes = {TRUE,FALSE}
SYMMETRY Symmetric
ACTION_CONSTRAINT TwoCallsAreShort
INVARIANTS BilledIsTalk GrowthIsPaidSpeech SettlementNeverRefused ObservationNeverRefused FreeWithinDaily ExtraConserved
PROPERTY GraceOnlyWhenSpent
CHECK_DEADLOCK FALSE
