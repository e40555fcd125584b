SPECIFICATION Spec
CONSTANTS
    MaxQuestions = 2
    MaxPieces = 3
    MaxSeq = 8
    Hold = 3
    Window = 3
    MaxTrouble = 1
    SendFails = TRUE
ACTION_CONSTRAINT LongWhereItMatters
INVARIANTS NothingWaitsForLost StoredIsHeard FlushedUnlessFailed
CHECK_DEADLOCK FALSE
