SPECIFICATION Spec
CONSTANTS
    Requests <- LimitRequests
    NoId = NoId
    Wheel = 4
    RepeatGap = 1
    RfAirtimeMargin = 0
    MaxRepeatGap = 1
    MaxTargets = 1
    MaxTotalFrameBytes = 4
    MaxFirstStopOccupancy = 1
    RingSize = 3
    MaxStall = 1
INVARIANTS
    FirstStopsWithinBudget
    StorageWithinBudget
    LiveIdsRemembered
PROPERTY AnswersOnlyAdvance
