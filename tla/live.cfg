SPECIFICATION SendsOnlySpec
CONSTANTS
    Requests <- LatencyRequests
    NoId = NoId
    Wheel = 10
    RepeatGap = 1
    RfAirtimeMargin = 0
    MaxRepeatGap = 2
    MaxTargets = 2
    MaxTotalFrameBytes = 100
    MaxFirstStopOccupancy = 100
    RingSize = 2
    MaxStall = 1
INVARIANT FirstStopBounded
PROPERTIES
    StopsPaid
    CommandsLeave
