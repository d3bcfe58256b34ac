SPECIFICATION SendsOnlySpec
CONSTANTS
    Requests <- ReserveRequests
    NoId = NoId
    Wheel = 64
    RepeatGap = 1
    RfAirtimeMargin = 0
    MaxRepeatGap = 3
    MaxTargets = 3
    MaxTotalFrameBytes = 100
    MaxFirstStopOccupancy = 5
    RingSize = 4
    MaxStall = 1
INVARIANT FirstStopWithinReserve
