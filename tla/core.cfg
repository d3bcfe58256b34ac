SPECIFICATION Spec
CONSTANTS
    Requests <- CoreRequests
    NoId = NoId
    Wheel = 16
    RepeatGap = 2
    RfAirtimeMargin = 0
    MaxRepeatGap = 4
    MaxTargets = 2
    MaxTotalFrameBytes = 100
    MaxFirstStopOccupancy = 100
    RingSize = 4
    MaxStall = 1
INVARIANTS
    TypeOK
    CopiesCounted
    OrderMatchesCommands
    OneAirOwner
    ChannelsExclusive
    LiveIdsUnique
    ObligationsBounded
    AirClearIsSafe
PROPERTIES
    RepeatGapKept
    StopsHonoured
