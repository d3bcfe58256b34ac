SPECIFICATION Spec
CONSTANTS
    Requests <- IdleRequests
    NoId = NoId
    Wheel = 16
    RepeatGap = 1
    RfAirtimeMargin = 1
    MaxRepeatGap = 4
    MaxTargets = 2
    MaxTotalFrameBytes = 100
    MaxFirstStopOccupancy = 100
    RingSize = 4
    MaxStall = 1
PROPERTY AirStaysClear
