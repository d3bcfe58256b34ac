SPECIFICATION Spec
CONSTANTS
    PayloadBits = 1
    MinBucket = 100
    MaxInputChars = 24
    MaxFrameBytes = 11
    MaxAirtime = 2000
    Replies <- SomeReplies
    Fragments <- SomeFragments
    Frames <- SomeFrames
    Offsets = {0, 73}
    Codes <- SomeCodes
    AdvancedCodes <- SomeAdvancedCodes
    BeepTimes = {0, 100}
    MessageSize = 2
    MaxRxBuffer = 20
    CandidateQuiet = 1
    ReplyTimeout = 2
    CaptureTimeout = 3
    MaxSent = 2
INVARIANTS
    TypeOK
    OnlyWholeCaptures
    CarrierNeverStuck
    AirReserved
PROPERTY ComesToRest
