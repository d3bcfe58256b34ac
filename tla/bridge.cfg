SPECIFICATION Spec
CONSTANTS
    Requests <- SomeRequests
    RingSize = 2
    OutageLimit = 1
    MaxBoots = 2
INVARIANTS
    RunsOnce
    NoStopLost
    StatusesAgree
PROPERTY OutageEnds
