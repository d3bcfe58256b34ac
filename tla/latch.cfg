SPECIFICATION Spec
CONSTANTS
    Requests <- SomeRequests
    RingSize = 3
    OutageLimit = 1
    MaxBoots = 1
PROPERTY AnswersStand
