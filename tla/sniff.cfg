SPECIFICATION Spec
CONSTANTS
    SniffSeconds = {0, 1, 5}
    MaxSniff = 4
    Second = 1
    RateLimit = 2
    Keepalive = 2
    ListenBuilds = {TRUE, FALSE}
    MaxUpdate = 1
    MaxStall = 1
    Wheel = 14
INVARIANTS
    TypeOK
    WindowExact
    DeafnessBounded
PROPERTIES
    ListensOnlyWhenAsked
    RateKept
    ListeningResumes
