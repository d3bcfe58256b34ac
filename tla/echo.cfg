SPECIFICATION Spec
CONSTANTS
    SniffSeconds = {0, 1}
    MaxSniff = 2
    Second = 1
    RateLimit = 1
    Keepalive = 2
    ListenBuilds = {FALSE}
    MaxUpdate = 1
    MaxStall = 1
    Wheel = 10
PROPERTY YieldsBeforeSend
