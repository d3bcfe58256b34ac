SPECIFICATION Spec
CONSTANTS
    Messages <- LongAndBig
    MaxInbound = 2
    MaxDeferred = 1
    Topics <- AnyTx
    Components <- OneOfEach
    TopicPrefixEmpty = TRUE
    DiscoveryEnabled = TRUE
    DiscoveryClean = FALSE
    EnableOnBoot = TRUE
    MaxResends = 1
    ResubscribeDelay = 0
    RetryDelay = 0
    DnsTimeout = 0
    ConnectTimeout = 0
    MaxLookups = 1
INVARIANTS
    TypeOK
    WholeMessagesOnly
    SubscribedIsHeld
    AvailabilityTruthful
PROPERTY ComesToServe
