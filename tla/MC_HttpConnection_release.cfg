CONSTANTS
    c1 = c1
    c2 = c2
    pk1 = pk1
    pk2 = pk2
    Conns <- MCConns
    PubKeys <- MCPubKeys
    Kinds <- KindsRelease
    SessionLimit <- MCSessionLimit
    LongPollTimeout <- MCLongPollTimeout
    TestRetryPeriod <- MCTestRetryPeriod
    TestRetryLimit <- MCTestRetryLimit
    MaxMsgs <- MCMaxMsgs
    InitialMsgs <- MCNoInitialMsgs
    AcceptBy <- MCAcceptAtStart
    MaxTime <- MCMaxTimeShort
SPECIFICATION Spec
INVARIANT AtMostOneResponse
PROPERTY ConnectionReleased
