CONSTANTS
    c1 = c1
    c2 = c2
    pk1 = pk1
    pk2 = pk2
    Conns <- MCConnsOne
    PubKeys <- MCPubKeys
    Kinds <- KindsUnanswered
    SessionLimit <- MCSessionLimit
    LongPollTimeout <- MCLongPollTimeout
    TestRetryPeriod <- MCTestRetryPeriod
    TestRetryLimit <- MCTestRetryLimit
    MaxMsgs <- MCMaxMsgs
    InitialMsgs <- MCNoInitialMsgs
    AcceptBy <- MCAcceptBy
    MaxTime <- MCMaxTime
SPECIFICATION Spec
PROPERTY RequestAnswered
