CONSTANTS
    c1 = c1
    c2 = c2
    pk1 = pk1
    pk2 = pk2
    Conns <- MCConns
    PubKeys <- MCPubKeysTwo
    Kinds <- KindsClientStore
    SessionLimit <- MCSessionLimit
    LongPollTimeout <- MCLongPollTimeout
    TestRetryPeriod <- MCTestRetryPeriod
    TestRetryLimit <- MCTestRetryLimit
    MaxMsgs <- MCMaxMsgs
    InitialMsgs <- MCInitialMsgsOne
    AcceptBy <- MCAcceptBy
    MaxTime <- MCMaxTime
SPECIFICATION Spec
INVARIANT TypeOK
INVARIANT AtMostOneResponse
 
INVARIANT NoStaleListener
PROPERTY LongPollRefined
SYMMETRY Symmetry
