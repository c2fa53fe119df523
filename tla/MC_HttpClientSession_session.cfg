CONSTANTS
    s1 = s1
    s2 = s2
    Sessions <- MCSessions
    ResolveOutcomes <- ResolveAlways
SPECIFICATION Spec
CHECK_DEADLOCK FALSE
INVARIANT TypeOK
PROPERTY ClientCallRefined
PROPERTY SessionReleased
