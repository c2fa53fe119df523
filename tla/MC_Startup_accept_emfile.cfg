CONSTANTS
    s1 = s1
    s2 = s2
    c1 = c1
    c2 = c2
    c3 = c3
    IpArgs <- MCIpArgs
    ConfIpArgs <- MCConfIpArgs
    PortArgs <- MCPortArgs
    LogLevelArgs <- MCLogLevelArgs
    ValidLogLevels <- MCValidLogLevels
    DirOutcomes <- DirCreated
    Slots <- MCSlots
    ResolveOutcomes <- ResolveAlways
    Clients <- MCClients
    FdLimit <- MCFdLimitOne
SPECIFICATION Spec
INVARIANT ExitCodeAsSpecified
