CONSTANTS
    p1 = p1
    p2 = p2
    Peers <- MCPeers
    Grace <- MCGrace
    AgeCap <- MCAgeCap
    MaxInflight <- TwoReports
SPECIFICATION Spec
INVARIANT ReportedOncePerOutage
