--------------------------- MODULE MC_Reachability ---------------------------
EXTENDS Reachability

CONSTANTS p1, p2

MCPeers == {p1, p2}
MCGrace == 1
MCAgeCap == 2
OneReport == 1
TwoReports == 2

=============================================================================
