SPECIFICATION RoutingSpec
INVARIANT StatusAsSpecified
