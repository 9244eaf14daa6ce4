CONSTANT MaxPings = 1
SPECIFICATION Spec
INVARIANT VisitReachesClient
CHECK_DEADLOCK FALSE
