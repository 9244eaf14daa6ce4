CONSTANT MaxPings = 0
SPECIFICATION Spec
PROPERTY VisitSkipsDead
CHECK_DEADLOCK FALSE
