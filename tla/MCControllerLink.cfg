CONSTANT MaxPings = 2
SPECIFICATION Spec
INVARIANTS TypeOK PingsInTurn
PROPERTIES EveryPingAnswered StopEndsBoth
\* Both ends may have ended: nothing is left to do on this connection.
CHECK_DEADLOCK FALSE
