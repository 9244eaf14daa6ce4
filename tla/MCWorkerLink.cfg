CONSTANT MaxPings = 1
SPECIFICATION ServerSpec
INVARIANTS
  TypeOK
  TakeoverIsLast
  CleanHandover
  VisitFailsOnlyByRace
PROPERTIES HandoverExclusive DesertedWorkerEnds
\* Both ends may have ended: nothing is left to do on this connection.
CHECK_DEADLOCK FALSE
