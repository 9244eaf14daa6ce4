CONSTANTS
  c1 = c1  c2 = c2  c3 = c3
  Conns = {c1, c2, c3}
  a = a  b = b
  None = None
  ClientHellos <- Hellos
  WorkerHellos = {a}
  QuietStops = FALSE
SPECIFICATION Spec
SYMMETRY Symmetry
INVARIANTS
  TypeOK
  LiveIsRegistered
\* The three connections are made once; when all is over nothing is left to do.
CHECK_DEADLOCK FALSE
