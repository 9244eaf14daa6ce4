SPECIFICATION Spec
CONSTANTS
  Visits <- MCVisits
  Load <- MCLoad
  Buffer = 2
INVARIANTS TypeOK
PROPERTIES Relays StopDrains
\* After a stop nothing is left to do.
CHECK_DEADLOCK FALSE
