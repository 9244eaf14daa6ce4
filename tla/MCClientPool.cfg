SPECIFICATION Spec
CONSTANTS
  Configs <- MCConfigs
  MaxAdders = 1
  MaxLosses = 1
CONSTRAINT StoppedIsSmall
INVARIANTS
  TypeOK
  PoolKeepsUp
PROPERTIES NeverDry StopEndsProcess
\* After a stop nothing is left to do.
CHECK_DEADLOCK FALSE
