CONSTANTS
  w1 = w1  w2 = w2  w3 = w3
  p1 = p1  p2 = p2
  k1 = k1  k2 = k2
  Waits <- WaitCalls
  Provides <- ProvideCalls
  Closers <- CloseCalls
SPECIFICATION Spec
INVARIANTS
  TypeOK
  NoLostWakeup
  OneShot
  NoLossNoDup
  NoOvertaking
  NoneLeftBehind
PROPERTIES
  ClosedAnswersAll
  Rendezvouses
\* A wait() nobody provides for stays suspended: that is what it is for.
CHECK_DEADLOCK FALSE
