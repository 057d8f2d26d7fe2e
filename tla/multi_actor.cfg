CONSTANTS
  N = 3
  Goroutines = {2}
  Callers = {"destroy"}
  MaxConns = 1
SPECIFICATION MFairSpec
INVARIANTS
  StopMeansStopped
  StoppedOnce
  PortsReleased
PROPERTIES
  EndTogether
  StopReturns
  GoroutinesEnd
