\* The service is asked for its status.
SPECIFICATION Spec
CONSTANTS
  p1 = p1  i1 = i1  i2 = i2
  Ids <- MCIds
  Daemon = Daemon
  None = None
  Torn = Torn
  Inits <- MCInits
  MaxRuns = 2
INVARIANT RunningServes
