\* Commands, with care or not, and the daemon may die at any step.
SPECIFICATION FairSpec
CONSTANTS
  p1 = p1  i1 = i1  i2 = i2
  Ids <- MCIds
  Daemon = Daemon
  None = None
  Torn = Torn
  Inits <- MCInits
  MaxRuns = 3
INVARIANTS TypeOK IdStable PrintedIsWhole VerifiableUnlessForced
PROPERTIES OverwriteForced StopReturns
