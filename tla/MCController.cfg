\* Two processes and two approval ids, an agent that is edited and restarted.
SPECIFICATION CPatientSpec
CONSTANTS
  c1 = c1  c2 = c2  i1 = i1  i2 = i2  rm = rm
  Calls <- MCCalls
  Commands <- MCCommands
  Ids <- MCIds
  Files <- MCFiles
  Certs <- MCCerts
  MaxProcs = 2
  NoCert = NoCert
  NoFile = NoFile
  BadFile = BadFile
  Stranger = Stranger
  NoId = NoId
  None = None
  TTL = 0
  MaxTime = 1
INVARIANTS CTypeOK NeverAsksTwice OutcomeIsTrue ThreeChecks
PROPERTIES CommandEnds DrainEnds
