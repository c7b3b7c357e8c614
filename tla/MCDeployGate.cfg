\* Two concurrent calls and two approval ids, four policies, restarts.
SPECIFICATION Spec
CONSTANTS
  d1 = d1  d2 = d2  i1 = i1  i2 = i2  rm = rm  go = go
  Calls <- MCCalls
  Commands <- MCCommands
  Ids <- MCIds
  Files <- MCFiles
  NoFile = NoFile
  BadFile = BadFile
  Stranger = Stranger
  NoId = NoId
  None = None
  TTL = 1
  MaxTime = 2
SYMMETRY Interchangeable
INVARIANTS TypeOK DenialHolds AskedAndApproved OneRunPerApproval
PROPERTIES InTime ImplementsApprovalGate
