\* Two processes, two tokens, one credential file; daemons and CAs come and go.
SPECIFICATION Spec
CONSTANTS
  c1 = c1  c2 = c2  k1 = k1  k2 = k2  f1 = f1
  NoCert = NoCert
  None = None
  Torn = Torn
  Empty = Empty
  Clis <- MCClis
  Tokens <- MCTokens
  Paths <- MCOnePath
  IssueRoles <- MCTwoRoles
  MaxCAs = 2
SYMMETRY Interchangeable
INVARIANTS TypeOK RoleEarned ServedByOwnCA TwoLoadsOnePin
PROPERTY OldCredentialKept
