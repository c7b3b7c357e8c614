\* One process, one token.
SPECIFICATION Spec
CONSTANTS
  c1 = c1  c2 = c2  k1 = k1  k2 = k2  f1 = f1
  NoCert = NoCert
  None = None
  Torn = Torn
  Empty = Empty
  Clis <- MCOneCli
  Tokens <- MCOneToken
  Paths <- MCOnePath
  IssueRoles <- MCRoles
  MaxCAs = 1
INVARIANT PinReasserted
