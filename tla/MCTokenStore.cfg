\* One Enroll handler at a time and two `token new` processes; reads do not fail.
SPECIFICATION Spec
CONSTANTS
  c1 = c1  c2 = c2  k1 = k1  k2 = k2
  Clis <- MCClis
  Tokens <- MCTokens
  Handlers = {h1}
  Daemon = Daemon
  Stranger = Stranger
  Ttls = {0, 1}
  MaxTime = 2
  Faults = {"lock", "write"}
  None = None
SYMMETRY Interchangeable
INVARIANTS TypeOK SingleUse StoreDecodable AnswerDurable NoTokenLost
PROPERTY ImplementsJoinTokens
