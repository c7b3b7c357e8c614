\* One Enroll handler; a read of tokens.json may fail.
SPECIFICATION Spec
CONSTANTS
  c1 = c1  c2 = c2  k1 = k1  k2 = k2
  Clis <- MCClis
  Tokens <- MCTokens
  Handlers = {h1}
  Daemon = Daemon
  Stranger = Stranger
  Ttls = {1}
  MaxTime = 0
  Faults = {"read"}
  None = None
INVARIANT NoTokenLost
