\* Two Enroll handlers sharing one Flock, one `token new` process, one token, every fault.
SPECIFICATION FairSpec
CONSTANTS
  c1 = c1  c2 = c2  k1 = k1  k2 = k2
  Clis <- MCOneCli
  Tokens <- MCOneToken
  Handlers = {h1, h2}
  Daemon = Daemon
  Stranger = Stranger
  Ttls = {0}
  MaxTime = 0
  Faults = {"lock", "read", "write"}
  None = None
PROPERTY CallReturns
