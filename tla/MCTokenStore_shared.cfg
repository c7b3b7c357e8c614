\* Two Enroll handlers sharing the Flock of the daemon; nothing fails.
SPECIFICATION Spec
CONSTANTS
  c1 = c1  c2 = c2  k1 = k1  k2 = k2
  Clis <- MCOneCli
  Tokens <- MCTokens
  Handlers = {h1, h2}
  Daemon = Daemon
  Stranger = Stranger
  Ttls = {1}
  MaxTime = 0
  Faults = {}
  None = None
INVARIANT SingleUse
