\* Two clients: no message is lost silently.
CONSTANTS
  RingMin = 4
  RingMax = 4
  MaxConns = 2
  Limits <- SkipLimits
SPECIFICATION Spec
INVARIANT
  NoSilentLoss
