\* Histories of several shapes; the ring takes four or five units.
CONSTANTS
  RingMin = 4
  RingMax = 5
  MaxConns = 3
  Limits <- ClientLimits
SPECIFICATION FairSpec
INVARIANTS
  StateSound
  InOrder
  NothingLost
  LossCounted
PROPERTIES
  Drained
  EventEnds
