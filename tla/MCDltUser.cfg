\* Histories of both protocols; the process may end, so deadlock is not checked.
CONSTANTS
  t1 = t1
  t2 = t2
  Threads = {t1, t2}
  BufMin = 1
  BufMax = 2
  MaxDaemons = 2
  Limits <- UserLimits
SPECIFICATION FairSpec
CHECK_DEADLOCK FALSE
INVARIANTS
  HandedOver
  LossReported
  OverflowAccountedV2
  ContextsKnown
PROPERTY
  ResentV2
