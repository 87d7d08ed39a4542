CONSTANTS
  WindowSize = 3
  WindowResolution = 2
  TimestampResolution = 2
  SoftFrequency = 2
  HardFrequency = 2
  DaemonDefault <- MCDaemonDefault
  ClientDefault <- MCClientDefault
  Contexts = {1, 2}
  t1 = t1
  t2 = t2
  Loggers = {t1, t2}
  LoadLimits <- FileLimits
SPECIFICATION LoadSpec
INVARIANTS DaemonKeeps
CHECK_DEADLOCK FALSE
