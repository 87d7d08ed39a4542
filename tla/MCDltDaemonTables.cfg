\* Histories of every kind; they end with their bounds, so deadlock is not checked.
CONSTANTS
  p1 = p1
  p2 = p2
  p3 = p3
  AppIds = {1, 2}
  CtxIds = {1, 2}
  IdLength <- MCIdLength
  Pids = {p1, p2, p3}
  AppOf <- MCAppOf
  Levels <- MCLevels
  Statuses <- MCStatuses
  Descs = {0, 5}
  ContextLogLevel = 4
  ContextTraceStatus = 0
  MaxFd = 5
  Limits <- TablesLimits
SPECIFICATION Spec
CHECK_DEADLOCK FALSE
INVARIANTS
  TablesSound
  LevelsKnown
PROPERTIES
  ConfigSurvives
