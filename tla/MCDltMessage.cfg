CONSTANTS
  TruncatedMessage <- MCTruncated
  NoarModulus = 256
  Logs <- MCLogs
  FilterMax = 3
  Int32Max = 9
  Files <- MCFiles
  Filters <- MCFilters
  HeaderSize = 2
  SerialSize = 2
  ReceiveBufSize = 8
  ClientShapes <- MCClientShapesWithIdle
  SetIncrease = 2
  EnvTexts <- MCEnvTextsWithNone
  EnvContexts <- MCEnvContexts
SPECIFICATION MCSpec
INVARIANTS  FileExact ClientExact 
CHECK_DEADLOCK FALSE
