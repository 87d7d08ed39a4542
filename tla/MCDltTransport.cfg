\* Histories end with their bounds, so deadlock is not checked.
CONSTANTS
  a1 = a1
  a2 = a2
  Apps = {a1, a2}
  Capacity = 2
  FifoSize = 1
  ShmLimits <- MCShmLimits
  Callers = {a1, a2}
  LogBufLen = 50
  SegmentSize = 16
  QueueSize = 1
  AddressSpace = 1000
  Headers <- MCHeaders
  Payloads <- MCPayloads
  Addresses <- MCAddresses
  NetLimits <- MCNetLimits
  WindowSize = 3
  WindowResolution = 2
  TimestampResolution = 2
  SoftFrequency = 2
  HardFrequency = 2
  DaemonDefault <- MCDaemonDefault
  ClientDefault <- MCClientDefault
  Contexts = {1, 2}
  t1 = t1
  t2 = t2
  Loggers = {t1, t2}
  LoadLimits <- MCLoadLimitsWithIdle
  FilesLimits <- MCFilesLimitsWithIdle
  PackageSize = 2
  StdioSize = 4
  TransferLimits <- MCTransferLimits
  Dumps = {1, 2}
  DumpSize <- MCDumpSize
  SystemLimits <- MCSystemLimits
SPECIFICATION TransportSpec
CHECK_DEADLOCK FALSE
INVARIANTS
  ShmIntact
  TracesExact
  LoadLimited
  RotationSound
  TransferExact
  DumpsKept
PROPERTIES
  ShmRead
  TracesEnd
  DumpsSent
