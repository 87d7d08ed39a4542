SPECIFICATION MCSpec
CONSTANTS
  Ids <- MCIds
  OwnEcu = "E"
  DLT_ID_SIZE = 2
  MAX_ERRORS = 2
  Limits <- MCLogLimits
  SectionsMax = 3
  KeysMax = 8
  ConfigFiles <- MCConfigFilesAndNone
INVARIANTS StorageSound 
PROPERTIES StorageSteps
CHECK_DEADLOCK FALSE
