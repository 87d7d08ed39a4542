SPECIFICATION Spec
CONSTANTS
  Peers <- MCPeers
  Fds <- MCFds
  DLT_EV_BASE_FD = 4
  HeaderSize = 2
  Limits <- LoopLimits
INVARIANTS HangupSurvived
CHECK_DEADLOCK FALSE
