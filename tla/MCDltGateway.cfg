CONSTANTS
  ReconnectMax = 1
  Fds = {1, 2, 3}
  PendingMax = 3
  LogMax = 2
  Shapes <- MCShapes
SPECIFICATION Spec
INVARIANTS TimersExact
PROPERTIES Reconnects TablesConverge
