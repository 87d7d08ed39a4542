\* A dynamic ring that grows twice; every message fits the minimum capacity.
CONSTANTS
  NumMessages = 3
  Message <- MCMessage
  MsgSize <- MCMsgSize
  NoMsg <- MCNoMsg
  HeadLen = 1
  BlockHeadLen = 2
  MinSize = 6
  MaxSize = 12
  StepSize = 3
SPECIFICATION Spec
INVARIANTS
  PointersAgree
  EntriesIntact
  UsedSizeExact
PROPERTY
  RefinesFifo
