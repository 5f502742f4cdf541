\* Does every reply fit the buffer it is sent from?
CONSTANTS
  MAX_MSG = 2
  NULL = NULL
  CounterMod = 1
  MAXDATA_VALUE = 4088
  BoardNameLen = 4
  ServiceLens = {0}
  Requests <- MCRequests
  Cuts <- MCCuts
  Window = 3
  OutCap = 2
SPECIFICATION Spec
CHECK_DEADLOCK FALSE
INVARIANTS
  ReplyFitsBuffer
