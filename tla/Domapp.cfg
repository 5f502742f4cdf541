\* The whole program with its hub.  It ends when a receive or a send fails
\* or a signal arrives, and waits for a hub that does not read, so the
\* system may really stop.
CONSTANTS
  MAX_MSG = 2
  NULL = NULL
  CounterMod = 1
  MAXDATA_VALUE = 4088
  BoardNameLen = 4
  ServiceLens = {0}
  Requests <- MCRequests
  Cuts <- MCCuts
  Window = 2
  OutCap = 2
SPECIFICATION Spec
CHECK_DEADLOCK FALSE
INVARIANTS
  TypeOK
  AllFreeBetweenMessages
  BufferInUseIsOurs
PROPERTIES
  ServerSpec
  Answered
  EndsAfterHangUp
