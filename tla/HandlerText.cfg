\* Does the reply to GET_LAST_ERROR_STR have the length the header gives it?
CONSTANTS
  CounterMod = 3
  MAXDATA_VALUE = 4088
  BoardNameLen = 4
  Requests <- MCRequests
  ServiceLens = {0, 5}
SPECIFICATION Spec
INVARIANTS
  ZeroByteSent
