\* Is the log closed once, whatever signals arrive?
CONSTANTS
  MAX_MSG = 2
  NULL = NULL
  CounterMod = 2
  MAXDATA_VALUE = 4088
  Signals = {SIGINT, SIGTERM}
  NumMsgs = 3
  MsgLen = 2
SPECIFICATION Spec
CHECK_DEADLOCK FALSE
INVARIANTS
  LogClosedOnce
