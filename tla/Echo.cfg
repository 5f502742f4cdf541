\* The client's echoes through domapp, with signals and a driver that cuts
\* messages off.  Both programs end, so the system stops.
CONSTANTS
  MAX_MSG = 2
  NULL = NULL
  CounterMod = 2
  MAXDATA_VALUE = 4088
  Signals = {SIGINT, SIGTERM}
  NumMsgs = 3
  MsgLen = 2
SPECIFICATION Spec
CHECK_DEADLOCK FALSE
INVARIANTS
  TypeOK
  OnlyFaultsFail
  ClosedBeforeDeath
  OneKindOneCleanup
PROPERTIES
  CountsOwnEcho
  ClientFinishes
  SignalEnds
