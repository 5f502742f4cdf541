\* Every request against every state of the service information.
CONSTANTS
  CounterMod = 3
  MAXDATA_VALUE = 4088
  BoardNameLen = 4
  Requests <- MCRequests
  ServiceLens = {0, 5}
SPECIFICATION Spec
INVARIANTS
  TypeOK
  LastErrorReported
  StatsReported
  LengthCoversReport
