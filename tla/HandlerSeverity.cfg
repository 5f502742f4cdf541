\* Is the severity reported that of the last error?
CONSTANTS
  CounterMod = 3
  MAXDATA_VALUE = 4088
  BoardNameLen = 4
  Requests <- MCRequests
  ServiceLens = {0, 5}
SPECIFICATION Spec
INVARIANTS
  SeverityReported
