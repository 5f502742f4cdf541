\* Four buffers and two callers: both cursors wrap, meet full and meet empty.
CONSTANTS
  c1 = c1
  c2 = c2
  MAX_MSG = 4
  Clients <- MCClients
  NULL = NULL
  Lengths <- MCLengths
SPECIFICATION Spec
INVARIANTS
  TypeOK
  EachBufferOnce
  FreeCntExact
  NeverCorrupt
  RefusedOnlyWhenEmpty
PROPERTIES
  FreshBuffer
  PoolSpec
