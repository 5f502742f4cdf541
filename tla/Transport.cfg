\* Every fragmentation of a socket's stream, every short write to a device.
CONSTANTS
  MAXDATA_VALUE = 2
  Messages <- MCMessages
  None = None
  Room = 4
  Sends = 3
SPECIFICATION Spec
CHECK_DEADLOCK FALSE
INVARIANTS
  TypeOK
  StreamInStep
PROPERTIES
  FrameSpec
  Received
