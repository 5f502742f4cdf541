\* Does Message_send refuse only where the ring is full, or at least release
\* the mutex?
CONSTANTS
  s1 = s1
  s2 = s2
  r1 = r1
  r2 = r2
  m1 = m1
  m2 = m2
  MESSAGE_QUEUE_SIZE = 3
  Senders <- MCSenders
  Receivers <- MCReceivers
  Messages <- MCMessages
  NULL = NULL
  NoThread = NoThread
SPECIFICATION Spec
INVARIANTS
  SendAsCommented
CHECK_DEADLOCK FALSE
