\* Senders send whenever they like.  A sender that keeps the mutex stops
\* everybody, so the system may really come to a halt.
CONSTANTS
  s1 = s1
  s2 = s2
  r1 = r1
  r2 = r2
  m1 = m1
  m2 = m2
  MESSAGE_QUEUE_SIZE = 3
  Senders <- MCSenders
  Receivers <- MCReceivers
  Messages <- MCMessages
  NULL = NULL
  NoThread = NoThread
SPECIFICATION Spec
INVARIANTS
  TypeOK
  NoLostWakeup
  AtMostOneQueued
  LockReleased
  AcceptedIsQueued
PROPERTIES
  ChannelSpec
  Delivered
CHECK_DEADLOCK FALSE
