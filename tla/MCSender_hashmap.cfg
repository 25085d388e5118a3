SPECIFICATION Spec

CONSTANTS
  m1 = m1
  m2 = m2
  m3 = m3
  a1 = a1
  a2 = a2
  None = None
  Msg <- Messages
  Addr <- OneAddress
  UseLru = FALSE
  LruSize = 1
  MaxEvicts = 1
  Stalled <- Nobody

SYMMETRY MsgSymmetry

INVARIANTS
  TypeOK
  DeliveredOnce
  NoStreamLeak
  FramesIntact
  FailsOnlyOnFreshStream
  NoUseAfterShutdown

CHECK_DEADLOCK FALSE
