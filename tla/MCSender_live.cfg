SPECIFICATION FairSpec

CONSTANTS
  m1 = m1
  m2 = m2
  m3 = m3
  a1 = a1
  a2 = a2
  None = None
  Msg <- TwoMessages
  Addr <- Addresses
  UseLru = TRUE
  LruSize = 1
  MaxEvicts = 1
  Stalled <- Peer2

INVARIANT
  SocketsBounded
PROPERTIES
  EverySendCompletes
  UnusedStreamsClose
  ImplementsSendService

CHECK_DEADLOCK FALSE
