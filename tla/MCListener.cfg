SPECIFICATION FairSpec

CONSTANTS
  c1 = c1
  c2 = c2
  Conn <- Conns
  Letter <- Letters
  Foreign <- ForeignFrames
  NotUtf8 = {139}
  Misread <- Parsed
  EnableCompression = FALSE
  HeaderLimit = 15
  hash_key = 2
  MaxFrames = 2

INVARIANTS
  TypeOK
  ReceivedAsSent
  OwnLettersNeverEndIt
PROPERTIES
  EveryFrameRead
  ListensAgain

CHECK_DEADLOCK FALSE
