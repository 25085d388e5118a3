SPECIFICATION SystemSpec

CONSTANTS
  m1 = m1
  m2 = m2
  a1 = a1
  a2 = a2
  None = None
  Msg <- Messages
  Addr <- Addresses
  UseLru = TRUE
  LruSize = 1
  MaxEvicts = 0
  Stalled <- Nobody
  Home = a1
  LetterOf <- Letters
  Garbled <- Mixed
  NotUtf8 = {139}
  Misread <- Unparsed
  HeaderLimit = 8
  EnableCompression = FALSE
  hash_key = 2
  MaxBreaks = 1

INVARIANTS
  ArrivesAtMostOnce
  NoneLost
PROPERTIES
  FeedsListener

CHECK_DEADLOCK FALSE
