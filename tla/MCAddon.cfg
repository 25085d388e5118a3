SPECIFICATION MCSpec

CONSTANTS
  s1 = s1
  s2 = s2
  s3 = s3
  good = good
  other = other
  odd = odd
  short = short
  None = None
  Call <- Calls
  HashKey = {good, other, odd, short}
  HexKey = {good, other, short}
  DigestKey = {good, other}
  N = 7
  Word = 64
  NoTx = NoTx
  size = 3
  Value <- SmallValues
  Nothing = Nothing
  Milli = 2
  MaxPuts = 8

INVARIANTS
  InstanceReady
  OneHashKey
  SenderIsSigner
  GasLimitPays
  HoldsLastValues
  ExtremesOfAll
  StatsOfWindow
PROPERTIES
  EveryCallReturns

CHECK_DEADLOCK FALSE
