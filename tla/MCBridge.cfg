SPECIFICATION FairSpec

CONSTANTS
  c1 = c1
  c2 = c2
  i1 = i1
  Call <- Calls
  Incoming <- Messages
  MaxTargets = 2
  Args <- AllArgs
  Stalled <- OneStalled

INVARIANTS
  SendsNeverUnderflow
  ReceivesExact
  AwaitedSendsDrain
PROPERTIES
  EveryDestinationCallsBack
  EveryMessageCallsBack

CHECK_DEADLOCK FALSE
