SPECIFICATION Spec

CONSTANTS
  c1 = c1
  c2 = c2
  i1 = i1
  Call <- OneCall
  Incoming <- Nothing
  MaxTargets = 2
  Args <- PlainSend
  Stalled <- Nothing

INVARIANTS
  TxNeverDropped

CHECK_DEADLOCK FALSE
