SPECIFICATION Spec

CONSTANTS
  c1 = c1
  c2 = c2
  i1 = i1
  Call <- OneCall
  Incoming <- Nothing
  MaxTargets = 2
  Args <- NotAwaiting
  Stalled <- Nothing

INVARIANTS
  SkippedSendsLeaveStats

CHECK_DEADLOCK FALSE
