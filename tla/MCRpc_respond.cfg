SPECIFICATION Spec

CONSTANTS
  r1 = r1
  n1 = n1
  n2 = n2
  n3 = n3
  None = None
  Req <- OneRequest
  Node <- TwoNodes
  Host <- OneHost
  Port <- OwnPort
  Targets <- ToOther
  Stalled <- Nobody
  MaxAnswers = 2

INVARIANTS
  RespondSends

CHECK_DEADLOCK FALSE
