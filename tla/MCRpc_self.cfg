SPECIFICATION Spec

CONSTANTS
  r1 = r1
  n1 = n1
  n2 = n2
  n3 = n3
  None = None
  Req <- OneRequest
  Node <- TwoNodes
  Host <- OneHost
  Port <- OwnPort
  Targets <- ToAnyone
  Stalled <- Nobody
  MaxAnswers = 2

INVARIANTS
  OnlyResponsesTaken

CHECK_DEADLOCK FALSE
