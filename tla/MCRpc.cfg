SPECIFICATION FairSpec

CONSTANTS
  r1 = r1
  n1 = n1
  n2 = n2
  n3 = n3
  None = None
  Req <- OneRequest
  Node <- ThreeNodes
  Host <- TwoHosts
  Port <- TwoPorts
  Targets <- ToOthers
  Stalled <- OneNode
  MaxAnswers = 2

INVARIANTS
  TypeOK
  PendingTracked
  OneOutcome
  StrayResponsesAreLate
  AnswerFromAskedNode
  RejectedNeverAnswered
  TimedOutTracked
PROPERTIES
  EveryRequestEnds
  PromiseSettles

CHECK_DEADLOCK FALSE
