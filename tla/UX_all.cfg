SPECIFICATION FairSpec
CONSTANTS
  Messages = {m1, m2}
  Hosted <- TwoHosted
  MaxConns = 2
  Cases <- SmallCases
INVARIANTS
  TypeOK
  ServedInOrder
  AnswersFirst
  NoSilentGap
  EndsForCause
PROPERTIES
  InOrder
  RequestServed
  BroadcastDelivered
CHECK_DEADLOCK FALSE
