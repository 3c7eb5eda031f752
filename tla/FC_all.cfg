SPECIFICATION FairSpec
CONSTANTS
  Messages = {m1, m2}
  Clients = {c1}
  None = None
  Garbage = Garbage
  FaultSets <- Faults
INVARIANTS
  TypeOK
  HandledOnce
  NothingSkipped
PROPERTIES
  InOrder
  Delivered
  AnswerTaken
CHECK_DEADLOCK FALSE
