SPECIFICATION CFairSpec
CONSTANTS
  Messages = {m1, m2}
  Hosted = {h}
  MaxConns = 2
  Handles = {k1, k2}
  Cases <- SmallCases
INVARIANTS
  AcceptedOnce
PROPERTIES
  AcceptedTaken
CHECK_DEADLOCK FALSE
