SPECIFICATION RFairSpec
CONSTANTS
  Messages = {m1, m2, m3}
  Hosted = {}
  MaxConns = 2
  Cases <- SmallCases
  Programs = 2
  Malformed = {m3}
  Blank = Blank
INVARIANTS
  Fresh
PROPERTIES
  FrameShown
  FrameAnswered
CHECK_DEADLOCK FALSE
