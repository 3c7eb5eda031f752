SPECIFICATION FairSpec
CONSTANTS
  Calls = {c1, c2}
  Messengers = {m1, m2}
  Ids = {i1, i2}
  NoCall = NoCall
  Transports = {"UnixSocket"}
  FreshIds = TRUE
  MayCrash = FALSE
INVARIANTS
  AnswerKept
PROPERTIES
  RequestAnswered
CHECK_DEADLOCK FALSE
