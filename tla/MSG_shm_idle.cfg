SPECIFICATION FairSpec
CONSTANTS
  Calls = {c1}
  Messengers = {m1}
  Ids = {i1}
  NoCall = NoCall
  Transports = {"SharedMemory"}
  FreshIds = TRUE
  MayCrash = FALSE
PROPERTIES
  RequestReturns
CHECK_DEADLOCK FALSE
