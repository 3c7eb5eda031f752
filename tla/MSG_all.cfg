SPECIFICATION Spec
CONSTANTS
  Calls = {c1, c2}
  Messengers = {m1, m2}
  Ids = {i1, i2}
  NoCall = NoCall
  Transports = {"UnixSocket", "FileBased", "SharedMemory"}
  FreshIds = FALSE
  MayCrash = TRUE
SYMMETRY Symmetry
INVARIANTS
  TypeOK
  OwnAnswer
  PendingUnanswered
  ClosedOnlyOnReuse
CHECK_DEADLOCK FALSE
