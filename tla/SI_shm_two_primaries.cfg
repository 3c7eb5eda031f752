SPECIFICATION Spec
CONSTANTS
  Procs = {p1, p2}
  NoProc = NoProc
  InitialProtocols = {"SharedMemory"}
  Fallbacks <- DefaultFallbacks
  Serialized = FALSE
  Prompt = TRUE
  SockInTempDir = TRUE
  MaxExits = 0
INVARIANT AtMostOnePrimary
CHECK_DEADLOCK FALSE
