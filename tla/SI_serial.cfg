SPECIFICATION Spec
CONSTANTS
  Procs = {p1, p2, p3, p4}
  NoProc = NoProc
  InitialProtocols = {"UnixSocket", "FileBased", "SharedMemory"}
  Fallbacks <- DefaultFallbacks
  Serialized = TRUE
  Prompt = TRUE
  SockInTempDir = TRUE
  MaxExits = 3
INVARIANT AtMostOnePrimary
INVARIANT EndpointKept
INVARIANT PidNamesPrimary
CHECK_DEADLOCK FALSE
