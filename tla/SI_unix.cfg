SPECIFICATION Spec
CONSTANTS
  Procs = {p1, p2, p3, p4}
  NoProc = NoProc
  InitialProtocols = {"UnixSocket"}
  Fallbacks <- NoFallbacks
  Serialized = FALSE
  Prompt = FALSE
  SockInTempDir = TRUE
  MaxExits = 1
INVARIANTS
  BindDecides
  SecondaryMetServer
CHECK_DEADLOCK FALSE
