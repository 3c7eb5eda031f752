SPECIFICATION FairSpec
CONSTANTS
  Procs = {p1, p2, p3}
  NoProc = NoProc
  InitialProtocols = {"UnixSocket", "FileBased", "SharedMemory"}
  Fallbacks <- DefaultFallbacks
  Serialized = FALSE
  Prompt = FALSE
  SockInTempDir = FALSE
  MaxExits = 1
INVARIANT TypeOK
INVARIANT SecondaryHasServer
PROPERTY Terminates
CHECK_DEADLOCK FALSE
