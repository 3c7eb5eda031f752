SPECIFICATION FairSpec
CONSTANTS
  Messages = {m1, m2}
  Hosted = {h}
  Clients = {c1}
  None = None
  Garbage = Garbage
  MaxSlots = 2
  FaultSets <- Faults
INVARIANTS
  TypeOK
  HandledOnce
  NoMoreThanSent
  NothingHidden
PROPERTIES
  InOrder
  Delivered
  SlotServed
CHECK_DEADLOCK FALSE
