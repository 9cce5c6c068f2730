SPECIFICATION FairSpec
CONSTANTS
  Session = {s1}
  Client = {c1, c2}
  QueueCap = 1
  PtyCap = 1
  InputCap = 1
  MaxOut = 2
  MayStall = {c1}
  Nobody = Nobody
INVARIANTS NothingLost OnlyClientsBlock
PROPERTIES DestroyedTakesNoInput OutputArrives 
CHECK_DEADLOCK FALSE
VIEW ExceptDone
