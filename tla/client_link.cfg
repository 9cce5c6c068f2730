SPECIFICATION FairSpec
CONSTANTS
  MaxFaults = 3
  MayStall = {1, 2, 3}
INVARIANTS TypeOK RegistersFirst  OneLive ReturnsClosed
PROPERTIES ImplementsLink Reconnects CloseEnds
CHECK_DEADLOCK FALSE
