SPECIFICATION FairSpec
CONSTANTS
  c1 = c1
  c2 = c2
  Conn = {c1, c2}
  Presence = presence
  Nobody = Nobody
  MayStall = {}
PROPERTIES RequestsFinish
CHECK_DEADLOCK FALSE
