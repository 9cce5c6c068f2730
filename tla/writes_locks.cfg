SPECIFICATION Spec
CONSTANTS
  c1 = c1
  c2 = c2
  Conn = {c1, c2}
  Presence = presence
  Nobody = Nobody
  MayStall = {c1, c2}
INVARIANTS  OnlyPeersBlock
CHECK_DEADLOCK FALSE
SYMMETRY ConnSymmetry
