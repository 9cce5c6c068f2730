SPECIFICATION FairSpec
CONSTANTS
  Command = {p1, p2}
  Phone = {h1, h2, h3}
  MaxKeys = 2
  Nobody = Nobody
INVARIANTS TypeOK 
PROPERTIES SavedForGood CommandsEnd
CHECK_DEADLOCK FALSE
