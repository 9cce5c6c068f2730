SPECIFICATION FairSpec
CONSTANTS
  Session = {s1}
  Subscriber = {c1, c2, c3}
  Caller = {d1, d2}
  Cap = 1
  MaxOut = 2
  Nobody = Nobody
INVARIANTS NoPanic OrphansAreLate 
PROPERTIES ImplementsMulticast CallsEnd
CHECK_DEADLOCK FALSE
