SPECIFICATION FairSpec
CONSTANTS
  Session = {s1, s2}
  Worker = {w1, w2}
  TmuxFound = {TRUE}
  Faults = {"new"}
VIEW ExceptIdle
INVARIANTS DestroyedForGood LiveSessionsAreRead
PROPERTIES ImplementsDurable 
