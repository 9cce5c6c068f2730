SPECIFICATION Spec
CONSTANTS
  Session = {s1, s2}
  Worker = {w1, w2}
  TmuxFound = {TRUE, FALSE}
  Faults = {"new", "kill", "has", "disk", "torn"}
VIEW ExceptIdle
SYMMETRY Symmetry
INVARIANTS HeldIsStored
