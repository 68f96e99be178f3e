SPECIFICATION FairSpec
CONSTANTS
  Calls = {k1, k2, k3}
  Consoles = {s1, s2}
  Ports = {p1, p2}
  Seconds = 1
  Deaths = 1
  Faults = 1
  None = None
INVARIANTS
  TypeOK
  OutputIsOwn
PROPERTIES
  InUseSpared
  CallsAnswered
  IdleEnds
CHECK_DEADLOCK FALSE
