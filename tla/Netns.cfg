SPECIFICATION FairSpec
CONSTANTS
  Members = {m1, m2}
  Commands = 2
  Deaths = 1
  Faults = 2
INVARIANTS
  TypeOK
  EndsClean
PROPERTIES
  HostLinkSpared
  OutageEnds
CHECK_DEADLOCK FALSE
