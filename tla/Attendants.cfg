SPECIFICATION FairSpec
CONSTANTS
  Retries = 2
  FwdMaxRestarts = 1
  Launches = 3
  Commands = 1
  Deaths = 1
  Faults = 2
INVARIANTS
  TypeOK
PROPERTIES
  VerdictIsOwn
  WorkersEnd
  DeadForwarderIsSeen
  SpinEnds
CHECK_DEADLOCK FALSE
