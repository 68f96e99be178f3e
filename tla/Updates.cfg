SPECIFICATION FairSpec
CONSTANTS
  v1 = v1
  bad = bad
  img = img
  None = None
  Version = {v1, bad, img}
  Good = {v1}
  Built = {v1, bad}
  MaxJobs = 2
  Gated = TRUE
  AutoUpgrade = TRUE
  Commands = 3
  Deaths = 1
  Exits = 0
INVARIANTS
  TypeOK
  RecordedIsLive
PROPERTIES
  RollbackRestores
  VerifiedIsNew
  WatchConcludes
CHECK_DEADLOCK FALSE
