SPECIFICATION Spec
CONSTANTS
  v1 = v1
  bad = bad
  img = img
  None = None
  Version = {v1, bad}
  Good = {v1}
  Built = {}
  MaxJobs = 1
  Gated = TRUE
  AutoUpgrade = FALSE
  Commands = 2
  Deaths = 0
  Exits = 0
PROPERTY
  RollsBackToPrevious
CHECK_DEADLOCK FALSE
