SPECIFICATION FairSpec
CONSTANTS
  a = a
  b = b
  c3 = c3
  lan = lan
  typo = typo
  none = none
  NoInfra = none
  Container = {a, b, c3}
  Infra = {}
  ValidInfra = {}
  Offered <- Nothing
  Registries <- Graphs
  MaxRestarts = 0
  MaxTimers = 1
  Commands = 1
  Unattended = 0
  Deaths = 0
  Faults = 0
  SpontaneousExits = FALSE
  CleanDeaths = TRUE
INVARIANT
  NoReentry
PROPERTIES
  CyclesDoNotWait
  LaunchWaitsForDeps
  WantedRuns
CHECK_DEADLOCK FALSE
