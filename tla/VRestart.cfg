SPECIFICATION Spec
CONSTANTS
  a = a
  b = b
  c3 = c3
  lan = lan
  typo = typo
  none = none
  NoInfra = none
  Container = {a}
  Infra = {}
  ValidInfra = {}
  Offered <- Nothing
  Registries <- NoRespawnRegistries
  MaxRestarts = 0
  MaxTimers = 1
  Commands = 1
  Unattended = 0
  Deaths = 0
  Faults = 0
  SpontaneousExits = FALSE
  CleanDeaths = TRUE
PROPERTY
  RestartRelaunches
CHECK_DEADLOCK FALSE
