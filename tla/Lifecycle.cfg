SPECIFICATION Spec
CONSTANTS
  a = a
  b = b
  c3 = c3
  lan = lan
  typo = typo
  none = none
  NoInfra = none
  Container = {a, b}
  Infra = {}
  ValidInfra = {}
  Offered <- LifeOffered
  Registries <- LifeRegistries
  MaxRestarts = 1
  MaxTimers = 2
  Commands = 4
  Unattended = 1
  Deaths = 1
  Faults = 1
  SpontaneousExits = TRUE
  CleanDeaths = FALSE
INVARIANTS
  TypeOK
  WantedIsPursued
  StopIsEnforced
PROPERTY
  OnlyStartWants
CHECK_DEADLOCK FALSE
