SPECIFICATION FairSpec
CONSTANTS
  a = a
  b = b
  c3 = c3
  lan = lan
  typo = typo
  none = none
  NoInfra = none
  Container = {a, b}
  Infra = {lan, typo}
  ValidInfra = {lan}
  Offered <- OutcomesOffered
  Registries <- Outcomes
  MaxRestarts = 0
  MaxTimers = 1
  Commands = 1
  Unattended = 0
  Deaths = 1
  Faults = 1
  SpontaneousExits = FALSE
  CleanDeaths = TRUE
PROPERTIES
  ImplementsSupervision
  StopEnds
  RemovedIsDropped
  OutageIsNoticed
  BadInfraGivesUp
CHECK_DEADLOCK FALSE
