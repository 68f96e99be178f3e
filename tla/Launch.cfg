SPECIFICATION Spec
CONSTANTS
  Strings <- SomeStrings
  Settings <- SomeSettings
  Image <- SomeImage
  Host <- SomeHost
  DefaultCaps <- SomeDefaultCaps
  DefaultPath <- SomeDefaultPath
INVARIANTS
  MountsAsked
  DevicesAllowed
  ProcessAsAsked
CHECK_DEADLOCK FALSE
