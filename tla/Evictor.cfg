SPECIFICATION Spec
CONSTANTS
  Calls = {c1}
  MaxReplicas = 2
INVARIANTS
  TypeOK
  SettledWorkers
  LastProviderServes
PROPERTIES
  ReloadsEnd
  PressureRelieved
  ShutdownEnds
CHECK_DEADLOCK FALSE
