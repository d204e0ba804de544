SPECIFICATION Spec
CONSTANTS
  Calls = {c1}
  MaxReplicas = 2
  TaskCap = 1
INVARIANTS
  TypeOK
  Settled
PROPERTIES
  ReloadsEnd
  ShutdownJoins
CHECK_DEADLOCK FALSE
