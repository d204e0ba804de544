SPECIFICATION Spec
CONSTANTS
  k1 = k1
  k2 = k2
  Keys = {k1, k2}
  Size = 2
  Ttl = 1
  RuleTtl <- MCRuleTtl
  MinStale <- MCMinStale
  RuleOn = {k1, k2}
  MaxSeen = 2
  Sample = 1
  TaskCap = 1
  Workers = {w1}
  MaxAge = 3
INVARIANTS
  TypeOK
PROPERTIES
  ImplementsFifo
  ExpiredHandled
CHECK_DEADLOCK FALSE
