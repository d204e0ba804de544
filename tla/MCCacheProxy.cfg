SPECIFICATION Spec
CONSTANTS
  Requests = {r1, r2}
  Keys = {k1, k2}
  Ruled = {k1}
  Operators = {o1, o2}
  MaxTokens = 2
  MaxReports = 1
SYMMETRY Symmetry
INVARIANTS
  TypeOK
  CountsAddUp
  OneClearPerToken
CHECK_DEADLOCK FALSE
