SPECIFICATION FairSpec
CONSTANTS
  Requests = {r1, r2}
  Concurrency = 1
  Statuses = {200, 500}
  BodyMayStall = FALSE
INVARIANTS
  PermitsConserved
PROPERTIES
  HealthTurnsSlowly
  RequestsReturn
  HealthFollows
