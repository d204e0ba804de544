SPECIFICATION TurnsSpec
CONSTANTS
  h1 = h1
  h2 = h2
  t1 = t1
  t2 = t2
  Threads = {t1, t2}
  Hashes = {h1, h2}
  Indices <- MCIndices
  LaneBits = 2
  WordLanes = 2
  NumWords = 2
  ResetAt = 3
  MaxTries = 2
  MaxAdds = 4
INVARIANTS
  AgingEarned
  SequentialNeverUndercounts
PROPERTIES
  LaneSteps
