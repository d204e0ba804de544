SPECIFICATION FairSpec
CONSTANTS
  a = a
  b = b
  c = c
  Hashes = {a, b, c}
  NumShards = 1
  ShardOf <- OneShard
  Bits = {0, 1, 2, 3, 4}
  Probes <- MCProbes
  LaneBits = 2
  WordLanes = 3
  NumWords = 1
  Indices <- MCIndices
  ResetAt = 4
INVARIANT
  OneHitWondersStayOut
PROPERTY
  NewcomersWin
