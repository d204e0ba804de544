SPECIFICATION TurnsSpec
CONSTANTS
  t1 = t1
  t2 = t2
  k1 = k1
  k2 = k2
  e1 = e1
  e2 = e2
  e3 = e3
  e4 = e4
  ask = ask
  ask2 = ask2
  other = other
  light = light
  heavy = heavy
  alien = alien
  plain = plain
  NoThread = NoThread
  NoEntry = NoEntry
  Threads = {t1, t2}
  Keys = {k1, k2}
  Entries = {e1, e2, e3, e4}
  Prints = {ask, ask2, other}
  Payloads = {light, heavy, alien, plain}
  NumShards = 1
  ShardOf <- MCShardOf
  KeyOf <- MCKeyOf
  PrintOf <- MCPrintOf
  AnswerTo <- MCAnswerTo
  Weight <- MCWeight
  InitPayload <- MCInitPayload
  Mutable = {e1, e2, e3, e4}
  Deltas <- MCDeltas
  Modes = {"sampling"}
  Limits = {1, 2}
  Backoff = 1
  MinLimit = 1
  AdmissionOn = TRUE
  AdmLimit = 0
  SoftLimit = 1
  HardLimit = 2
  TtlPolicies = {"remove", "refresh"}
  QueueCap = 1
  MaxCalls = 4
INVARIANTS
  AnswersMatch
  SequentialMemSettled
PROPERTY
  ImplementsMap
SYMMETRY ThreadSymmetry
