SPECIFICATION FairSpec
CONSTANTS
  t1 = t1
  t2 = t2
  k1 = k1
  k2 = k2
  k3 = k3
  e1 = e1
  e2 = e2
  e3 = e3
  e4 = e4
  small = small
  big = big
  NoThread = NoThread
  NoEntry = NoEntry
  Payloads = {small, big}
  Weight <- MCWeight
  Threads = {t1, t2}
  Deltas = {0}
  Mutable = {}
  MinLimit = 1
  Keys = {k1, k2, k3}
  Entries = {e1, e2, e3, e4}
  NumShards = 2
  ShardOf <- MCShardOf
  KeyOf <- MCKeyOf
  InitPayload <- MCInitPayload
  Limits = {1}
  Backoff = 1
  Modes = {"listing", "sampling"}
INVARIANTS
  LenExact
  LruCoversItems
  MemExact
PROPERTY
  CallsReturn
