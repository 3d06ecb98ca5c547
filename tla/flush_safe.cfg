SPECIFICATION FairSpec
CONSTANTS
  s1 = s1  s2 = s2  i1 = i1  i2 = i2
  NoRow = NoRow
  Slugs = {s1, s2}
  Instances = {i1, i2}
  Faults = {"redis", "db", "crash", "delete"}
  MaxHits = 2
CHECK_DEADLOCK FALSE
INVARIANT IInv
INVARIANT AddsOnce
INVARIANT NeverOverCounted
PROPERTY ClearsOnlyItsBatch
INVARIANT NothingDropped
PROPERTY ViewsReachTheRow
