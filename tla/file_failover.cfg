SPECIFICATION Spec
CONSTANTS
  k1 = k1  k2 = k2  v1 = v1  v2 = v2  q1 = q1  q2 = q2  c1 = c1  c2 = c2
  NoKey = NoKey
  Keys = {k1}
  Providers = {v1, v2}
  Primary = v1
  Requests = {q1}
  Cleaners = {c1}
  Batch = 1
  Faults = {"storage"}
  MaxIds = 1
  MaxCrashes = 0
CHECK_DEADLOCK FALSE
INVARIANT DirectFindsFile
