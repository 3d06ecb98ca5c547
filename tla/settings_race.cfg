SPECIFICATION Spec
CONSTANTS
  i1 = i1  i2 = i2  a = a  b = b  c = c
  Default = Default  NoSettings = NoSettings
  Instances = {i1}
  Updates = {a, b}
  Invalid = {}
  HasRedis = FALSE
  Faults = {}
CHECK_DEADLOCK FALSE
INVARIANT AppliedIsSaved
