SPECIFICATION FairSpec
CONSTANTS
  i1 = i1  i2 = i2  a = a  b = b  c = c
  Default = Default  NoSettings = NoSettings
  Instances = {i1, i2}
  Updates = {a, b, c}
  Invalid = {c}
  HasRedis = TRUE
  Faults = {"redis", "db", "crash", "restore"}
CHECK_DEADLOCK FALSE
INVARIANT IInv
INVARIANT ServedWasAccepted
INVARIANT StaleIsComing
PROPERTY Converges
