SPECIFICATION Spec
CONSTANTS
  s1 = s1  s2 = s2  i1 = i1  i2 = i2
  NoRow = NoRow
  Slugs = {s1}
  Instances = {i1, i2}
  Faults = {}
  MaxHits = 3
CHECK_DEADLOCK FALSE
INVARIANT RenameDropsNothing
