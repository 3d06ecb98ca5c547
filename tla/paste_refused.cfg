SPECIFICATION Spec
CONSTANTS
  s1 = s1  s2 = s2  k0 = k0  k1 = k1
  theirs = theirs  mine = mine  empty = empty
  None = None
  Slugs = {s1, s2}
  Theirs = theirs
  Mine = mine
  Empty = empty
  Keys = {k0, k1}
  OldKey = k0
  CallIds = {1, 2}
  MaxEvents = 8
SYMMETRY AnySlug
CHECK_DEADLOCK FALSE
INVARIANT BurnedIsSeen
