SPECIFICATION Spec
CONSTANTS
  s1 = s1  p1 = p1  p2 = p2  p3 = p3  r1 = r1  r2 = r2  r3 = r3  i1 = i1  i2 = i2
  NoPaste = NoPaste  NoList = NoList
  Slugs = {s1}
  Pastes = {p1, p2}
  SlugOf <- OneSlug
  Burns = {p1, p2}
  Protected = {}
  Listed = {}
  Requests = {r1, r2, r3}
  Instances = {i1}
  Home <- OneHome
  Ops = {"view", "create"}
  HasReplica = FALSE
  Faults = {}
CHECK_DEADLOCK FALSE
PROPERTY BurnTakesOwnPaste
