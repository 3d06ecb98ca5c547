SPECIFICATION Spec
CONSTANTS
  s1 = s1  p1 = p1  p2 = p2  p3 = p3  r1 = r1  r2 = r2  r3 = r3  i1 = i1  i2 = i2
  NoPaste = NoPaste  NoList = NoList
  Slugs = {s1}
  Pastes = {p1, p2, p3}
  SlugOf <- OneSlug
  Burns = {p2, p3}
  Protected = {p3}
  Listed = {p1}
  Requests = {r1, r2}
  Instances = {i1}
  Home <- OneHome
  Ops = {"view", "peek", "raw", "unlock", "fork", "remove", "create", "generate", "list"}
  HasReplica = FALSE
  Faults = {"crash", "db"}
CHECK_DEADLOCK FALSE
SYMMETRY Symmetry
INVARIANT IInv
INVARIANT BurnSettled
INVARIANT ViewsCoverReplies
PROPERTY ImplementsContract
PROPERTY RowLossHasCause
