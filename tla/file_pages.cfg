SPECIFICATION Spec
CONSTANTS
  small = small  huge = huge  other = other  s1 = s1  s2 = s2  s3 = s3
  None = None
  Files = {small, other, huge}
  TooBig = {huge}
  Slugs = {s1, s2, s3}
  CallIds = {1, 2, 3}
  MaxEvents = 10
SYMMETRY AnySlug
CHECK_DEADLOCK FALSE
INVARIANT IInv
INVARIANT OneUploadAtATime
INVARIANT UrlLeadsToTheFile
