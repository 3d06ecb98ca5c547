SPECIFICATION Spec
CONSTANTS
  everything = everything  second = second  r1 = r1
  None = None  Off = Off
  Tokens = {t1}
  Pastes = {1, 2, 3}
  Files = {4}
  Reports = {r1}
  Target <- TargetMC
  Queries = {everything, second}
  NoQuery = everything
  Hits <- HitsMC
  PageSize = 2
  CallIds = {1, 2}
  MaxEvents = 4
CHECK_DEADLOCK FALSE
INVARIANT IInv
INVARIANT WaitingIsForSomething
INVARIANT RowsMatchControls
