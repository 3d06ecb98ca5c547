SPECIFICATION Spec
CONSTANTS
  t1 = t1  good = good  bad = bad  hour = hour  blank = blank
  snap1 = snap1  snap2 = snap2
  None = None  Off = Off
  Tokens = {t1}
  Limits = {good, bad}
  Unfit = {bad}
  Options = {blank, hour}
  Blank = blank
  MaxOptions = 2
  Names = {snap1, snap2}
  CallIds = {1, 2}
  MaxEvents = 5
PROPERTY SessionEndsForCause
CHECK_DEADLOCK FALSE
