SPECIFICATION Spec
CONSTANTS
  Core = 4
  MaxHistory = 3
  Word = 8
  LongWord = 32
  DefaultPeriod = 10
  Period = 100
  KernelPeriod = 100
  Second = 1000
  Scope = {"v1", "v2"}
  own = "v1"
  Matching = {"v1"}
  V2 = TRUE
  Works = {0, 1, 4}
  Quotas = {}
  Totals = {0, 1, 2, 3, 4, 5, 6, 7, 8, 9, 10, 11, 12}
  ElapsedBound = 2
  PauseBound = 1
  MicroBound = 2
INVARIANT LaterTicksMeasured
CHECK_DEADLOCK FALSE
