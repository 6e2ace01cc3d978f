SPECIFICATION Spec
CONSTANTS
  Core = 400
  MaxHistory = 5
  Word = 1024
  LongWord = 4096
  DefaultPeriod = 10
  Period = 100
  KernelPeriod = 100
  Second = 1000
  Scope = {"v1", "v2"}
  own = "v1"
  Matching = {"v1"}
  V2 = FALSE
  Works = {0, 1, 4, 400}
  Quotas = {333, 900}
  Totals = {0, 1, 2, 4, 5, 8, 400, 401, 404, 800}
  ElapsedBound = 2
  PauseBound = 1
  MicroBound = 2
INVARIANTS
  LaterTicksMeasured NothingLost RateWithinCore TrendSeen EnforcedIsReported
CHECK_DEADLOCK FALSE
