SPECIFICATION Spec
CONSTANTS
  Core = 4
  MaxHistory = 3
  Word = 64
  LongWord = 64
  DefaultPeriod = 10
  Period = 100
  KernelPeriod = 100
  Second = 1000
  Scope = {"v1", "v10"}
  own = "v1"
  Matching = {"v1", "v10"}
  V2 = TRUE
  Works = {0, 4}
  Quotas = {333}
  Totals = {0, 4, 8}
  ElapsedBound = 2
  PauseBound = 1
  MicroBound = 1
INVARIANT EnforcedOnOwnVM
CHECK_DEADLOCK FALSE
