SPECIFICATION FairSpec
CONSTANTS
  big = big
  small = small
  VCPU = {1, 2, 3}
  VM = {big, small}
  VmOf <- ThreeVmOf
  Nominal <- ThreeNominal
  Capacity = 7
  Max = 5
  Floor = 1
  Window = 2
  TriggerIncrement = 90
  TriggerDecrement = 50
  IncreasingSpeed = 50
  DecreasingSpeed = 50
  Word = 100
  Usages = {0, 2, 5}
  Deltas = {100}
  Loss = 1
  MoneyBound = 3
INVARIANTS
  TypeOK Conservation QuotasFitHost NoIdleWhileWanted ServedAboveNominal BrokeBeforeFree AllocationFits
PROPERTIES
  RunEnds LedgerSpec
