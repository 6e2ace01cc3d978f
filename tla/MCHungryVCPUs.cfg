SPECIFICATION HungrySpec
CONSTANTS
  big = big
  small = small
  VCPU = {1, 2}
  VM = {big, small}
  VmOf <- TwoVmOf
  Nominal <- TwoNominal
  Capacity = 36
  Max = 40
  Floor = 4
  Window = 20
  TriggerIncrement = 90
  TriggerDecrement = 50
  IncreasingSpeed = 100
  DecreasingSpeed = 50
  Word = 100
  Usages = {0}
  Deltas = {100}
  Loss = 1
  MoneyBound = 100
  WakeBound = 0
PROPERTY NominalReached
