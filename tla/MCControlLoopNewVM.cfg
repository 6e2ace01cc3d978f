SPECIFICATION Spec
CONSTANTS
  a = a
  b = b
  none = none
  loop = loop
  acceptor = acceptor
  VM = {a, b}
  Arrivals = "any"
INVARIANT MeansHaveTicks
