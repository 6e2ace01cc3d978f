SPECIFICATION FairSpec
CONSTANTS
  a = a
  b = b
  none = none
  loop = loop
  acceptor = acceptor
  VM = {a, b}
  Arrivals = "any"
INVARIANTS
  ResetOutsideRun AtMostOneStaleEntry
PROPERTIES
  ResetAnswered LoopGoesOn
