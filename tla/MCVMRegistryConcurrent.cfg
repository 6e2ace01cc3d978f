SPECIFICATION FairSpec
CONSTANTS
  a = a
  b = b
  c = c
  o1 = o1
  o2 = o2
  o3 = o3
  p1 = p1
  p2 = p2
  acceptor = acceptor
  none = none
  Name = {a, b}
  Obj = {o1, o2}
  Provisioner = {p1, p2}
  Ops = {"provision", "ip"}
  Discipline = "distinct"
  Faults = {"stop"}
INVARIANT InstallExclusive
PROPERTIES EveryRequestAnswered ServiceSpec
