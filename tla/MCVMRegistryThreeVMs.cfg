SPECIFICATION Spec
CONSTANTS
  a = a
  b = b
  c = c
  o1 = o1
  o2 = o2
  o3 = o3
  p1 = p1
  p2 = p2
  acceptor = acceptor
  none = none
  Name = {a, b, c}
  Obj = {o1, o2, o3}
  Provisioner = {p1}
  Ops = {"provision", "kill"}
  Discipline = "one"
  Faults = {}
INVARIANT HasVMTellsRunning
