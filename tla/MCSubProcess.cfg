SPECIFICATION FairSpec
CONSTANTS
  p1 = p1
  p2 = p2
  none = none
  console = console
  Thread = {p1, p2}
  Scripts <- MCScripts
  Forkless = {"virt-install", "iptables"}
  Installed = {"virt-install", "chmod", "ssh", "iptables"}
  Capacity = 1
  MaxDescriptor = 12
  Outputs <- MCOutputs
INVARIANTS HandlesAreOwn ReportIsWhole
PROPERTIES WaitEnds JobsEnd
CHECK_DEADLOCK FALSE
