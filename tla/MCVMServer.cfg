SPECIFICATION FairSpec
CONSTANTS
  c1 = c1
  c2 = c2
  c3 = c3
  acceptor = acceptor
  none = none
  Client = {c1, c2, c3}
  Name <- MCName
  Port = {80}
  Requests <- MCRequests
  Configuration <- MCConfiguration
  Digit = {"0", "1", "2"}
  Faults = {"provision", "chmod", "filesystem", "iptables", "accept", "stop"}
  Misread = {0, 80}
  Mortal = {c1}
INVARIANTS AnswerIsTrue HandlersClose OnlyProvisioningEnds PortLeadsToVM
PROPERTIES ProvisionedAsWritten Answered StopEnds
CHECK_DEADLOCK FALSE
