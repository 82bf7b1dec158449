SPECIFICATION FairSpec
CONSTANTS
  Modes <- AllModes
  Own = 1
  Requests <- MixedRequests
  Tids = {0, 1}
  Values = {0, 1}
  FaultKinds = {"write", "lost", "garbled", "cut", "impatient", "noise", "hangup", "lookalike"}
  MaxFaults = 1
  MaxIn = 2
  MaxOut = 1
  Junk = Junk
  Eof = Eof
  None = None
INVARIANTS
  TypeOK
  SharedStaysAttached
PROPERTIES
  KeepsPromise
  ServesAgain
