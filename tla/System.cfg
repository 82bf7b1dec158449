SPECIFICATION SystemSpec
CONSTANTS
  Transport = "tcp"
  Ops <- WriteAndBoth
  Slaves = {1}
  RetryTimes = 2
  TidMod = 7
  FaultKinds = {"refused", "write", "slow", "late", "partial", "lost", "exception", "unit"}
  MaxFaults = 3
  MaxQueue = 2
  MaxCalls = 5
  Junk = Junk
  None = None
INVARIANTS
  SystemTypeOK
  OkIsSettled
PROPERTIES
  KeepsRemotePromise
  SuccessIsFinal
