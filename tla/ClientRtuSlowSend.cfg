SPECIFICATION FairSpec
CONSTANTS
  Transport = "serial"
  Ops <- OneRead
  Slaves = {1}
  RetryTimes = 2
  TidMod = 5
  FaultKinds = {"slow"}
  MaxFaults = 1
  MaxQueue = 2
  Junk = Junk
  None = None
INVARIANTS
  ReplyIsOurs
