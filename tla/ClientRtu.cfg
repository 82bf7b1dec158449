SPECIFICATION FairSpec
CONSTANTS
  Transport = "serial"
  Ops <- TwoReads
  Slaves = {1}
  RetryTimes = 2
  TidMod = 2
  FaultKinds = {"refused", "write", "slow", "late", "partial", "lost", "exception", "unit", "garbled"}
  MaxFaults = 2
  MaxQueue = 2
  Junk = Junk
  None = None
INVARIANTS
  OnlyOpenIoUsed
  ReturnTellsLink
  UndisturbedReplyIsOurs
PROPERTIES
  CallsAreBounded
  EveryCallReturns
  UndisturbedRecovers
