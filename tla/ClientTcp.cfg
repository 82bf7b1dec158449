SPECIFICATION FairSpec
CONSTANTS
  Transport = "tcp"
  Ops <- ReadWriteAndBoth
  Slaves = {1, 2}
  RetryTimes = 2
  TidMod = 6
  FaultKinds = {"refused", "write", "slow", "late", "partial", "lost", "exception", "unit"}
  MaxFaults = 2
  MaxQueue = 2
  Junk = Junk
  None = None
INVARIANTS
  TypeOK
  ReplyIsOurs
  AnsweredInTurn
PROPERTIES
  KeepsPromise
  RecoversByPlainCalls
