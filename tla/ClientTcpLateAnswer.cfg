SPECIFICATION FairSpec
CONSTANTS
  Transport = "tcp"
  Ops <- WriteAndReadOnly
  Slaves = {1}
  RetryTimes = 2
  TidMod = 5
  FaultKinds = {"late"}
  MaxFaults = 1
  MaxQueue = 2
  Junk = Junk
  None = None
PROPERTIES
  Recovers
