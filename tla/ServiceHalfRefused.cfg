SPECIFICATION Spec
CONSTANTS
  Modes <- TcpOnly
  Own = 1
  Requests <- HalfRefused
  Tids = {0}
  Values = {0, 1}
  FaultKinds = {}
  MaxFaults = 0
  MaxIn = 2
  MaxOut = 1
  Junk = Junk
  Eof = Eof
  None = None
INVARIANTS
  AnsweredIsWritten
