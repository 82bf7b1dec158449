SPECIFICATION Spec
CONSTANTS
  Channels <- TwoChannels
  Confs <- Pairs
  InitReqs <- OneInit
  Units = {1, 2}
  Default = 1
  MaxRead = 2
  MaxWrite = 2
  MaxBothRead = 1
  MaxBothWrite = 1
  AddrMod = 3
  Values = {1, 2}
  Interval = 1
  MaxLag = 1
  MaxChanges = 1
INVARIANTS
  TypeOK
  OkReadIsRecent
  OkWriteHasArrived
PROPERTIES
  OnlyOwnCellsWritten
  FailedReadKeepsOrClears
  UpdatesAreSpaced
