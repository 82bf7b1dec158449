SPECIFICATION Spec
CONSTANTS
  Channels <- TwoChannels
  Confs <- OwnAndDefault
  InitReqs = {}
  Units = {1, 2}
  Default = 1
  MaxRead = 2
  MaxWrite = 2
  MaxBothRead = 1
  MaxBothWrite = 1
  AddrMod = 1
  Values = {1}
  Interval = 1
  MaxLag = 0
  MaxChanges = 0
INVARIANTS
  DefaultUnitIsUsed
