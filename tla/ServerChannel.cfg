SPECIFICATION FairSpec
CONSTANTS
  Threads = {"service", "app"}
  Names <- AllNames
  Requests <- MixedRequests
  Start = 1
  Length = 2
  MaxRead = 2
  MaxWrite = 2
  AddrMod = 8
  Bytes = {0, 1}
  MaxDepth = 1
  Nobody = Nobody
INVARIANTS
  TypeOK
  LoopUnderLock
PROPERTIES
  TakesEffectAtOnce
  EveryCallReturns
