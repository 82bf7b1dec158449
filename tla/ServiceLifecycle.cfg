SPECIFICATION FairSpec
CONSTANTS
  Objects = {"a"}
  Memories = {"m", "n"}
  Peers = {"p"}
  Sources = {1, 2}
  None = None
INVARIANTS
  TypeOK
  SourcesAreTracked
  ServedAsStarted
  StartedStays
PROPERTIES
  BrokenIsReleased
