SPECIFICATION Spec
CONSTANTS
  Objects = {"a"}
  Memories = {"m", "n"}
  Peers = {"p"}
  Sources = {1, 2}
  None = None
INVARIANTS
  RefusedStartIsVoid
