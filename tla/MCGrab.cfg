SPECIFICATION Spec
CONSTANTS
  Grabs = {g1, g2, g3}
  Paths = {"a", "b", "link"}
  Links = {"link"}
  Blocks <- MCBlocks
  Requests <- MCRequests
  Existing <- OldTrees
  MaxFaults = 1
INVARIANTS
  TypeOK
  DeliveredWhole
  MergePreserves
  GrabSucceeds
  Verified
  StagingRemoved
SYMMETRY Symmetry
