SPECIFICATION Spec
CONSTANTS
  Grabs = {g1}
  Paths = {"a", "b", "link"}
  Links = {"link"}
  Blocks <- MCBlocks
  Requests <- Compressed
  Existing <- OldTrees
  MaxFaults = 0
INVARIANT CompressedFileExtracted
