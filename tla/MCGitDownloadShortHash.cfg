SPECIFICATION Spec
CONSTANTS
  Worlds <- SideBranch
  MaxFaults = 0
INVARIANT ShortHashWalksEveryRef
