SPECIFICATION Spec
CONSTANTS
  Root <- MCRoot
  Caps <- MCCaps
  Worlds <- MCWorlds
  MaxInt = 7
  MaxFaults = 1
INVARIANT
  DirectoryCopied
