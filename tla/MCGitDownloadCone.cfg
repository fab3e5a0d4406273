SPECIFICATION Spec
CONSTANTS
  Worlds <- NoFilter
  MaxFaults = 0
INVARIANT ConeDelivered
