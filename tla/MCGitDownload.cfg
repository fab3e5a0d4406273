SPECIFICATION FairSpec
CONSTANTS
  Worlds <- AllWorlds
  MaxFaults = 2
INVARIANTS
  TypeOK
  CleanOutput
  HealthyDownloadSucceeds
  LazyCredentials
PROPERTIES DefinitiveStops Terminates
