SPECIFICATION Spec
CONSTANTS
  Root <- MCRoot
  Caps <- MCCaps
  Worlds <- MCWorlds
  MaxInt = 7
  MaxFaults = 1
INVARIANTS
  TypeOK
  WholeOrRefused
  BudgetKept
  Inside
  ArchiveLikeGit
  RefusedForCause
  SingleFile
  AllowedOnly
  CredentialScoped
  MostSpecificFirst
  AmbientScoped
  DirectiveKept
PROPERTY
  ComesToAnEnd
