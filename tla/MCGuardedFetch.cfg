SPECIFICATION Spec
CONSTANTS
  Names = {"n", "probe"}
  ProbeName = "probe"
  Hosts <- MCHosts
  asciiForms <- MCForms
  nonASCII <- MCNonASCII
  Answers <- MCAnswers
  Worlds <- MCWorlds
  MaxHops = 1
  MaxChanges = 1
INVARIANTS
  TypeOK
  GuardedDial
  ProxiedTargetsChecked
  RefusedForCause
