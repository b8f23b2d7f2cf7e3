SPECIFICATION Spec
CONSTANTS
  s1 = s1  s2 = s2  w1 = w1
  NULL = NULL
  Setters <- MCSetters
  Writers <- MCWriters
  EnvLevel <- MCEnvLevel
INVARIANTS TypeOK PendingLevelRequested
PROPERTIES Linearizable
