SPECIFICATION Spec
CONSTANTS
  Contexts <- BuiltinCyclic
  Inputs <- MCInputs
  MaxCalls = 1
PROPERTY ProductsKept
CHECK_DEADLOCK FALSE
