SPECIFICATION Spec
CONSTANTS
  Contexts <- NaiveCyclic
  Inputs <- MCInputs
  MaxCalls = 2
INVARIANT CoefficientsKept
CHECK_DEADLOCK FALSE
