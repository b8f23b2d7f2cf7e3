SPECIFICATION Spec
CONSTANTS
  Contexts <- MCContexts
  Inputs <- MCInputs
  MaxCalls = 3
INVARIANTS TypeOK ValuesAreTransform CoefficientsKept BlocksAreTransforms
CHECK_DEADLOCK FALSE
