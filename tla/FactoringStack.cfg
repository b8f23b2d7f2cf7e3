SPECIFICATION Spec
CONSTANTS
  Requests <- WordOfPhis
  Witnesses <- MCWitnesses
  MaxFactors = 32
  StackSize = 6
  MaxSeeds = 256
  LargestModulus = 50000
  SizeBase = 512
INVARIANT StackInBounds
CHECK_DEADLOCK FALSE
