SPECIFICATION Spec
CONSTANTS
  Requests <- Beyond
  Witnesses <- MCWitnesses
  MaxFactors = 32
  StackSize = 32
  MaxSeeds = 256
  LargestModulus = 50000
  SizeBase = 512
INVARIANT CompositeIsRejected
CHECK_DEADLOCK FALSE
