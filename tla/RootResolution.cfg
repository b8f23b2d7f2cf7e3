SPECIFICATION Spec
CONSTANTS
  Requests <- MCRequests
  Witnesses <- MCWitnesses
  MaxFactors = 32
  StackSize = 32
  MaxSeeds = 256
  LargestModulus = 50000
  SizeBase = 512
INVARIANTS
  TypeOK SquaringInvariant NoPrimeRejected CompositeIsRejected
  NothingLost FactorsAreRight DepthBounded
  LoopInvariant RootIfAny RootsFit RefusedOnlyIfImpossible
PROPERTIES ResolutionEnds
CHECK_DEADLOCK FALSE
