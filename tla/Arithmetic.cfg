SPECIFICATION Spec
CONSTANTS
  WordBits = 6
  Moduli <- MCModuli
  Values <- MCValues
INVARIANTS TypeOK ConstantsRight
PROPERTIES ComputesInRing
