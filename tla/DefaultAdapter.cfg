SPECIFICATION Spec
CONSTANTS
  naive = naive  cut = cut  longName = longName
  lib = lib  cutDir = cutDir  longDir = longDir
  Scalar = Scalar  ScalarToy = ScalarToy
  Empty = Empty  NULL = NULL
  Names <- MCNames
  Dirs <- MCDirs
  LongNames = {longName}
  LongDirs = {longDir}
  CutName = cut
  CutDir = cutDir
  Modules <- MCModules
  Openable <- MCOpenable
  HasEntry <- MCHasEntry
  Answers <- MCAnswers
  MaxLoaded = 3
  AbiVersion = 1
  RequiredSize = 88
  Environments <- MCEnvironments
INVARIANTS
  TypeOK DefaultHonoursRequest NoStaleDefault DefaultResident BuffersAreLastValues
  HandlesBalanced HandedOutResident
PROPERTIES DefaultStable OnlyUnloadAllUnmaps Refinement
