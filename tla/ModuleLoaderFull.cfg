SPECIFICATION Spec
CONSTANTS
  a = a  b = b  flaky = flaky  plain = plain
  tooNew = tooNew  small = small  missing = missing
  NULL = NULL
  Modules <- MCModules
  Openable <- MCOpenable
  HasEntry <- MCHasEntry
  Answers <- MCAnswers
  MaxLoaded = 4
  AbiVersion = 1
  RequiredSize = 88
INVARIANT HandedOutAlwaysResident
