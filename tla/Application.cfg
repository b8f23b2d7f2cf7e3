SPECIFICATION AppSpec
CONSTANTS
  Scalar = Scalar  ScalarToy = ScalarToy  t1 = t1  t2 = t2
  naive = naive  older = older  newer = newer
  NULL = NULL
  Threads <- MCThreads
  Adapters <- MCAdapters
  Modules <- MCModules
  Tables <- MCTables
  Scratch <- MCScratch
  SupportedFlags <- MCSupportedFlags
  Configs <- MCConfigs
  ZeroConfig <- MCZeroConfig
  MinVersion <- MCMinVersion
  Uses <- MCUses
  MaxLoaded = 2
  AbiVersion = 1
  RequiredSize = 88
INVARIANTS TypeOK HeapMatchesPointers OwnsWhatItShould ContextsResident LookupsSucceed
PROPERTIES CallerConfigUntouched
