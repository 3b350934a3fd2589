SPECIFICATION FairCacheSpec
CONSTANTS
  Suite <- MCSuite
  Build <- MCBuild
  Ref <- MCRef
  Declarations <- MCDeclarations
  Event <- MCEvent
  Caches <- MCCaches
  MaxAttempt = 2
  Unset = Unset
  build = build
  test = test
  product = product
  typo = typo
INVARIANTS
  GateSound
  StartsAfterNeeds
  NoFalseRed
  WriterServesDependents
PROPERTY
  EveryRunDecided
CHECK_DEADLOCK FALSE
