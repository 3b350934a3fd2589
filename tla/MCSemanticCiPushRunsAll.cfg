SPECIFICATION Spec
CONSTANTS
  Suite <- MCSuite
  Build <- MCBuild
  Ref <- MCRef
  Declarations <- MCDeclarations
  Event <- MCEvent
  MaxAttempt = 2
  Unset = Unset
  build = build
  test = test
  product = product
  typo = typo
INVARIANTS
  PushRunsAll
CHECK_DEADLOCK FALSE
