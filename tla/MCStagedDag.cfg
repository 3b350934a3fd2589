SPECIFICATION Spec
CONSTANTS
  Shard = {"shard-00", "shard-01"}
  Check = {"test", "lint", "ship"}
  Drv = {"test.drv", "lint.drv", "ship.drv", "ship2.drv"}
  Path = {"lib", "lib2"}
  Target = {"target"}
  Plans <- MCPlans
  Inputs <- MCInputs
  MaxAttempt = 2
  None = None
INVARIANTS
  HandoverComplete
  BuiltOnce
PROPERTY
  ImplementsGate
CHECK_DEADLOCK FALSE
