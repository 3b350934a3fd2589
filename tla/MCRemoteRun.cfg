SPECIFICATION Spec
CONSTANTS
  Worker = {w1, w2}
  Test = {smoke, load}
  Drv = {d, e}
  Out = {x, y}
  CheckPlans <- MCCheckPlans
  TestPlans <- MCTestPlans
  MaxAttempt = 2
  None = None
  d = d
  e = e
  x = x
  y = y
  smoke = smoke
  load = load
SYMMETRY MCSymmetry
INVARIANTS
  PoolOfOneAttempt
  HandoverComplete
PROPERTY
  ImplementsGate
CHECK_DEADLOCK FALSE
