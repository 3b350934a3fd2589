SPECIFICATION JobSpec
CONSTANTS
  Check = {1, 2, 3, 4, 5}
  Group = {1}
  Inputs <- MCInputs
  MaxShards = 5
  Unset = Unset
  a = a
  b = b
  c = c
  d = d
  Node <- MCNode
  Graphs <- MCGraphs
INVARIANTS
  PlanPartitions
  HintsKept
  RejectsOnlyInfeasible
  WithinGrahamBound
  AncestorsExact
  WavesExact
  FanOutComplete
