SPECIFICATION FairSpec
CONSTANTS
  Shard  <- MCShard
  Check  <- MCCheck
  Drv    <- MCDrv
  Target <- MCTarget
  Plans  <- MCPlans
  MaxAttempt = 2
  None = None
  c1 = c1
  c2 = c2
  d1 = d1
  d2 = d2
  d3 = d3
  s1 = s1
  s2 = s2
  t1 = t1
INVARIANTS
  EvidenceTruthful
  GateSound
  NewestEvidence
  NoFalseRed
  SharedOutputsLocal
PROPERTIES
  ImplementsGate
  ArchiveComplete
  EveryAttemptDecided
