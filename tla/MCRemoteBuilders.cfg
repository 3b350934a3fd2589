SPECIFICATION FairSpec
CONSTANTS
  Worker = {w1, w2}
  HoldTime = 3
  DiscoverTime = 1
  WorkerTime = 4
  CoordTime = 5
INVARIANTS
  ReadyReleased
  AcceptedInTime
PROPERTIES
  NoOrphan
  Decided
CHECK_DEADLOCK FALSE
