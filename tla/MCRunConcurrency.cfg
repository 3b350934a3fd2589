SPECIFICATION FairRunSpec
CONSTANTS
  Caller <- Callers
  Name <- CallersName
  Backend <- CallersBackend
  Events <- CallersEvents
  MaxRuns = 4
INVARIANTS
  OnePerPullRequest
  OnlyRivalsCancel
PROPERTY
  EveryRunEnds
CHECK_DEADLOCK FALSE
