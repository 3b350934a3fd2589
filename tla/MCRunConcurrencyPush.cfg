SPECIFICATION RunSpec
CONSTANTS
  Caller <- Defaults
  Name <- DefaultsName
  Backend <- DefaultsBackend
  Events <- DefaultsEvents
  MaxRuns = 4
INVARIANTS
  SomePromiseKept
CHECK_DEADLOCK FALSE
