SPECIFICATION Spec
CONSTANTS
  Crate <- MCCrate
  Job <- MCJob
  Witness <- MCWitness
  Changes <- MCChanges
  Unset = Unset
INVARIANTS
  NoOmission
  PackagesCover
  SelectsNothingElse
CHECK_DEADLOCK FALSE
