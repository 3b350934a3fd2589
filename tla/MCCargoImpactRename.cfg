SPECIFICATION Spec
CONSTANTS
  Crate <- MCCrate
  Job <- MCJob
  Witness <- MCWitness
  Changes <- Renames
  Unset = Unset
INVARIANTS
  SharedSelectsAll
CHECK_DEADLOCK FALSE
