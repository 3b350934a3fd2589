SPECIFICATION Spec
CONSTANTS
  Id = {"a", "b", "c"}
  Text <- MCText
  Object <- MCObject
  Reads <- MCReads
  At <- MCAt
  Declarations <- MCDeclarations
  None = None
INVARIANTS
  PassSound
  AllReported
  RejectedUntouched
