SPECIFICATION Spec
CONSTANTS
  Revisions <- OnlyRevision
  Inputs <- VicInputs
INVARIANTS VicUnknownIsNull
CHECK_DEADLOCK FALSE
