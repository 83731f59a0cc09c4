SPECIFICATION Spec
CONSTANTS
  Revisions <- OnlyRevision
  Inputs <- VicInputs
INVARIANTS VicRates
CHECK_DEADLOCK FALSE
