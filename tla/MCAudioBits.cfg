SPECIFICATION Spec
CONSTANTS
  Revisions <- OnlyRevision
  Inputs <- SadInputs
INVARIANTS AudioBitsAreNamed
CHECK_DEADLOCK FALSE
