SPECIFICATION Spec
CONSTANTS
  Revisions <- OnlyRevision
  Inputs <- StandardInputs
INVARIANTS PrintedRateIsNamed
CHECK_DEADLOCK FALSE
