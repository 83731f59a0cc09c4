SPECIFICATION Spec
CONSTANTS
  Revisions <- Eras
  Inputs <- AllInputs
INVARIANTS TypeOK DropIsReported RangeLimitsOrdered TimingLossless NamedTimingsAgree PreferredMarkedOnce CapMapNames VicLookupExact FirstExtensionWins PrintersTotal
CHECK_DEADLOCK FALSE
