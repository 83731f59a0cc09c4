SPECIFICATION Spec
CONSTANTS
  MaxStandard = 8
  Descriptors = 4
  MaxEntries <- RealMaxEntries
  Revisions <- EachEra
  StaleErrnos = {"0", "EINVAL"}
INVARIANTS TypeOK HeapClean PreferredReportedIff OrderReported
PROPERTIES KeepsContract
CHECK_DEADLOCK FALSE
