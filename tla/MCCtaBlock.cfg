SPECIFICATION FairSpec
CONSTANTS
  BlockSize = 19
  HeaderSize = 4
  DtdEnd = 18
  DtdSize = 6
  MaxDataBlocks = 14
  MaxDtds = 2
  Payloads <- ShortPayloads
  Revisions <- ShortRevisions
  DtdStarts <- ShortDtdStarts
  StaleErrnos <- ShortErrnos
INVARIANTS CapacityHolds TypeOK DtdIndexIsSlot OwnedIsLive HeapClean NoSilentGap RejectionExplained
PROPERTIES Terminates IsTlvWalk KeepsContract
CHECK_DEADLOCK FALSE
