SPECIFICATION InfoSpec
CONSTANTS
  BlockSize = 8
  MaxBlocks = 4
  RawSize = 32
  Sizes <- FewSizes
  Counts <- FewCounts
  ExtTags <- AllTags
  BaseAllocs = {1}
  NestedAllocs = {1}
  Leaks = {0, 1}
  StaleErrnos = {"0", "EINVAL"}
  Revisions <- Eras
  Failures = {0, 2}
INVARIANTS InfoTypeOK BlocksInOrder HeapExact OomIsFinal ExtsInBounds HeadersOnce SectionsAgree ExitTellsConformity NothingLeft
CHECK_DEADLOCK FALSE
