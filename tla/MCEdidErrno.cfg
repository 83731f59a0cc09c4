SPECIFICATION Spec
CONSTANTS
  BlockSize = 8
  MaxBlocks = 4
  Sizes <- SmallSizes
  Counts <- SmallCounts
  ExtTags <- AllTags
  BaseAllocs = {0, 2}
  NestedAllocs = {0, 1}
  Leaks = {0, 1}
  StaleErrnos = {"0", "EINVAL", "ENOTSUP"}
INVARIANTS NullSetsErrno
CHECK_DEADLOCK FALSE
