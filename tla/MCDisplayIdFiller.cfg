SPECIFICATION Spec
CONSTANTS
  Size = 19
  MinSize = 5
  MaxSize = 19
  HeaderSize = 3
  MaxDataBlocks = 4
  TimingSize <- SmallTimingSize
  MaxTimings <- SmallMaxTimings
  ParamsSize = 2
  TopoSize = 3
  Payloads <- SmallPayloads
  SectionSizes <- SmallSectionSizes
  StaleErrnos <- SmallErrnos
INVARIANTS FillerReportIsTrue
CHECK_DEADLOCK FALSE
