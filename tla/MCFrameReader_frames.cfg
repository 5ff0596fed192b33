SPECIFICATION FairSpec
CONSTANTS
  HEADER = 6
  Foreign <- MCForeign
  MinFrameLength = 3
  MaxByte = 7
  Checks <- MCChecks
  Streams <- AllStreams
CHECK_DEADLOCK FALSE
INVARIANTS
  Conserved
  LessThanAFrame
  OnlyFramesComeOut
  ExactlyTheFrames
PROPERTIES
  FeedReturns
