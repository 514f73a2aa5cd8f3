SPECIFICATION FairSpec
CONSTANTS
  Count = 3
  MotionAfter = 0
  MotionBefore = 2
  Overruns <- PaddingOnly
PROPERTIES
  ModeOnlyByRequest
CHECK_DEADLOCK FALSE
