SPECIFICATION FairSpec
CONSTANTS
  Count = 2
  MotionAfter = 0
  MotionBefore = 2
  Overruns <- PaddingOnly
PROPERTIES
  TurnHolderRuns
CHECK_DEADLOCK FALSE
