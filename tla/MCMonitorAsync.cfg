SPECIFICATION MonitorFairSpec
CONSTANTS
  FrameLimit = 2
  Times <- SmallTimes
  Clicks <- AllClicks
PROPERTIES
  AsyncAsSoonAsAvailable
CHECK_DEADLOCK FALSE
