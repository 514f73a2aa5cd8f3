SPECIFICATION MonitorFairSpec
CONSTANTS
  FrameLimit = 3
  Times <- SmallTimes
  Clicks <- AllClicks
INVARIANTS
  MonitorTypeOK
  Backlog
  PairStaysTogether
  ChosenViewInForce
  NoMissedNotify
PROPERTIES
  DrainsUnlessStuck
CHECK_DEADLOCK FALSE
