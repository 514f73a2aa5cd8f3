SPECIFICATION ViewerSpec
CONSTANTS
  FrameLimit = 2
  Times <- SmallTimes
  Clicks <- OneClick
INVARIANTS
  StoredImageKept
CHECK_DEADLOCK FALSE
