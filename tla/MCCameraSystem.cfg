SPECIFICATION SystemSpec
CONSTANTS
  FrameLimit = 2
  Count = 2
  MotionAfter = 0
  MotionBefore = 2
  Times <- SmallTimes
  Clicks <- OneClick
INVARIANTS
  SystemTypeOK
  NeverOlderThanMeant
  TakenFramesHaveWorkers
  InOrderUnlessOverlapped
  OneFrameAhead
  ChoiceWithinOneFrame
  NothingLeftUndone
CHECK_DEADLOCK FALSE
