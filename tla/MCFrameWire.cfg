SPECIFICATION WireFairSpec
CONSTANTS
  Limit = 7
  Count = 3
  MotionAfter = 0
  MotionBefore = 3
  StartFrame = 1
  NumFrames = 2
  NotifyEvery = 1
  Sizes <- SmallSizes
  SizeLen = 4
  MotionLen = 1
  TimeLen = 2
  Radix = 2
  MaxBytes = 5
  DefaultSize = 3
  Leftovers <- SomeLeftovers
INVARIANTS
  WireTypeOK
  FilmInOrder
  OnlyFailuresLeak
  ClientSocketKept
  InStepWhileReadable
  FilmSizesReadBack
PROPERTIES
  EndsWhileReadable
CHECK_DEADLOCK FALSE
