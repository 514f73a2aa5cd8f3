SPECIFICATION FairSpec
CONSTANTS
  Count = 4
  MotionAfter = 1
  MotionBefore = 3
  Overruns <- AllLayouts
INVARIANTS
  TypeOK
  TurnMutex
  TurnsInOrder
  Lockstep
  ModeIsCurrent
  FrameReflectsReply
  ClosedAfterAllTurns
  StaysWhileConnected
PROPERTIES
  ImplementsCycle
  EndsUnlessTurnLost
CHECK_DEADLOCK FALSE
