SPECIFICATION FairSpec
CONSTANTS
  Connections = 2
  Interrupts = 1
INVARIANTS
  TypeOK
  HeldByHolder
  AnswersAreFresh
  SocketsOutliveMotion
PROPERTIES
  EndsUnlessMissed
CHECK_DEADLOCK FALSE
