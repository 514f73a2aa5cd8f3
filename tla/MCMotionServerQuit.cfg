SPECIFICATION FairSpec
CONSTANTS
  Connections = 1
  Interrupts = 1
PROPERTIES
  CtrlCShutsDown
CHECK_DEADLOCK FALSE
