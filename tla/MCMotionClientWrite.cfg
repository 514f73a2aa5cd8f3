SPECIFICATION FairSpec
CONSTANTS
  Limit = 5
  Message <- Request
  MaxEvents = 1
INVARIANTS
  WritesTheBuffer
CHECK_DEADLOCK FALSE
