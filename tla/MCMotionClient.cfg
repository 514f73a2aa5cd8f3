SPECIFICATION FairSpec
CONSTANTS
  Limit = 5
  Message <- Request
  MaxEvents = 2
INVARIANTS
  TypeOK
  OnlyFailedConnectsLeak
  NoPollWithoutStdin
PROPERTIES
  EndsUnlessReading
CHECK_DEADLOCK FALSE
