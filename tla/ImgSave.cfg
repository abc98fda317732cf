CONSTANTS
  N = 5
  Slots = 2
  MaxWait = 2
  MaxStamp = 2
SPECIFICATION SIFairSpec
INVARIANTS SITypeOK  OverflowNoticed
PROPERTY ReturnsUnlessReady
CHECK_DEADLOCK FALSE
