CONSTANTS
  recv_size = 5
  Lookalikes = FALSE
  MaxLost = 3
SPECIFICATION FairSpec
INVARIANTS TypeOK OneLossTwoFrames StaysInStep
PROPERTIES Resynchronises
