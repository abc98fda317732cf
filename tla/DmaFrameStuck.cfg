CONSTANTS
  recv_size = 9
  Lookalikes = FALSE
  MaxLost = 1
SPECIFICATION FairSpec
PROPERTIES Resynchronises
