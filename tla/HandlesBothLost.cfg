CONSTANTS
  Limit = 4
  MaxGap = 1
  KeyGap = 2
  Matches <- LostMatches
SPECIFICATION FairSpec
PROPERTIES BothLostBrakes
