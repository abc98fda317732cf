CONSTANTS
  Limit = 3
  MaxGap = 1
  KeyGap = 2
  Matches <- AllMatches
SPECIFICATION FairSpec
INVARIANTS TypeOK NoFalseBrake
PROPERTIES ModeSettles
