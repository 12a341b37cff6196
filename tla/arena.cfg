CONSTANTS
  p1 = p1
  p2 = p2
  Players <- ThePlayers
  SHOW_RANK_COUNT = 3
  MAX_CREATE_OPPONENT = 5
  LastRank = 14
  MaxFights = 2
  MaxQueue = 1
  MaxFaults = 1
SPECIFICATION Spec
CONSTRAINT OneAtATime
SYMMETRY Symmetry
CHECK_DEADLOCK FALSE
INVARIANT
  Ladder
  RowsFollow
  RewardsOnce
  Opens
PROPERTY
  WinsSwap
  OffersFair
