SPECIFICATION Spec
CONSTANTS
  r1 = r1
  r2 = r2
  potion = potion
  Roles <- MCRoles
  Sids <- MCSids
  SERVER_ID <- MCServer
  PRIMARY <- MCPrimary
  Items <- MCItems
  Percents <- MCPercents
  MaxVal = 2
  IdMax = 2
  MaxUps = 2
  Life = 1
  Minute = 1
  MaxTime = 2
  Word = 4
  Hows <- MCHows
  MaxEntries = 2
  MaxLost = 1
  MaxCrash = 1
  MaxRequests = 3
  MaxQueue = 2
INVARIANTS
  TypeOK
  OnSaleIndexed
  TimeoutArmed
  TableFollowsBoard
CHECK_DEADLOCK FALSE
