SPECIFICATION Spec
CONSTANTS
  r1 = r1
  r2 = r2
  potion = potion
  Roles <- MCRoles
  Sids <- MCSids
  SERVER_ID <- MCServer
  Items <- MCItems
  Percents <- MCPercents
  Value = 10
  Hows <- MCHows
  LateClose = TRUE
  GOODS <- MCGoods
  COINS <- MCCoins
  CAPACITY <- MCCapacity
  Word = 8
  MaxEntries = 2
  IdMax = 2
  Life = 1
  Minute = 1
  MaxBreaks = 1
  MaxEvents = 3
  MaxQueue = 1
PROPERTIES
  ImplementsExchange
CHECK_DEADLOCK FALSE
