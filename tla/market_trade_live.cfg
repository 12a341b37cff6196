SPECIFICATION LiveSpec
CONSTANTS
  r1 = r1
  r2 = r2
  potion = potion
  Roles <- MCRoles
  Sids <- MCSids
  SERVER_ID <- MCServer
  Items <- MCItems
  Percents <- MCSole
  Value = 10
  Hows <- MCSingle
  LateClose = FALSE
  GOODS <- MCGoods
  COINS <- MCCoins
  CAPACITY <- MCCapacity
  Word = 8
  MaxEntries = 1
  IdMax = 2
  Life = 1
  Minute = 1
  MaxBreaks = 2
  MaxEvents = 4
  MaxQueue = 1
INVARIANTS
  SellersPaid
PROPERTIES
  Relinked
  SalesSettled
CHECK_DEADLOCK FALSE
