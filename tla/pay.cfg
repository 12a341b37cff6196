SPECIFICATION FairSpec
CONSTANTS
  Prices <- MCPrices
  Present <- MCPresent
  MonthPrice = 25
  MonthDays = 1
  MaxPays = 2
  MaxNotices = 1
  MaxRewards = 1
  MaxDay = 2
  MaxQueue = 1
  MaxFaults = 1
INVARIANTS
  Credited
CHECK_DEADLOCK FALSE
PROPERTIES
  CaughtUp
