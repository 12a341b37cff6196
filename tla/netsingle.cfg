SPECIFICATION FairSpec
CONSTANTS
  game = game
  realdb = realdb
  Proc <- MCProc
  Port = {1, 2}
  MaxConn = 4
  MaxDeaths = 1
INVARIANTS
  OneAttempt
  EndsAgree
PROPERTIES
  DangleOnlyInLoot
  Relinks
CHECK_DEADLOCK FALSE
