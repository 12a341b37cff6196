SPECIFICATION Spec
CONSTANTS
  Users <- MCUsers
  Parts <- MCParts
  Simple = 1
  Interval = 1
  CloseAge = 1
  MaxTime = 2
  MaxChanges = 1
  MaxWaiting = 2
  MaxQueue = 1
  MaxFaults = 1
INVARIANTS
  TypeOK
  Kept
  DirtyIsVisited
  Fresh
  Deferred
CHECK_DEADLOCK FALSE
