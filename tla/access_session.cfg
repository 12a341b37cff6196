SPECIFICATION Spec
CONSTANTS
  BUFFER_MAX = 1
  MaxSocks = 2
  MaxSessions = 2
  MaxOrder = 4
  MaxSaid = 2
  MaxQueue = 2
  MaxFaults = 1
INVARIANTS
  TypeOK
  RequestsInOrder
  AnswersInOrder
  EndTakesOffline
CHECK_DEADLOCK FALSE
