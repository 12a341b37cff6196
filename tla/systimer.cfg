SPECIFICATION Spec
CONSTANTS
  Keys <- MCKeys
  HashKeys <- MCHash
  Second = 2
  Wheel = 2
  Starts <- MCStarts
  EndTimes <- MCEndTimes
  Loops <- MCLoops
  Delays <- MCDelays
  MaxTime = 5
  MaxIds = 2
INVARIANTS
  Queues
  OnePerKey
PROPERTIES
  RunsInTime
  LostBehindFinished
CHECK_DEADLOCK FALSE
