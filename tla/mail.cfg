SPECIFICATION FairSpec
CONSTANTS
    MaxRows = 2
    MaxPosts = 2
    MaxMails = 3
    MaxQueue = 1
    MaxAsked = 1
    MaxFaults = 1
INVARIANTS
    Delivered
    WrongOnlyWhenDeleted
PROPERTIES
    CaughtUp
CHECK_DEADLOCK FALSE
