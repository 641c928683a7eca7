SPECIFICATION RelayFairSpec
CONSTANTS
    Sessions = {s}
    Nobody = nobody
    Limit = 1
    Room = 1
    MaxEvents = 3
    MaxSubs = 2
    MaxBreaks = 1
    MaxDrops = 1
PROPERTIES FeedKept CatchesUp
CHECK_DEADLOCK FALSE
