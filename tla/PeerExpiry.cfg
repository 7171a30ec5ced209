SPECIFICATION FairSpec
CONSTANTS
    TTL = 2
    Hour = 1
    Period = 1
    Dates = {1}
    MaxQueue = 1
    MaxCreates = 2
    MaxEdits = 1
    MaxRestarts = 1
INVARIANTS OnlineNotExpired
PROPERTIES LockHonoured AwayRemoved
