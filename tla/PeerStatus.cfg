SPECIFICATION FairSpec
CONSTANTS
    Node = {n1, n2}
    Nobody = nobody
    MaxMoves = 4
    MaxDeletes = 2
    MaxFaults = 1
INVARIANTS StatusHasPeer OwnerWatches
PROPERTIES OnlineReported OfflineReported
CHECK_DEADLOCK FALSE
