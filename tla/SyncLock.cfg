SPECIFICATION LockFairSpec
CONSTANTS
    Session = {s1, s2, s3}
    Other = s3
    NodeID <- Names
    Origin <- SharedName
    Lease = 2
    Timeout = 1
INVARIANTS LockInv LeaseExclusive
PROPERTIES ImplementsLease NeverStuck
