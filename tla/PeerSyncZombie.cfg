SPECIFICATION Spec
CONSTANTS
    Node = {n1, n2}
    Peer = {p1}
    Iface = {i1, i2}
    Cfg = {c1}
    Opt = {key1, unset}
    Unset = unset
    c1 = c1
    unset = unset
    key1 = key1
    i1 = i1
    i2 = i2
    Existing <- BaseRow
    Asked <- FlagOrInterface
    Request = {r1}
    QueueSize = 2
    MaxOps = 2
    MaxFaults = 0
    MaxCrashes = 0
INVARIANTS DeletedLeaveDevices
CHECK_DEADLOCK FALSE
