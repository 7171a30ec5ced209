SPECIFICATION Spec
CONSTANTS
    p = p
    p2 = p2
    p3 = p3
    i = i
    j = j
    k = k
    d1 = d1
    d2 = d2
    NoId = NoId
    New = New
    Peers = {p, p2, p3}
    Ifaces = {i, j, k}
    Home <- MCHome
    Known = {p, i, j}
    Expires <- MCExpires
    Disabled = {p}
    Mixed = {p}
    Fields = {d1, d2}
    Offset = 180
    Tags = {1, 2}
    ValidTags = {1}
    Picks <- MCPicks
    MaxOpens = 2
    MaxActs = 3
INVARIANTS
    WritesMatchForm
    EditsReachOwnRecord
    TimeOfDayKept
    SwitchAgrees
CHECK_DEADLOCK FALSE
