CONSTANTS
    Users = {u1, u2, u3}
    Known = {u1, u2}
    Self = u1
    Creds = {k1, k2}
    Owned = {k1}
    None = None
    New = New
    NPeers = 3
    NEntries = 3
    Sizes = {2, 5}
    MaxActs = 3
SPECIFICATION Spec
INVARIANTS StoresAgree ButtonsFree
PROPERTY OwnPagesShown
CHECK_DEADLOCK FALSE
