SPECIFICATION FairSpec
CONSTANTS
    Node = {n1}
    Request = {r1}
    Peer = {p1, p2}
    Attr = {a1, a2}
    NoEntry = none
    On = {"peerOnCreation", "peerOnLogin", "reEnablePeers", "register", "disableMissing", "autoReEnable"}
    MaxOps = 1
    MaxMoves = 2
    MaxFaults = 1
INVARIANTS TypeOK PeersFollow OneDefaultPeer
PROPERTIES MissingDisabled FoundEnabled
