SPECIFICATION Spec
CONSTANTS
    i = i
    j = j
    p = p
    q = q
    r = r
    s = s
    None = None
    Ifaces <- MCIfaces
    Peers = {p, q, r, s}
    Home <- MCHome
    Known = {p, q, r}
    Styles = {"wgquick", "raw"}
    Filters = {{p}}
    Sizes = {1, 2}
    Width = 2
    MaxActs = 3
INVARIANTS
    ListAgrees
    SelectedListed
    ConfigBelongs
    PagingSound
CHECK_DEADLOCK FALSE
