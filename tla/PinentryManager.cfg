SPECIFICATION Spec
CONSTANTS
    Cookies = {c1, c2}
    Conns = {k1, k2}
    Pids = {p1, p2}
    NoPid = NoPid
INVARIANTS
    PhasesAreExclusive
    OwnedIffOpen
    ReplyGoesToOwner
    IdleOnlyAfterRetry
PROPERTIES
    ClosedByOwner
    RefusalIsShown
