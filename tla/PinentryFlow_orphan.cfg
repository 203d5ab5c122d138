SPECIFICATION FairSpec
CONSTANTS
    Cookies = {c1}
    Conns = {k1, k2}
    Pids = {p1}
    NoPid = NoPid
    NoCookie = NoCookie
    NoConn = NoConn
PROPERTIES
    EveryOrphanCloses
CHECK_DEADLOCK FALSE
