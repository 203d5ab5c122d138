SPECIFICATION FairSpec
CONSTANTS
    Cookies = {c1}
    Conns = {k1, k2}
    Pids = {p1}
    NoPid = NoPid
    NoCookie = NoCookie
    NoConn = NoConn
PROPERTIES
    SuccessWasDelivered
CHECK_DEADLOCK FALSE
