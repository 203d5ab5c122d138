SPECIFICATION FairSpec
CONSTANTS
    Cookies = {c1, c2}
    Requests = {r1, r2}
    Sessions = {s1, s2, s3, s4}
    MaxAuthRetries = 3
    MaxInside = 1
INVARIANTS
    NoDanglingUse
CHECK_DEADLOCK FALSE
