SPECIFICATION FairSpec
CONSTANTS
    Cookies = {c1, c2}
    Requests = {r1, r2}
    Sessions = {s1, s2, s3}
    MaxAuthRetries = 3
    MaxInside = 3
INVARIANTS
    ScreenMatchesFlows
    HeardSessions
    RequestsAreServed
    AttemptsBounded
PROPERTIES
    SuccessIsAuthorized
    EveryRequestAnswered
CHECK_DEADLOCK FALSE
