SPECIFICATION FairSpec
CONSTANTS
    Sockets = {s1, s2, s3}
    Priorities = {10, 100}
    Timeout = 3
    Interval = 1
    NoSocket = NoSocket
INVARIANTS
    SomeoneIsActive
    ActiveIsBest
    NoDanglingSocket
    BoundedStaleness
    ToldTheTruth
PROPERTIES
    ImplementsRole
    SilentIsPruned
