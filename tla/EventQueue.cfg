SPECIFICATION Spec
CONSTANTS
    Sockets = {s1, s2, s3}
    MaxSize = 2
    MaxEvents = 4
    MaxAsks = 2
INVARIANTS
    WaitersAreServable
    QueueIsLatest
PROPERTIES
    ImplementsStream
    LossNeedsReason
