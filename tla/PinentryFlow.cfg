SPECIFICATION FairSpec
CONSTANTS
    Cookies = {c1}
    Conns = {k1, k2, k3}
    Pids = {p1}
    NoPid = NoPid
    NoCookie = NoCookie
    NoConn = NoConn
INVARIANTS
    PromptIsHeard
    AnswersArrive
PROPERTIES
    ImplementsManager
    SuccessWasAnswered
    OrphanCloses
    AnswerIsFollowedUp
CHECK_DEADLOCK FALSE
