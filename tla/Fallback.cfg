SPECIFICATION FairSpec
CONSTANTS
    Ids = {c1, c2}
    NoId = NoId
    Ranks = {5, 100}
    FallbackRank = 10
    MaxUnread = 1
    MaxUnsent = 1
    MaxClears = 1
INVARIANTS
    ShownWhileActive
    KnowsItsRole
    PromptIsUsable
    CountdownFits
PROPERTIES
    AgentImplementsRole
    SomebodySees
    BusyEnds
