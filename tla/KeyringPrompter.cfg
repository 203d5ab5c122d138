SPECIFICATION FairSpec
CONSTANTS
    Cookies = {c1, c2}
    Conns = {k1, k2, k3}
    Prompts = {o1, o2}
    NoCookie = NoCookie
    NoConn = NoConn
    NoPrompt = NoPrompt
INVARIANTS
    TrackedIffOpen
    PromptsMatchWorkers
PROPERTIES
    ImplementsPromptLife
    ClosedPromptGoes
