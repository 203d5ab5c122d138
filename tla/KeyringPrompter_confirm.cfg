SPECIFICATION FairSpec
CONSTANTS
    Cookies = {c1}
    Conns = {k1, k2}
    Prompts = {o1}
    NoCookie = NoCookie
    NoConn = NoConn
    NoPrompt = NoPrompt
PROPERTIES
    ConfirmedIsContinue
