SPECIFICATION Spec
CONSTANTS
    s1 = s1
    Requests = {r1}
    Sessions = {s1, s2}
    SessionOf <- OneSession
    NoRequest = NoRequest
    NoConf = NoConf
    SessionCap = 2
    MaxAsks = 0
    MaxTokens = 0
    MaxConfig = 1
INVARIANT DeletedStaysDeleted
