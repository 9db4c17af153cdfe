SPECIFICATION Spec
CONSTANTS
    s1 = s1
    Requests = {r1, r2}
    Sessions = {s1}
    SessionOf <- OneSession
    NoRequest = NoRequest
    NoConf = NoConf
    SessionCap = 2
    MaxAsks = 2
    MaxTokens = 1
    MaxConfig = 2
SYMMETRY Symmetry
CONSTRAINT FewQuestions
INVARIANTS
    ActsOnConsent
    AdmissionExact
PROPERTIES
    CancelStops
    AnsweredUnderOneConfig
