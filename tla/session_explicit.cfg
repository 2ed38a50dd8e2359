\* A client with explicit credentials, shared by two goroutines, with a
\* storage that it may not write and that may hold a session of somebody else.
CONSTANTS
    c1 = c1
    c2 = c2
    Callers = {c1, c2}
    AuthnType = "iam"
    PreferCached = FALSE
    Storage = "readonly"
    StoreFails = FALSE
    SharedStorage = FALSE
    NoExp = NoExp
    None = None
    Refused = Refused
    Lives = {NoExp}
    Timeout = 1
    Skew = 1
    Horizon = 8
SPECIFICATION Spec
SYMMETRY CallerSymmetry
INVARIANTS
    TypeOK
    NeverWithoutToken
    SentUnexpired
    OwnCredentials
PROPERTY FreshNotDisplaced
