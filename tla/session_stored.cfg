\* A client reconstructed from a stored session, used by one goroutine, while
\* other processes write and purge the storage.
CONSTANTS
    c1 = c1
    Callers = {c1}
    AuthnType = "gcp"
    PreferCached = TRUE
    Storage = "readwrite"
    StoreFails = FALSE
    SharedStorage = TRUE
    NoExp = NoExp
    None = None
    Refused = Refused
    Lives = {10}
    Timeout = 1
    Skew = 0
    Horizon = 11
SPECIFICATION FairSpec
INVARIANT SentUnexpired

    
    
