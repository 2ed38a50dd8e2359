\* Two goroutines; every kind of writer, with and without a timeout.
CONSTANTS
    c1 = c1
    c2 = c2
    Callers = {c1, c2}
    MaxWrites = 3
    Deployments <- AnyDeployment
    None = None
SPECIFICATION FairSpec
INVARIANTS
    TypeOK
    
    KnownUnmodified
PROPERTIES
    EventuallyCurrent
    CallsReturn
