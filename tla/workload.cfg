\* One goroutine that calls every operation, eight deployments, and two
\* upgrades, rotations or outages.  A process that gcp ended stops.
CONSTANTS
    MaxIssued = 1
    None = None
    Torn = Torn
    Callers = {a}
    Versions <- SomeVersions
    Deployments <- SomeDeployments
    MaxChanges = 2
CHECK_DEADLOCK FALSE
SPECIFICATION FairSpec
INVARIANTS
    TypeOK
    ServerOffers
    RefusalGrounded
    AnswerTold
PROPERTY Recovers
