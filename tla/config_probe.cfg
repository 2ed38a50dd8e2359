\* A conjurrc file with an ambiguous URL; answers may be lost.
CONSTANTS
    SystemFiles <- NoFile
    UserFiles <- ApiFile
    Environments <- NoVars
    HandBuilt = {}
    Outages = {"timeout"}
    None = None
SPECIFICATION Spec
PROPERTY ProbeTruth
