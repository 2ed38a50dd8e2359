\* Every mixture of files, variables and appliances; answers may be lost.
CONSTANTS
    SystemFiles <- SystemConf
    UserFiles <- Conjurrcs
    Environments <- Vars
    HandBuilt <- Built
    Outages = {"timeout"}
    None = None
SPECIFICATION Spec
INVARIANTS
    TypeOK
    Parseable
    LoadedAgain
    CallerNamespace
 
