\* IDs of up to three parts and the full IDs made of them, other texts of
\* one part.  The application may stop calling.
CONSTANTS
    Parts <- SomeParts
    Account = "dev"
    Kinds = {"variable", "policy", "user"}
    MaxParts = 3
    Malformed = Malformed
    Plus <- PlusForSpace
    Unsafe = {"a#b"}
    Commas = {"host/a,b"}
    HostIds = {"host/a,b"}
    Vanishing = {"", ".."}
    Clients <- SomeClients
    RoleIds <- SomeRoles
    Garbled = Garbled
CHECK_DEADLOCK FALSE
SPECIFICATION RequestSpec
INVARIANTS
    TypeOK
    OwnKind
    SecretReached
    RoleReached
    WorkloadReached
    ApiOnce
PROPERTY SameTarget
