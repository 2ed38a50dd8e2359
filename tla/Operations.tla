----------------------------- MODULE Operations -----------------------------
(***************************************************************************)
(* What the public operations of a client have in common: each asks        *)
(* whether this server offers it, sends one request, and reads the answer  *)
(* in one of a few ways.  An operation is a record of these choices; the   *)
(* operations of a source file are a set, since many are alike.  The       *)
(* requests themselves are in Requests.                                    *)
(***************************************************************************)
EXTENDS Integers, Sequences

-----------------------------------------------------------------------------
(* Versions.  A version is the sequence of its numbers; the suffix after   *)
(* "-", which the comparison drops, is left out.  The empty sequence is a  *)
(* missing version, and only one to three numbers parse.                   *)
Parses(v) == Len(v) \in 1 .. 3

NumberOf(v, i) == IF i <= Len(v) THEN v[i] ELSE 0

LessThan(v, w) ==
    \E i \in 1 .. 3 : /\ NumberOf(v, i) < NumberOf(w, i)
                      /\ \A j \in 1 .. i - 1 : NumberOf(v, j) = NumberOf(w, j)

\* Mutant of validateMinVersion: every number has to be as large.
NumberByNumber(v, min) ==
    Parses(v) /\ \A i \in 1 .. 3 : NumberOf(v, i) >= NumberOf(min, i)

\* Mutant of validateMinVersion: the patch level is not compared.
PatchIgnored(v, min) ==
    Parses(v) /\ ~LessThan(<<NumberOf(v, 1), NumberOf(v, 2)>>, <<min[1], min[2]>>)

validateMinVersion(v, min) == Parses(v) /\ ~LessThan(v, min)

DryRunMinVersion == <<1, 21, 1>>
MinVersion == <<1, 23, 0>>
LdapMappingsMinVersion == <<1, 28, 0>>

-----------------------------------------------------------------------------
(* Gates.  cloud is what isConjurCloudURL says of the appliance URL, saas  *)
(* what config.IsSaaS() says of the Environment: they need not agree.      *)
Gate == [notCloud : BOOLEAN, onlySaaS : BOOLEAN,
         min : {<<>>, DryRunMinVersion, MinVersion, LdapMappingsMinVersion},
         waived : {"never", "saas", "cloud"}]

Anywhere == [notCloud |-> FALSE, onlySaaS |-> FALSE, min |-> <<>>, waived |-> "never"]
NotCloud == [Anywhere EXCEPT !.notCloud = TRUE]
requireSaaS == [Anywhere EXCEPT !.onlySaaS = TRUE]
Since(min, waived) == [Anywhere EXCEPT !.min = min, !.waived = waived]
PolicySince == [NotCloud EXCEPT !.min = DryRunMinVersion]
V2Since == Since(MinVersion, "saas")
LdapSince == Since(LdapMappingsMinVersion, "cloud")

Unsupported(gate, cloud, saas) == (gate.notCloud /\ cloud) \/ (gate.onlySaaS /\ ~saas)

NeedsVersion(gate, cloud, saas) ==
    /\ gate.min # <<>>
    /\ ~(gate.waived = "saas" /\ saas)
    /\ ~(gate.waived = "cloud" /\ cloud)

-----------------------------------------------------------------------------
(* Answers and their readers.  A body is "expected", "other" (it is not    *)
(* what the operation parses), or "cut" (reading it fails); what an error  *)
(* looks like does not count.                                              *)
Answer == [status : {"2xx", "422"}, body : {"expected", "other", "cut"}]
              \cup [status : {"403", "404", "error"}, body : {"other"}]

Readers == {"data", "json", "lenient", "stream", "empty", "dryRun", "exists", "permission"}

(* What the caller is told: a value, which the answer held; a stream that  *)
(* it has to read itself; done; yes or no; or an error.                    *)
Value(read) == IF read THEN "value" ELSE "error"

Success(reader, body) ==
    CASE reader = "stream" -> "stream"
      [] reader = "empty"  -> "done"
      [] reader = "json"   -> Value(body = "expected")
      [] OTHER             -> Value(body # "cut")

\* Mutant of Told: whatever is not a yes is a no.
ElseNo(reader, answer) ==
    IF reader \in {"exists", "permission"}
    THEN IF answer.status = "2xx" THEN "yes" ELSE "no"
    ELSE IF answer.status = "2xx" THEN Value(answer.body = "expected") ELSE "error"

Told(reader, answer) ==
    CASE reader = "exists" ->
           IF answer.status \in {"2xx", "403"} THEN "yes"
           ELSE IF answer.status = "404" THEN "no" ELSE "error"
      [] reader = "permission" ->
           IF answer.status = "2xx" THEN "yes"
           ELSE IF answer.status \in {"403", "404"} THEN "no" ELSE "error"
      [] reader = "dryRun" ->
           Value(answer.status \in {"2xx", "422"} /\ answer.body = "expected")
      [] OTHER ->
           IF answer.status = "2xx" THEN Success(reader, answer.body) ELSE "error"

-----------------------------------------------------------------------------
(* The operations.  auth: whether the request carries the access token.    *)
Op(gate, auth, reader) == [gate |-> gate, auth |-> auth, reader |-> reader]
WithToken(gate, reader) == Op(gate, TRUE, reader)

Operation == [gate : Gate, auth : BOOLEAN, reader : Readers]

IdentityOperations ==
    {Op(NotCloud, FALSE, "data"),             \* ChangeUserPassword
     WithToken(Anywhere, "data")}             \* WhoAmI

AuthenticationOperations ==
    {Op(Anywhere, FALSE, "data"),             \* Authenticate
     Op(Anywhere, FALSE, "stream"),           \* AuthenticateReader
     Op(NotCloud, FALSE, "json")}             \* ListOidcProviders

RotationOperations ==
    {WithToken(Anywhere, "data"),             \* RotateAPIKey, RotateHostAPIKey
     WithToken(NotCloud, "data"),             \* RotateUserAPIKey
     WithToken(Anywhere, "stream")}           \* RotateAPIKeyReader

PublicKeys == {WithToken(NotCloud, "data")}

ResourceOperations ==
    {WithToken(Anywhere, "permission"),       \* CheckPermission, CheckPermissionForRole
     WithToken(Anywhere, "exists"),           \* ResourceExists
     WithToken(Anywhere, "json")}             \* Resource, Resources, ResourceIDs

\* The error of json.Unmarshal is dropped.
CountOperations ==
    {WithToken(Anywhere, "lenient")}          \* ResourcesCount, PermittedRoles

RoleOperations ==
    {WithToken(Anywhere, "exists"),           \* RoleExists
     WithToken(Anywhere, "json")}             \* Role, RoleMembers, RoleMemberships

PolicyOperations ==
    {WithToken(Anywhere, "json"),             \* LoadPolicy
     WithToken(PolicySince, "dryRun"),        \* DryRunPolicy
     WithToken(PolicySince, "data")}          \* FetchPolicy

VariableOperations ==
    {WithToken(Anywhere, "json"),             \* RetrieveBatchSecrets, its Safe form
     WithToken(Anywhere, "data"),             \* RetrieveSecret, with a version
     WithToken(Anywhere, "stream"),           \* their Reader forms
     WithToken(Anywhere, "empty")}            \* AddSecret

HostFactoryOperations ==
    {WithToken(Anywhere, "json"),             \* CreateToken
     WithToken(Anywhere, "empty"),            \* DeleteToken
     Op(Anywhere, FALSE, "json")}             \* CreateHost

IssuerOperations ==
    {WithToken(Anywhere, "json"),             \* CreateIssuer, Issuer, Issuers, UpdateIssuer
     WithToken(Anywhere, "empty")}            \* DeleteIssuer

AuthenticatorOperations ==
    {WithToken(Anywhere, "json"),             \* AuthenticatorStatus
     WithToken(Anywhere, "empty")}            \* EnableAuthenticator

V2AuthenticatorOperations ==
    {WithToken(V2Since, "json"),              \* Create-, Get-, Update-, ListAuthenticator(s)
     WithToken(V2Since, "empty")}             \* DeleteAuthenticator

LdapMappingOperations ==
    {WithToken(LdapSince, "json"),            \* LdapCreate-, LdapShow-, LdapList...Mapping(s)
     WithToken(LdapSince, "empty")}           \* LdapDelete...Mapping

BranchOperations ==
    {WithToken(V2Since, "json"),              \* CreateBranch, ReadBranch, ReadBranches
     WithToken(V2Since, "data")}              \* UpdateBranch, DeleteBranch

GroupMemberOperations ==
    {WithToken(V2Since, "json"),              \* AddGroupMember
     WithToken(V2Since, "data")}              \* RemoveGroupMember

WorkloadOperations ==
    {WithToken(requireSaaS, "data"),          \* CreateWorkload, DeleteWorkload
     WithToken(requireSaaS, "json")}          \* GetWorkload, UpdateWorkload, UpdateAuthnDescriptor

\* CreateStaticSecret, GetStaticSecretDetails, GetStaticSecretPermissions
StaticSecretOperations == {WithToken(requireSaaS, "json")}

\* CertificateIssue, CertificateSign
CertificateOperations == {WithToken(requireSaaS, "json")}

BatchRetrieveSecrets == {WithToken(requireSaaS, "json")}

Operations ==
    UNION {IdentityOperations, AuthenticationOperations, RotationOperations, PublicKeys,
           ResourceOperations, CountOperations, RoleOperations, PolicyOperations,
           VariableOperations, HostFactoryOperations, IssuerOperations,
           AuthenticatorOperations, V2AuthenticatorOperations, LdapMappingOperations,
           BranchOperations, GroupMemberOperations, WorkloadOperations,
           StaticSecretOperations, CertificateOperations, BatchRetrieveSecrets}
=============================================================================
