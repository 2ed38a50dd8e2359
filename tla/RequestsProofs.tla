---------------------------- MODULE RequestsProofs ----------------------------
(***************************************************************************)
(* Theorems about Requests, for IDs and texts of every length, over every  *)
(* alphabet of parts, and for every appliance URL: the operations that     *)
(* make requests are those of ResourceId, whose properties they inherit.   *)
(***************************************************************************)
EXTENDS Requests, ResourceIdProofs

(* What parseIDandEnforceKind returns, parseID would return for its full   *)
(* ID: CreateToken, which does not parse it a second time, asks for the    *)
(* same resource as the operations that do.                                *)
LEMMA EnforcedTwice ==
    ASSUME NEW id \in ID, NEW k \in Parts \ {""},
           parseIDandEnforceKind(id, k) # Malformed
    PROVE  parseID(Join(parseIDandEnforceKind(id, k))) = parseIDandEnforceKind(id, k)
<1> DEFINE q == unopinionatedParseID(id)
           r == parseIDandEnforceKind(id, k)
<1>1. r \in Resource /\ r.account # "" /\ r.kind = k
  BY EnforceType
<1>2. q \in Resource
  BY SplitType, IdAssumption DEF unopinionatedParseID
<1>3. q.name # <<"">> /\ r = WithAccount([q EXCEPT !.kind = k])
  BY DEF parseIDandEnforceKind
<1>4. r.name # <<"">>
  BY <1>2, <1>3 DEF WithAccount, Resource
<1> HIDE DEF r
<1>5. parseID(Join(r)) = r
  BY <1>1, <1>4, ParseJoin
<1> QED BY <1>5 DEF r

(* What an application passes on is given in ResourceId too.               *)
LEMMA GivenIDs ==
    ASSUME NEW id \in GivenID
    PROVE  id \in Given
BY DEF GivenID, Given

(* Every step that makes a request about an ID is a step of ResourceId,    *)
(* every other leaves its variables alone.                                 *)
LEMMA RequestStep ==
    ASSUME TypeOK, [RequestNext]_requestVars
    PROVE  [Next]_vars
<1>1. CASE UNCHANGED requestVars
  BY <1>1 DEF requestVars, vars
<1>2. ASSUME NEW part \in Parts, Address(<<part>>) PROVE [Next]_vars
  BY <1>2 DEF Address, vars
<1>3. ASSUME NEW id \in GivenID, Len(id) <= MaxParts + 2,
             \/ Secrets(id) \/ Policies(id) \/ RetrieveBatchSecrets(id)
             \/ Roles(id) \/ RotateAPIKey(id)
             \/ \E kind \in Kinds : RotateUserAPIKey(id, kind) \/ CreateToken(id, kind)
      PROVE [Next]_vars
  <2>1. id \in Given /\ id \in ID
    BY GivenIDs, GivenType
  <2>2. "variable" \in Kinds /\ "policy" \in Kinds /\ NamedKind(id) \in Kinds
    BY RequestAssumption DEF NamedKind
  <2>3. CASE RetrieveBatchSecrets(id)
    BY <2>3 DEF RetrieveBatchSecrets, vars
  <2>4. CASE \/ Secrets(id) \/ Policies(id) \/ Roles(id) \/ RotateAPIKey(id)
    <3>1. \E kind \in Kinds : Qualified(id, kind) \/ AsGiven(id, kind)
      BY <2>2, <2>4 DEF Secrets, Policies, Roles, RotateAPIKey
    <3> QED BY <1>3, <2>1, <3>1 DEF Next
  <2>5. ASSUME NEW kind \in Kinds, RotateUserAPIKey(id, kind) PROVE [Next]_vars
    <3>1. Enforced(id, kind)
      BY <2>5 DEF RotateUserAPIKey
    <3> QED BY <1>3, <2>1, <3>1 DEF Next
  <2>6. ASSUME NEW kind \in Kinds, CreateToken(id, kind) PROVE [Next]_vars
    <3>1. kind \in Parts \ {""}
      BY IdAssumption
    <3>2. Enforced(id, kind)
      BY <2>1, <2>6, <3>1, EnforcedTwice DEF CreateToken, Enforced
    <3> QED BY <1>3, <2>1, <3>2 DEF Next
  <2> QED BY <1>3, <2>3, <2>4, <2>5, <2>6
<1> QED BY <1>1, <1>2, <1>3 DEF RequestNext

(* The requests of the client implement ResourceId: whichever builder is   *)
(* called, in whatever order, its ID goes through makeFullID, parseID or   *)
(* parseIDandEnforceKind as one of ResourceId's operations.                *)
THEOREM Implements == RequestSpec => Spec
<1>1. RequestInit => Init
  BY DEF RequestInit
<1>2. Init => TypeOK
  BY DEF Init, TypeOK
<1>3. TypeOK /\ [Next]_vars => TypeOK'
  BY TypeStep
<1>4. TypeOK /\ [RequestNext]_requestVars => [Next]_vars
  BY RequestStep
<1> QED BY <1>1, <1>2, <1>3, <1>4, PTL DEF RequestSpec, Spec

(* No request is about a resource with an empty account, kind or           *)
(* identifier.                                                             *)
THEOREM RequestType == RequestSpec => []TypeOK
BY Implements, TypeCorrect, PTL

(* A request about a secret or a policy stays in the client's account and  *)
(* under its kind.                                                         *)
THEOREM RequestKind == RequestSpec => []OwnKind
BY Implements, KindKept, PTL

(* The full ID of a resource goes on to denote it from one operation to    *)
(* the next.                                                               *)
THEOREM RequestTarget == RequestSpec => SameTarget
BY Implements, FullIdDenotes, PTL

-----------------------------------------------------------------------------
(* Every URL that a request can have is below the normalised appliance     *)
(* URL, since what is normalised is not changed by being normalised again. *)
Below(url) == /\ DOMAIN url = {"host", "path", "query"}
              /\ url.host = normalizeBaseURL(client.host)

Right(r) == r # Malformed => Below(r.url)

(* Normalising is idempotent.                                            *)
LEMMA NormalizedOnce ==
    ASSUME NEW host \in Host
    PROVE  normalizeBaseURL(normalizeBaseURL(host)) = normalizeBaseURL(host)
BY DEF normalizeBaseURL, Host

(* A URL made from the appliance URL is below it.                        *)
LEMMA FromAppliance ==
    ASSUME NEW path
    PROVE  Below(makeRouterURL(ApplianceURL, path))
BY DEF Below, makeRouterURL, ApplianceURL

(* So is one that is longer, or has a query.                             *)
LEMMA Longer ==
    ASSUME client.host \in Host, NEW url, Below(url), NEW path
    PROVE  Below(makeRouterURL(url, path)) /\ Below(withQuery(url, path))
BY NormalizedOnce DEF Below, makeRouterURL, withQuery

(* A request for such a URL is right.                                    *)
LEMMA Asked ==
    ASSUME NEW url, Below(url), NEW method
    PROVE  Right(Request(method, url)) /\ \A t : Right(Required(t, Request(method, url)))
BY DEF Right, Request, Required

(* The addresses of resources, roles, policies and secrets.              *)
LEMMA ResourceURLs ==
    ASSUME client.host \in Host, NEW r
    PROVE  Below(OfResource(r)) /\ Below(OfRole(r)) /\ Below(OfPolicy(r)) /\ Below(variableURL(r))
<1>1. /\ Below(resourcesURL(r.account)) /\ Below(rolesURL(r.account))
      /\ Below(policiesURL(r.account)) /\ Below(secretsURL(r.account))
  BY FromAppliance DEF resourcesURL, rolesURL, policiesURL, secretsURL
<1> QED BY <1>1, Longer DEF OfResource, OfRole, OfPolicy, variableURL

(* The requests that the operations make about what an ID names.         *)
LEMMA ResourceRequests ==
    ASSUME client.host \in Host, NEW r
    PROVE  \A q \in RoleIDRequests(r) \cup PolicyRequests(r) \cup SecretRequests(r) : Right(q)
<1>0. Below(OfResource(r)) /\ Below(OfRole(r)) /\ Below(OfPolicy(r)) /\ Below(variableURL(r))
  BY ResourceURLs
<1>m. Right(Malformed)
  BY DEF Right
<1>1. \A q \in RoleIDRequests(r) : Right(q)
  <2>1. /\ Right(CheckPermissionRequest(r)) /\ Right(ResourceRequest(r))
        /\ Right(PermittedRolesRequest(r))
    BY <1>0, Longer, Asked DEF CheckPermissionRequest, ResourceRequest, PermittedRolesRequest
  <2>2. /\ Right(RoleRequest(r)) /\ Right(RoleMembersRequest(r))
        /\ \A query : Right(RoleMembershipsRequest(r, query))
    BY <1>0, Longer, Asked DEF RoleRequest, RoleMembersRequest, RoleMembershipsRequest
  <2>3. \A roleID : Right(CheckPermissionForRoleRequest(r, roleID))
    BY <1>0, <1>m, Longer, Asked DEF CheckPermissionForRoleRequest
  <2> QED BY <2>1, <2>2, <2>3 DEF RoleIDRequests
<1>2. \A q \in PolicyRequests(r) : Right(q)
  <2>1. /\ Right(fetchPolicyRequest(r))
        /\ \A method, query : Right(LoadPolicyRequest(r, method, query))
    BY <1>0, Longer, Asked DEF fetchPolicyRequest, LoadPolicyRequest
  <2> QED BY <2>1 DEF PolicyRequests
<1>3. \A q \in SecretRequests(r) : Right(q)
  <2>1. /\ Right(RetrieveSecretRequest(r)) /\ Right(RetrieveSecretWithVersionRequest(r))
        /\ Right(AddSecretRequest(r))
    BY <1>0, Longer, Asked DEF RetrieveSecretRequest, RetrieveSecretWithVersionRequest,
                               AddSecretRequest
  <2> QED BY <2>1 DEF SecretRequests
<1> QED BY <1>1, <1>2, <1>3

(* The addresses of authenticators.                                      *)
LEMMA AuthnURL ==
    ASSUME NEW type, NEW serviceID
    PROVE  Below(authnURL(type, serviceID))
BY FromAppliance DEF authnURL

(* The requests that log in or concern an authenticator.                 *)
LEMMA AuthnRequests ==
    ASSUME client.host \in Host, NEW t
    PROVE  \A q \in LoginRequests(t) \cup ServiceRequests(t) : Right(q)
<1> USE AuthnURL
<1>1. ASSUME NEW url, Below(url)
      PROVE  /\ Right(LoginRequest(url)) /\ Right(OidcTokenAuthenticateRequest(url))
             /\ Right(EnableAuthenticatorRequest(url)) /\ Right(AuthenticatorStatusRequest(url))
             /\ \A hostID : /\ Right(AuthenticateRequest(url, hostID))
                            /\ Right(JWTAuthenticateRequest(url, hostID))
                            /\ Right(IAMAuthenticateRequest(url, hostID))
                            /\ Right(OidcAuthenticateRequest(url, hostID))
  <2>1. /\ Right(LoginRequest(url)) /\ Right(OidcTokenAuthenticateRequest(url))
        /\ Right(EnableAuthenticatorRequest(url)) /\ Right(AuthenticatorStatusRequest(url))
    BY <1>1, Longer, Asked DEF LoginRequest, OidcTokenAuthenticateRequest,
                               EnableAuthenticatorRequest, AuthenticatorStatusRequest
  <2>2. \A hostID : /\ Right(AuthenticateRequest(url, hostID))
                    /\ Right(JWTAuthenticateRequest(url, hostID))
    BY <1>1, Longer, Asked DEF AuthenticateRequest, JWTAuthenticateRequest
  <2>3. \A hostID : /\ Right(IAMAuthenticateRequest(url, hostID))
                    /\ Right(OidcAuthenticateRequest(url, hostID))
    BY <1>1, Longer, Asked DEF IAMAuthenticateRequest, OidcAuthenticateRequest
  <2> QED BY <2>1, <2>2, <2>3
<1>2. ASSUME NEW url, Below(url), NEW hostID
      PROVE  Right(AzureAuthenticateRequest(url, hostID)) /\ Right(CertAuthenticateRequest(url, hostID))
  BY <1>1, <1>2 DEF AzureAuthenticateRequest, CertAuthenticateRequest
<1>3. /\ Right(GCPAuthenticateRequest) /\ Right(RotateCurrentRoleAPIKeyRequest)
      /\ Right(ChangeUserPasswordRequest) /\ Right(ListOidcProvidersRequest)
      /\ \A q \in ServerRequests : Right(q)
  <2>1. Right(GCPAuthenticateRequest)
    BY <1>1 DEF GCPAuthenticateRequest
  <2>2. Right(RotateCurrentRoleAPIKeyRequest)
    BY Longer, Asked DEF RotateCurrentRoleAPIKeyRequest
  <2>3. Right(ChangeUserPasswordRequest) /\ Right(ListOidcProvidersRequest)
    BY FromAppliance, Asked DEF ChangeUserPasswordRequest, ListOidcProvidersRequest
  <2>4. \A q \in ServerRequests : Right(q)
    BY FromAppliance, Asked DEF ServerRequests
  <2> QED BY <2>1, <2>2, <2>3, <2>4
<1>4. \A q \in LoginRequests(t) : Right(q)
  BY <1>1, <1>3 DEF LoginRequests
<1>5. \A q \in ServiceRequests(t) : Right(q)
  BY <1>1, <1>2, <1>3 DEF ServiceRequests
<1> QED BY <1>4, <1>5

(* Those of host factories, issuers and LDAP mappings.                   *)
LEMMA OtherRequests ==
    ASSUME client.host \in Host, NEW t
    PROVE  \A q \in HostFactoryRequests(t) \cup IssuerRequests(t) \cup LdapMappingRequests(t) :
               Right(q)
<1>1. \A q \in HostFactoryRequests(t) : Right(q)
  <2>1. /\ Right(DeleteTokenRequest(t)) /\ Right(CreateHostRequest) /\ Right(PublicKeysRequest(t))
    BY FromAppliance, Asked DEF DeleteTokenRequest, CreateHostRequest, PublicKeysRequest
  <2>2. Right(resourcesRequest(t))
    BY FromAppliance, Longer, Asked DEF resourcesRequest, resourcesURL
  <2> QED BY <2>1, <2>2 DEF HostFactoryRequests
<1>2. \A q \in IssuerRequests(t) : Right(q)
  <2>1. Below(issuersURL)
    BY FromAppliance DEF issuersURL
  <2>2. /\ Right(createIssuerRequest) /\ Right(issuersRequest) /\ Right(issuerRequest(t))
        /\ Right(updateIssuerRequest(t)) /\ Right(deleteIssuerRequest(t))
    BY <2>1, Longer, Asked DEF createIssuerRequest, issuersRequest, issuerRequest,
                               updateIssuerRequest, deleteIssuerRequest
  <2> QED BY <2>2 DEF IssuerRequests
<1>3. \A q \in LdapMappingRequests(t) : Right(q)
  <2>1. \A kind : Below(ldapMappingURL(kind, t)) /\ Below(ldapMappingsURL(kind))
    BY FromAppliance DEF ldapMappingURL, ldapMappingsURL
  <2> QED BY <2>1, Asked DEF LdapMappingRequests
<1> QED BY <1>1, <1>2, <1>3

(* Those of the V2 client.                                               *)
LEMMA V2Requests ==
    ASSUME client.host \in Host, NEW t
    PROVE  \A q \in AuthenticatorRequests(t) \cup BranchRequests(t) \cup GroupRequests(t)
                      \cup StaticSecretRequests(t) \cup WorkloadRequests(t) : Right(q)
<1>m. Right(Malformed) /\ \A u, q : Right(q) => Right(Required(u, q))
  BY DEF Right, Required
<1>1. \A q \in AuthenticatorRequests(t) : Right(q)
  <2>1. \A type, u : Below(authenticatorsURL(type, u))
    BY FromAppliance DEF authenticatorsURL
  <2>2. /\ Right(CreateAuthenticatorRequest) /\ Right(ListAuthenticatorsRequest)
        /\ \A type : /\ Right(GetAuthenticatorRequest(type, t))
                     /\ Right(UpdateAuthenticatorRequest(type, t))
                     /\ Right(DeleteAuthenticatorRequest(type, t))
    BY <2>1, Asked DEF CreateAuthenticatorRequest, ListAuthenticatorsRequest,
           GetAuthenticatorRequest, UpdateAuthenticatorRequest, DeleteAuthenticatorRequest
  <2> QED BY <2>2 DEF AuthenticatorRequests
<1>2. \A q \in BranchRequests(t) : Right(q)
  <2>1. Below(branchesURL) /\ Below(branchURL(t))
    BY FromAppliance DEF branchesURL, branchURL
  <2>2. /\ Right(CreateBranchRequest) /\ Right(ReadBranchRequest(t))
        /\ Right(ReadBranchesRequest) /\ Right(UpdateBranchRequest(t))
        /\ Right(DeleteBranchRequest(t))
    BY <2>1, Longer, Asked DEF CreateBranchRequest, ReadBranchRequest, ReadBranchesRequest,
                               UpdateBranchRequest, DeleteBranchRequest
  <2> QED BY <2>2 DEF BranchRequests
<1>3. \A q \in GroupRequests(t) : Right(q)
  <2>1. \A group, member : /\ Below(addGroupMembershipURL(group))
                           /\ Below(removeGroupMembershipURL(group, member))
    BY FromAppliance, Longer DEF addGroupMembershipURL, removeGroupMembershipURL
  <2>2. /\ Right(AddGroupMemberRequest(t))
        /\ \A group, member : Right(RemoveGroupMemberRequest(group, member))
    BY <2>1, <1>m, Asked DEF AddGroupMemberRequest, RemoveGroupMemberRequest
  <2> QED BY <2>2 DEF GroupRequests
<1>4. \A q \in StaticSecretRequests(t) : Right(q)
  <2>1. \A rest : Below(staticSecretURL(t, rest))
    BY FromAppliance DEF staticSecretURL
  <2>2. Right(GetStaticSecretDetailsRequest(t)) /\ Right(GetStaticSecretPermissionsRequest(t))
    BY <2>1, Asked DEF GetStaticSecretDetailsRequest, GetStaticSecretPermissionsRequest
  <2>3. /\ Right(CreateStaticSecretRequest) /\ Right(BatchRetrieveSecretsRequest)
        /\ Right(CertificateIssueRequest(t)) /\ Right(CertificateSignRequest(t))
    BY FromAppliance, Asked DEF CreateStaticSecretRequest, BatchRetrieveSecretsRequest,
                                CertificateIssueRequest, CertificateSignRequest
  <2> QED BY <2>2, <2>3 DEF StaticSecretRequests
<1>5. \A q \in WorkloadRequests(t) : Right(q)
  <2>1. \A method, texts : Right(OfWorkload(method, texts))
    BY <1>m, FromAppliance, Asked DEF OfWorkload
  <2>2. Right(CreateWorkloadRequest)
    BY FromAppliance, Asked DEF CreateWorkloadRequest, workloadsURL
  <2> QED BY <2>1, <2>2 DEF WorkloadRequests, DeleteWorkloadRequest, GetWorkloadRequest,
                            UpdateWorkloadRequest, UpdateAuthnDescriptorRequest
<1> QED BY <1>1, <1>2, <1>3, <1>4, <1>5

-----------------------------------------------------------------------------
RightInv == client \in Clients /\ Right(request)

(* Every request is right.                                               *)
LEMMA RightStep == RightInv /\ [RequestNext]_requestVars => RightInv'
<1> SUFFICES ASSUME RightInv, [RequestNext]_requestVars PROVE RightInv'
  OBVIOUS
<1>0. client.host \in Host
  BY RequestAssumption DEF RightInv
<1>m. Right(Malformed)
  BY DEF Right
<1>1. ASSUME UNCHANGED client, Right(request') PROVE RightInv'
  BY <1>1 DEF RightInv, Right, Below
<1>2. CASE UNCHANGED requestVars
  BY <1>2 DEF requestVars, RightInv, Right, Below
<1>3. ASSUME NEW part \in Parts, Address(<<part>>) PROVE RightInv'
  BY <1>0, <1>1, <1>3, AuthnRequests, OtherRequests, V2Requests DEF Address
<1>4. ASSUME NEW requests, Send(requests), \A q \in requests : Right(q) PROVE RightInv'
  BY <1>1, <1>4, <1>m DEF Send
<1>5. ASSUME NEW id, Secrets(id) \/ Policies(id) \/ Roles(id) PROVE RightInv'
  BY <1>0, <1>4, <1>5, ResourceRequests DEF Secrets, Policies, Roles
<1>6. ASSUME NEW id, RetrieveBatchSecrets(id) PROVE RightInv'
  <2>1. Right(RetrieveBatchSecretsRequest(<<id, id>>))
    BY <1>0, FromAppliance, Longer, Asked DEF RetrieveBatchSecretsRequest
  <2> QED BY <1>1, <1>6, <2>1 DEF RetrieveBatchSecrets
<1>7. \A r : Right(RotateAPIKeyRequest(r))
  BY <1>0, AuthnURL, Longer, Asked DEF RotateAPIKeyRequest
<1>8. ASSUME NEW id, NEW kind, RotateAPIKey(id) \/ RotateUserAPIKey(id, kind) PROVE RightInv'
  BY <1>4, <1>7, <1>8 DEF RotateAPIKey, RotateUserAPIKey
<1>9. ASSUME NEW id, NEW kind, CreateToken(id, kind) PROVE RightInv'
  <2>1. Right(CreateTokenRequest)
    BY FromAppliance, Asked DEF CreateTokenRequest
  <2> QED BY <1>4, <1>9, <2>1 DEF CreateToken
<1> QED BY <1>2, <1>3, <1>5, <1>6, <1>8, <1>9 DEF RequestNext

(* Whatever is requested, of whichever API, for whatever appliance URL: a  *)
(* request to the SaaS goes below "/api", once (router_url.go:88-97).      *)
THEOREM BelowApi == RequestSpec => []ApiOnce
<1>1. RequestInit => RightInv
  BY DEF RequestInit, RightInv, Right
<1>2. RightInv => ApiOnce
  <2> SUFFICES ASSUME RightInv, request # Malformed, client.host.cloud,
                      client.host.saysApi <=> client.host.prefixes = 1
               PROVE  request.url.host.prefixes = 1
    BY DEF ApiOnce
  <2>1. request.url.host = normalizeBaseURL(client.host)
    BY DEF RightInv, Right, Below
  <2>2. client.host \in Host /\ (client.host.prefixes > 0 => client.host.saysApi)
    BY RequestAssumption DEF RightInv
  <2>3. client.host.prefixes \in Nat /\ client.host.saysApi \in BOOLEAN
    BY <2>2 DEF Host
  <2>4. CASE client.host.saysApi
    BY <2>1, <2>4 DEF normalizeBaseURL
  <2>5. CASE ~client.host.saysApi
    <3>1. client.host.prefixes = 0
      BY <2>2, <2>3, <2>5
    <3>2. normalizeBaseURL(client.host).prefixes = client.host.prefixes + 1
      BY <2>2, <2>5 DEF normalizeBaseURL, Host
    <3> QED BY <2>1, <3>1, <3>2
  <2> QED BY <2>4, <2>5
<1> QED BY <1>1, <1>2, RightStep, PTL DEF RequestSpec

-----------------------------------------------------------------------------
(* The components of a URL, and where it leads.                            *)
IsList(s) == \E S : s \in Seq(S)

LEMMA Lists ==
    /\ IsList(<<>>)
    /\ \A a : IsList(<<a>>)
    /\ \A a, b : IsList(<<a, b>>)
    /\ \A a, b, c : IsList(<<a, b, c>>)
    /\ \A a, b, c, d : IsList(<<a, b, c, d>>)
    /\ \A a, b, c, d, e : IsList(<<a, b, c, d, e>>)
<1>1. <<>> \in Seq({})
  OBVIOUS
<1>2. \A a : <<a>> \in Seq({a})
  OBVIOUS
<1>3. \A a, b : <<a, b>> \in Seq({a, b})
  OBVIOUS
<1>4. \A a, b, c : <<a, b, c>> \in Seq({a, b, c})
  OBVIOUS
<1>5. \A a, b, c, d : <<a, b, c, d>> \in Seq({a, b, c, d})
  OBVIOUS
<1>6. \A a, b, c, d, e : <<a, b, c, d, e>> \in Seq({a, b, c, d, e})
  OBVIOUS
<1> QED BY <1>1, <1>2, <1>3, <1>4, <1>5, <1>6 DEF IsList

LEMMA ListLen ==
    ASSUME NEW s, IsList(s)
    PROVE  Len(s) \in Nat /\ DOMAIN s = 1 .. Len(s) /\ (s # <<>> => Len(s) >= 1)
<1>1. PICK S : s \in Seq(S)
  BY DEF IsList
<1> QED BY <1>1, LenProperties, EmptySeq

(* A path that is continued.                                             *)
LEMMA Continued ==
    ASSUME NEW s, NEW t, IsList(s), IsList(t)
    PROVE  /\ IsList(s \o t) /\ Len(s \o t) = Len(s) + Len(t)
           /\ \A i \in 1 .. Len(s) : (s \o t)[i] = s[i]
           /\ \A i \in 1 .. Len(t) : (s \o t)[Len(s) + i] = t[i]
           /\ \A i \in 1 .. Len(s \o t) :
                 \/ i \in 1 .. Len(s) /\ (s \o t)[i] = s[i]
                 \/ \E j \in 1 .. Len(t) : (s \o t)[i] = t[j]
           /\ <<>> \o t = t
<1>1. PICK S : s \in Seq(S)
  BY DEF IsList
<1>2. PICK T : t \in Seq(T)
  BY DEF IsList
<1>3. s \in Seq(S \cup T) /\ t \in Seq(S \cup T)
  BY <1>1, <1>2, SeqMonotonic
<1>4. /\ s \o t \in Seq(S \cup T)
      /\ Len(s \o t) = Len(s) + Len(t)
      /\ \A i \in 1 .. Len(s) + Len(t) : (s \o t)[i] = IF i <= Len(s) THEN s[i] ELSE t[i - Len(s)]
  BY <1>3, ConcatProperties
<1>5. Len(s) \in Nat /\ Len(t) \in Nat
  BY ListLen
<1>6. IsList(s \o t)
  BY <1>4 DEF IsList
<1>7. \A i \in 1 .. Len(s) : (s \o t)[i] = s[i]
  BY <1>4, <1>5
<1>8. \A i \in 1 .. Len(t) : (s \o t)[Len(s) + i] = t[i]
  BY <1>4, <1>5
<1>9. ASSUME NEW i \in 1 .. Len(s \o t)
      PROVE  \/ i \in 1 .. Len(s) /\ (s \o t)[i] = s[i]
             \/ \E j \in 1 .. Len(t) : (s \o t)[i] = t[j]
  <2>1. CASE i <= Len(s)
    BY <1>4, <1>5, <1>7, <2>1
  <2>2. CASE ~(i <= Len(s))
    <3>1. i - Len(s) \in 1 .. Len(t)
      BY <1>4, <1>5, <2>2
    <3>2. (s \o t)[i] = t[i - Len(s)]
      BY <1>4, <1>5, <2>2
    <3> QED BY <3>1, <3>2
  <2> QED BY <2>1, <2>2
<1>10. <<>> \o t = t
  BY <1>2, ConcatEmptySeq
<1> QED BY <1>4, <1>6, <1>7, <1>8, <1>9, <1>10

(* Made from the appliance URL, a URL has the components given and no      *)
(* query; made from another, it has that URL's and then those.             *)
LEMMA MadePath ==
    ASSUME NEW path, IsList(path)
    PROVE  /\ makeRouterURL(ApplianceURL, path).path = path
           /\ makeRouterURL(ApplianceURL, path).query = <<>>
<1>1. <<>> \o path = path
  BY Continued, Lists
<1> QED BY <1>1 DEF makeRouterURL, ApplianceURL

LEMMA LongerPath ==
    ASSUME NEW url, Below(url), NEW path, NEW values
    PROVE  /\ makeRouterURL(url, path).path = url.path \o path
           /\ makeRouterURL(url, path).query = url.query
           /\ withQuery(url, values).path = url.path
           /\ withQuery(url, values).query = values
BY DEF Below, makeRouterURL, withQuery

(* A URL of the API that the word stands for.                            *)
Leads(url, word) ==
    /\ Below(url) /\ IsList(url.path) /\ Len(url.path) >= 1
    /\ url.path[1] = Word(word)

LEMMA LeadsFrom ==
    ASSUME NEW path, IsList(path), NEW word, path[1] = Word(word), Len(path) >= 1
    PROVE  Leads(makeRouterURL(ApplianceURL, path), word)
BY FromAppliance, MadePath DEF Leads

LEMMA LeadsWord ==
    ASSUME NEW word
    PROVE  /\ Leads(makeRouterURL(ApplianceURL, <<Word(word)>>), word)
           /\ \A a : Leads(makeRouterURL(ApplianceURL, <<Word(word), a>>), word)
           /\ \A a, b : Leads(makeRouterURL(ApplianceURL, <<Word(word), a, b>>), word)
           /\ \A a, b, c : Leads(makeRouterURL(ApplianceURL, <<Word(word), a, b, c>>), word)
           /\ \A a, b, c, d : Leads(makeRouterURL(ApplianceURL, <<Word(word), a, b, c, d>>), word)
<1> DEFINE w == Word(word)
<1> HIDE DEF w
<1>1. <<w>>[1] = w /\ Len(<<w>>) >= 1
  OBVIOUS
<1>2. \A a : <<w, a>>[1] = w /\ Len(<<w, a>>) >= 1
  OBVIOUS
<1>3. \A a, b : <<w, a, b>>[1] = w /\ Len(<<w, a, b>>) >= 1
  OBVIOUS
<1>4. \A a, b, c : <<w, a, b, c>>[1] = w /\ Len(<<w, a, b, c>>) >= 1
  OBVIOUS
<1>5. \A a, b, c, d : <<w, a, b, c, d>>[1] = w /\ Len(<<w, a, b, c, d>>) >= 1
  OBVIOUS
<1>6. ASSUME NEW path, IsList(path), path[1] = w, Len(path) >= 1
      PROVE  Leads(makeRouterURL(ApplianceURL, path), word)
  BY <1>6, LeadsFrom DEF w
<1>7. Leads(makeRouterURL(ApplianceURL, <<w>>), word)
  BY <1>1, <1>6, Lists
<1>8. \A a : Leads(makeRouterURL(ApplianceURL, <<w, a>>), word)
  BY <1>2, <1>6, Lists
<1>9. \A a, b : Leads(makeRouterURL(ApplianceURL, <<w, a, b>>), word)
  BY <1>3, <1>6, Lists
<1>10. \A a, b, c : Leads(makeRouterURL(ApplianceURL, <<w, a, b, c>>), word)
  BY <1>4, <1>6, Lists
<1>11. \A a, b, c, d : Leads(makeRouterURL(ApplianceURL, <<w, a, b, c, d>>), word)
  BY <1>5, <1>6, Lists
<1> QED BY <1>7, <1>8, <1>9, <1>10, <1>11 DEF w

LEMMA LeadsOn ==
    ASSUME client.host \in Host, NEW url, NEW word, Leads(url, word), NEW path, IsList(path),
           NEW values
    PROVE  Leads(makeRouterURL(url, path), word) /\ Leads(withQuery(url, values), word)
<1>1. Below(url) /\ IsList(url.path) /\ Len(url.path) >= 1 /\ url.path[1] = Word(word)
  BY DEF Leads
<1>2. Below(makeRouterURL(url, path)) /\ Below(withQuery(url, values))
  BY <1>1, Longer
<1>3. makeRouterURL(url, path).path = url.path \o path /\ withQuery(url, values).path = url.path
  BY <1>1, LongerPath
<1>4. /\ IsList(url.path \o path) /\ Len(url.path \o path) = Len(url.path) + Len(path)
      /\ (url.path \o path)[1] = url.path[1]
  <2>1. Len(url.path) \in Nat /\ Len(path) \in Nat
    BY <1>1, ListLen
  <2> QED BY <1>1, <2>1, Continued
<1>5. Len(url.path \o path) >= 1
  BY <1>1, <1>4, ListLen
<1> QED BY <1>1, <1>2, <1>3, <1>4, <1>5 DEF Leads

-----------------------------------------------------------------------------
(* Requests that are not about a secret, a resource, a role, a policy or a *)
(* workload.                                                               *)
Apart(word) == word \notin {"", "secrets", "resources", "roles", "policies", "workloads"}
Elsewhere(r) == r # Malformed => r.url.path = <<>> \/ \E word : Apart(word) /\ Leads(r.url, word)

LEMMA AskedElsewhere ==
    ASSUME NEW url, NEW word, Apart(word), Leads(url, word), NEW method
    PROVE  /\ Elsewhere(Request(method, url))
           /\ \A t : Elsewhere(Required(t, Request(method, url)))
BY DEF Elsewhere, Request, Required

LEMMA AuthnLeads ==
    ASSUME NEW serviceID
    PROVE  /\ Leads(authnURL("gcp", serviceID), "gcp") /\ Leads(authnURL("authn", serviceID), "authn")
           /\ Leads(authnURL("jwt", serviceID), "jwt")
<1>1. /\ authnURL("gcp", serviceID) = makeRouterURL(ApplianceURL, <<Word("gcp"), Raw(<<Account>>)>>)
      /\ authnURL("authn", serviceID) =
            makeRouterURL(ApplianceURL, <<Word("authn"), Raw(<<Account>>)>>)
      /\ authnURL("jwt", serviceID) =
            makeRouterURL(ApplianceURL, <<Word("jwt"), Raw(serviceID), Raw(<<Account>>)>>)
  BY DEF authnURL
<1> QED BY <1>1, LeadsWord

LEMMA AuthnElsewhere ==
    ASSUME client.host \in Host, NEW t
    PROVE  \A q \in LoginRequests(t) \cup ServiceRequests(t) : Elsewhere(q)
<1>0. Apart("gcp") /\ Apart("authn") /\ Apart("jwt") /\ Apart("authn-oidc") /\ Apart("info")
      /\ Apart("whoami")
  BY DEF Apart
<1>1. ASSUME NEW url, NEW word, Apart(word), Leads(url, word)
      PROVE  /\ Elsewhere(LoginRequest(url)) /\ Elsewhere(OidcTokenAuthenticateRequest(url))
             /\ Elsewhere(EnableAuthenticatorRequest(url))
             /\ Elsewhere(AuthenticatorStatusRequest(url))
             /\ \A hostID : /\ Elsewhere(AuthenticateRequest(url, hostID))
                            /\ Elsewhere(JWTAuthenticateRequest(url, hostID))
                            /\ Elsewhere(IAMAuthenticateRequest(url, hostID))
                            /\ Elsewhere(OidcAuthenticateRequest(url, hostID))
  <2>1. /\ Elsewhere(LoginRequest(url)) /\ Elsewhere(OidcTokenAuthenticateRequest(url))
        /\ Elsewhere(EnableAuthenticatorRequest(url))
        /\ Elsewhere(AuthenticatorStatusRequest(url))
    BY <1>1, Lists, LeadsOn, AskedElsewhere DEF LoginRequest, OidcTokenAuthenticateRequest,
           EnableAuthenticatorRequest, AuthenticatorStatusRequest
  <2>2. ASSUME NEW hostID PROVE Elsewhere(AuthenticateRequest(url, hostID))
    BY <1>1, Lists, LeadsOn, AskedElsewhere DEF AuthenticateRequest
  <2>3. ASSUME NEW hostID PROVE Elsewhere(JWTAuthenticateRequest(url, hostID))
    <3> DEFINE path == (IF hostID = <<"">> THEN <<>> ELSE <<PathEscape(hostID)>>)
                          \o <<Word("authenticate")>>
    <3>1. IsList(path)
      BY Lists, Continued
    <3> HIDE DEF path
    <3>2. Leads(makeRouterURL(url, path), word)
      BY <1>1, <3>1, LeadsOn
    <3> QED BY <1>1, <3>2, AskedElsewhere DEF JWTAuthenticateRequest, path
  <2>4. ASSUME NEW hostID PROVE Elsewhere(IAMAuthenticateRequest(url, hostID))
    BY <1>1, Lists, LeadsOn, AskedElsewhere DEF IAMAuthenticateRequest
  <2>5. ASSUME NEW hostID PROVE Elsewhere(OidcAuthenticateRequest(url, hostID))
    <3>1. Leads(makeRouterURL(url, <<Word("authenticate")>>), word)
      BY <1>1, Lists, LeadsOn
    <3>2. Leads(withQuery(makeRouterURL(url, <<Word("authenticate")>>), <<Raw(hostID)>>), word)
      BY <3>1, Lists, LeadsOn
    <3> QED BY <1>1, <3>2, AskedElsewhere DEF OidcAuthenticateRequest
  <2> QED BY <2>1, <2>2, <2>3, <2>4, <2>5
<1>2. ASSUME NEW url, NEW word, Apart(word), Leads(url, word), NEW hostID
      PROVE  /\ Elsewhere(AzureAuthenticateRequest(url, hostID))
             /\ Elsewhere(CertAuthenticateRequest(url, hostID))
  BY <1>1, <1>2 DEF AzureAuthenticateRequest, CertAuthenticateRequest
<1>3. Elsewhere(GCPAuthenticateRequest) /\ Elsewhere(RotateCurrentRoleAPIKeyRequest)
  <2>1. Elsewhere(GCPAuthenticateRequest)
    BY <1>0, <1>1, AuthnLeads DEF GCPAuthenticateRequest
  <2>2. Leads(makeRouterURL(authnURL("authn", <<"">>), <<Word("api_key")>>), "authn")
    BY AuthnLeads, Lists, LeadsOn
  <2> QED BY <1>0, <2>1, <2>2, AskedElsewhere DEF RotateCurrentRoleAPIKeyRequest
<1>4. Elsewhere(ChangeUserPasswordRequest) /\ Elsewhere(ListOidcProvidersRequest)
  <2>1. Leads(makeRouterURL(ApplianceURL, <<Word("authn"), Raw(<<Account>>), Word("password")>>),
              "authn")
    BY LeadsWord
  <2>2. Leads(makeRouterURL(ApplianceURL,
                  <<Word("authn-oidc"), Raw(<<Account>>), Word("providers")>>), "authn-oidc")
    BY LeadsWord
  <2> QED BY <1>0, <2>1, <2>2, AskedElsewhere DEF ChangeUserPasswordRequest, ListOidcProvidersRequest
<1>5. \A q \in ServerRequests : Elsewhere(q)
  <2>1. Elsewhere(Request("GET", makeRouterURL(ApplianceURL, <<>>)))
    BY Lists, MadePath DEF Elsewhere, Request
  <2>2. /\ Leads(makeRouterURL(ApplianceURL, <<Word("info")>>), "info")
        /\ Leads(makeRouterURL(ApplianceURL, <<Word("whoami")>>), "whoami")
    BY LeadsWord
  <2>3. /\ Elsewhere(Request("GET", makeRouterURL(ApplianceURL, <<Word("info")>>)))
        /\ Elsewhere(Request("GET", makeRouterURL(ApplianceURL, <<Word("whoami")>>)))
    BY <1>0, <2>2, AskedElsewhere
  <2> QED BY <2>1, <2>3 DEF ServerRequests
<1>6. \A q \in LoginRequests(t) : Elsewhere(q)
  <2> DEFINE url == authnURL("authn", <<"">>)
  <2>1. Leads(url, "authn")
    BY AuthnLeads
  <2> HIDE DEF url
  <2>2. Elsewhere(LoginRequest(url)) /\ Elsewhere(AuthenticateRequest(url, t))
    BY <1>0, <1>1, <2>1
  <2> QED BY <1>3, <1>4, <1>5, <2>2 DEF LoginRequests, url
<1>7. \A q \in ServiceRequests(t) : Elsewhere(q)
  <2> DEFINE url == authnURL("jwt", <<"service">>)
             own == authnURL("jwt", t)
  <2>1. Leads(url, "jwt") /\ Leads(own, "jwt")
    BY AuthnLeads
  <2> HIDE DEF url, own
  <2>2. /\ Elsewhere(LoginRequest(url)) /\ Elsewhere(AuthenticateRequest(url, t))
        /\ Elsewhere(JWTAuthenticateRequest(url, t)) /\ Elsewhere(IAMAuthenticateRequest(url, t))
        /\ Elsewhere(OidcAuthenticateRequest(url, t))
        /\ Elsewhere(OidcTokenAuthenticateRequest(url))
        /\ Elsewhere(EnableAuthenticatorRequest(own)) /\ Elsewhere(AuthenticatorStatusRequest(own))
    BY <1>0, <1>1, <2>1
  <2>3. Elsewhere(AzureAuthenticateRequest(url, t)) /\ Elsewhere(CertAuthenticateRequest(url, t))
    BY <1>0, <1>2, <2>1
  <2> QED BY <1>3, <2>2, <2>3 DEF ServiceRequests, url, own
<1> QED BY <1>6, <1>7

LEMMA OtherElsewhere ==
    ASSUME client.host \in Host, NEW t
    PROVE  \A q \in HostFactoryRequests(t) \cup IssuerRequests(t) \cup LdapMappingRequests(t) :
               Elsewhere(q) \/ q = resourcesRequest(t)
<1>0. Apart("host_factory_tokens") /\ Apart("host_factories/hosts") /\ Apart("public_keys")
      /\ Apart("issuers") /\ Apart("authn-ldap")
  BY DEF Apart
<1>1. \A q \in HostFactoryRequests(t) : Elsewhere(q) \/ q = resourcesRequest(t)
  <2>1. Elsewhere(DeleteTokenRequest(t)) /\ Elsewhere(CreateHostRequest)
    BY <1>0, LeadsWord, AskedElsewhere DEF DeleteTokenRequest, CreateHostRequest
  <2>2. Elsewhere(PublicKeysRequest(t))
    BY <1>0, LeadsWord, AskedElsewhere DEF PublicKeysRequest
  <2> QED BY <2>1, <2>2 DEF HostFactoryRequests
<1>2. \A q \in IssuerRequests(t) : Elsewhere(q)
  <2>1. Leads(issuersURL, "issuers")
    BY LeadsWord DEF issuersURL
  <2>2. /\ Leads(makeRouterURL(issuersURL, <<>>), "issuers")
        /\ Leads(makeRouterURL(issuersURL, <<QueryEscape(t)>>), "issuers")
    BY <2>1, Lists, LeadsOn
  <2>3. Leads(withQuery(makeRouterURL(issuersURL, <<QueryEscape(t)>>), <<Word("keep_secrets")>>),
              "issuers")
    BY <2>2, Lists, LeadsOn
  <2>4. /\ Elsewhere(createIssuerRequest) /\ Elsewhere(issuersRequest)
        /\ Elsewhere(issuerRequest(t)) /\ Elsewhere(updateIssuerRequest(t))
        /\ Elsewhere(deleteIssuerRequest(t))
    BY <1>0, <2>2, <2>3, AskedElsewhere DEF createIssuerRequest, issuersRequest, issuerRequest,
           updateIssuerRequest, deleteIssuerRequest
  <2> QED BY <2>4 DEF IssuerRequests
<1>3. \A q \in LdapMappingRequests(t) : Elsewhere(q)
  <2>1. \A kind : /\ Leads(ldapMappingURL(kind, t), "authn-ldap")
                  /\ Leads(ldapMappingsURL(kind), "authn-ldap")
    BY LeadsWord DEF ldapMappingURL, ldapMappingsURL
  <2>2. \A m, kind : /\ Elsewhere(Request(m, ldapMappingURL(kind, t)))
                     /\ Elsewhere(Request(m, ldapMappingsURL(kind)))
    BY <1>0, <2>1, AskedElsewhere
  <2> QED BY <2>2 DEF LdapMappingRequests
<1> QED BY <1>1, <1>2, <1>3

(* A V2 address, which may have the account after its first word.        *)
LEMMA LeadsV2 ==
    ASSUME NEW word, NEW rest, IsList(rest)
    PROVE  /\ Leads(makeRouterURL(ApplianceURL, <<Word(word)>> \o V2Account \o rest), word)
           /\ Leads(makeRouterURL(ApplianceURL, <<Word(word)>> \o V2Account), word)
           /\ Leads(makeRouterURL(ApplianceURL, <<Word(word)>> \o rest), word)
<1> DEFINE w == Word(word)
<1> HIDE DEF w
<1>1. IsList(<<w>>) /\ IsList(V2Account) /\ Len(<<w>>) = 1 /\ <<w>>[1] = w
  BY Lists DEF V2Account
<1>2. ASSUME NEW s, IsList(s) PROVE IsList(<<w>> \o s) /\ (<<w>> \o s)[1] = w /\ Len(<<w>> \o s) >= 1
  BY <1>1, <1>2, Continued, ListLen
<1>3. ASSUME NEW s, IsList(s), s[1] = w, Len(s) >= 1
      PROVE  IsList(s \o rest) /\ (s \o rest)[1] = w /\ Len(s \o rest) >= 1
  BY <1>3, Continued, ListLen
<1>4. ASSUME NEW s, IsList(s), s[1] = w, Len(s) >= 1
      PROVE  Leads(makeRouterURL(ApplianceURL, s), word)
  BY <1>4, LeadsFrom DEF w
<1>5. Leads(makeRouterURL(ApplianceURL, <<w>> \o rest), word)
  BY <1>2, <1>4
<1>6. Leads(makeRouterURL(ApplianceURL, <<w>> \o V2Account), word)
  BY <1>1, <1>2, <1>4
<1>7. Leads(makeRouterURL(ApplianceURL, <<w>> \o V2Account \o rest), word)
  BY <1>1, <1>2, <1>3, <1>4
<1> QED BY <1>5, <1>6, <1>7 DEF w

LEMMA V2Elsewhere ==
    ASSUME client.host \in Host, NEW t
    PROVE  \A q \in AuthenticatorRequests(t) \cup BranchRequests(t) \cup GroupRequests(t)
                      \cup StaticSecretRequests(t) :
               Elsewhere(q) \/ q = BatchRetrieveSecretsRequest
<1>0. Apart("authenticators") /\ Apart("branches") /\ Apart("groups") /\ Apart("secrets/static")
      /\ Apart("issuers")
  BY DEF Apart
<1>m. Elsewhere(Malformed) /\ \A u, q : Elsewhere(q) => Elsewhere(Required(u, q))
  BY DEF Elsewhere, Required
<1>1. \A q \in AuthenticatorRequests(t) : Elsewhere(q)
  <2>1. ASSUME NEW type \in {"", "gcp", "jwt"}, NEW u
        PROVE  Leads(authenticatorsURL(type, u), "authenticators")
    <3> DEFINE rest == CASE type = "gcp" -> <<Word(type)>>
                         [] type = ""    -> <<>>
                         [] OTHER        -> <<Word(type), Raw(u)>>
    <3>1. IsList(rest)
      <4>1. CASE type = "gcp"
        BY <4>1, Lists
      <4>2. CASE type = ""
        BY <4>2, Lists
      <4>3. CASE type = "jwt"
        BY <4>3, Lists
      <4> QED BY <4>1, <4>2, <4>3
    <3> HIDE DEF rest
    <3>2. Leads(makeRouterURL(ApplianceURL, <<Word("authenticators")>> \o V2Account \o rest),
                "authenticators")
      BY <3>1, LeadsV2
    <3> QED BY <3>2 DEF authenticatorsURL, rest
  <2>2. Elsewhere(CreateAuthenticatorRequest) /\ Elsewhere(ListAuthenticatorsRequest)
    BY <1>0, <2>1, AskedElsewhere DEF CreateAuthenticatorRequest, ListAuthenticatorsRequest
  <2>3. ASSUME NEW type \in {"gcp", "jwt"}
        PROVE  /\ Elsewhere(GetAuthenticatorRequest(type, t))
               /\ Elsewhere(UpdateAuthenticatorRequest(type, t))
               /\ Elsewhere(DeleteAuthenticatorRequest(type, t))
    <3>1. Leads(authenticatorsURL(type, t), "authenticators")
      BY <2>1
    <3> QED BY <1>0, <3>1, AskedElsewhere
            DEF GetAuthenticatorRequest, UpdateAuthenticatorRequest, DeleteAuthenticatorRequest
  <2> QED BY <2>2, <2>3 DEF AuthenticatorRequests
<1>2. \A q \in BranchRequests(t) : Elsewhere(q)
  <2>1. Leads(branchesURL, "branches") /\ Leads(branchURL(t), "branches")
    BY Lists, LeadsV2 DEF branchesURL, branchURL
  <2>2. Leads(withQuery(branchesURL, <<Word("limit"), Word("offset")>>), "branches")
    BY <2>1, Lists, LeadsOn
  <2>3. /\ Elsewhere(CreateBranchRequest) /\ Elsewhere(ReadBranchRequest(t))
        /\ Elsewhere(ReadBranchesRequest) /\ Elsewhere(UpdateBranchRequest(t))
        /\ Elsewhere(DeleteBranchRequest(t))
    BY <1>0, <2>1, <2>2, AskedElsewhere DEF CreateBranchRequest, ReadBranchRequest,
           ReadBranchesRequest, UpdateBranchRequest, DeleteBranchRequest
  <2> QED BY <2>3 DEF BranchRequests
<1>3. \A q \in GroupRequests(t) : Elsewhere(q)
  <2>1. ASSUME NEW group PROVE Leads(addGroupMembershipURL(group), "groups")
    BY Lists, LeadsV2 DEF addGroupMembershipURL
  <2>2. ASSUME NEW group, NEW member PROVE Leads(removeGroupMembershipURL(group, member), "groups")
    BY <2>1, Lists, LeadsOn DEF removeGroupMembershipURL
  <2>3. ASSUME NEW group, NEW member
        PROVE  Elsewhere(AddGroupMemberRequest(group)) /\ Elsewhere(RemoveGroupMemberRequest(group, member))
    BY <1>0, <1>m, <2>1, <2>2, AskedElsewhere DEF AddGroupMemberRequest, RemoveGroupMemberRequest
  <2> QED BY <2>3 DEF GroupRequests
<1>4. \A q \in StaticSecretRequests(t) : Elsewhere(q) \/ q = BatchRetrieveSecretsRequest
  <2>1. ASSUME NEW rest, IsList(rest) PROVE Leads(staticSecretURL(t, rest), "secrets/static")
    <3> DEFINE w == Word("secrets/static")
    <3> HIDE DEF w
    <3>1. IsList(<<w, Raw(t)>>) /\ Len(<<w, Raw(t)>>) = 2 /\ <<w, Raw(t)>>[1] = w
      BY Lists
    <3>2. /\ IsList(<<w, Raw(t)>> \o rest) /\ (<<w, Raw(t)>> \o rest)[1] = w
          /\ Len(<<w, Raw(t)>> \o rest) >= 1
      BY <2>1, <3>1, Continued, ListLen
    <3>3. Leads(makeRouterURL(ApplianceURL, <<w, Raw(t)>> \o rest), "secrets/static")
      BY <3>2, LeadsFrom DEF w
    <3> QED BY <3>3 DEF staticSecretURL, w
  <2>2. Elsewhere(GetStaticSecretDetailsRequest(t)) /\ Elsewhere(GetStaticSecretPermissionsRequest(t))
    BY <1>0, <2>1, Lists, AskedElsewhere
       DEF GetStaticSecretDetailsRequest, GetStaticSecretPermissionsRequest
  <2>3. Elsewhere(CreateStaticSecretRequest)
    BY <1>0, LeadsWord, AskedElsewhere DEF CreateStaticSecretRequest
  <2>4. Elsewhere(CertificateIssueRequest(t)) /\ Elsewhere(CertificateSignRequest(t))
    BY <1>0, LeadsWord, AskedElsewhere DEF CertificateIssueRequest, CertificateSignRequest
  <2> QED BY <2>2, <2>3, <2>4 DEF StaticSecretRequests
<1> QED BY <1>1, <1>2, <1>3, <1>4

-----------------------------------------------------------------------------
(* What the server reads.  A component of a path is kept if it does not    *)
(* vanish and nothing in it is changed by the way it is written.           *)
Vanishes(text) == text \in {<<t>> : t \in Vanishing}

Kept(c) ==
    /\ IsList(c.text) /\ ~Vanishes(c.text)
    /\ c.as = "query" => \A j \in DOMAIN c.text : c.text[j] \notin Spaced
    /\ c.as = "raw" => \A j \in DOMAIN c.text : c.text[j] \notin Unsafe

AllKept(path) == IsList(path) /\ \A i \in 1 .. Len(path) : Kept(path[i])

LEMMA PartKept ==
    ASSUME NEW c, Kept(c), NEW j \in DOMAIN c.text
    PROVE  (CASE c.as = "query" /\ c.text[j] \in Spaced -> Plus[c.text[j]]
              [] c.as = "raw" /\ c.text[j] \in Unsafe   -> Garbled
              [] OTHER                                  -> c.text[j]) = c.text[j]
<1>1. ~(c.as = "query" /\ c.text[j] \in Spaced)
  BY DEF Kept
<1>2. ~(c.as = "raw" /\ c.text[j] \in Unsafe)
  BY DEF Kept
<1> QED BY <1>1, <1>2

LEMMA ListIs ==
    ASSUME NEW s, IsList(s)
    PROVE  [i \in DOMAIN s |-> s[i]] = s
<1>1. PICK S : s \in Seq(S)
  BY DEF IsList
<1>2. s \in [1 .. Len(s) -> S]
  BY <1>1, LenProperties
<1> QED BY <1>2

LEMMA PathKept ==
    ASSUME NEW path, AllKept(path)
    PROVE  PathReading(path) = Intended(path)
<1>1. DOMAIN path = 1 .. Len(path)
  BY ListLen DEF AllKept
<1>2. ~ \E i \in DOMAIN path : path[i].text \in {<<t>> : t \in Vanishing}
  BY <1>1 DEF AllKept, Kept, Vanishes
<1> DEFINE read(i) == [j \in DOMAIN path[i].text |->
                          LET part == path[i].text[j] IN
                          CASE path[i].as = "query" /\ part \in Spaced -> Plus[part]
                            [] path[i].as = "raw" /\ part \in Unsafe   -> Garbled
                            [] OTHER                                   -> part]
<1>3. ASSUME NEW i \in DOMAIN path PROVE read(i) = path[i].text
  <2>1. Kept(path[i])
    BY <1>1, <1>3 DEF AllKept
  <2>2. read(i) = [j \in DOMAIN path[i].text |-> path[i].text[j]]
    BY <2>1, PartKept
  <2>3. [j \in DOMAIN path[i].text |-> path[i].text[j]] = path[i].text
    BY <2>1, ListIs DEF Kept
  <2> QED BY <2>2, <2>3
<1>4. PathReading(path) = [i \in DOMAIN path |-> read(i)]
  BY <1>2 DEF PathReading
<1> HIDE DEF read
<1>5. [i \in DOMAIN path |-> read(i)] = [i \in DOMAIN path |-> path[i].text]
  BY <1>3
<1> QED BY <1>4, <1>5 DEF Intended

(* Components one by one.                                                *)
LEMMA KeptWhole ==
    /\ AllKept(<<>>) /\ \A a : Kept(a) => AllKept(<<a>>)
    /\ \A a, b : Kept(a) /\ Kept(b) => AllKept(<<a, b>>)
<1>1. AllKept(<<>>)
  BY Lists DEF AllKept
<1>2. ASSUME NEW a, Kept(a) PROVE AllKept(<<a>>)
  <2>1. IsList(<<a>>) /\ Len(<<a>>) = 1 /\ <<a>>[1] = a
    BY Lists
  <2> QED BY <1>2, <2>1 DEF AllKept
<1>3. ASSUME NEW a, NEW b, Kept(a), Kept(b) PROVE AllKept(<<a, b>>)
  <2>1. IsList(<<a, b>>) /\ Len(<<a, b>>) = 2 /\ <<a, b>>[1] = a /\ <<a, b>>[2] = b
    BY Lists
  <2> QED BY <1>3, <2>1 DEF AllKept
<1> QED BY <1>1, <1>2, <1>3

LEMMA KeptOn ==
    ASSUME NEW s, NEW t, AllKept(s), AllKept(t)
    PROVE  AllKept(s \o t)
<1>1. /\ IsList(s \o t)
      /\ \A i \in 1 .. Len(s \o t) :
            \/ i \in 1 .. Len(s) /\ (s \o t)[i] = s[i]
            \/ \E j \in 1 .. Len(t) : (s \o t)[i] = t[j]
  BY Continued DEF AllKept
<1> QED BY <1>1 DEF AllKept

(* The words of the addresses, the account and the kinds are kept as they  *)
(* are, and a text that is path-escaped is, whatever its characters.       *)
LEMMA WordKept ==
    ASSUME NEW x, x \notin Vanishing, x \notin Unsafe
    PROVE  Kept(Raw(<<x>>)) /\ Kept(Word(x))
<1>1. IsList(<<x>>) /\ ~Vanishes(<<x>>) /\ DOMAIN <<x>> = {1} /\ <<x>>[1] = x
  BY Lists DEF Vanishes
<1>2. Raw(<<x>>).text = <<x>> /\ Raw(<<x>>).as = "raw" /\ Raw(<<x>>).as # "query"
  BY DEF Raw, As
<1>3. Kept(Raw(<<x>>))
  BY <1>1, <1>2 DEF Kept
<1> QED BY <1>3 DEF Word

LEMMA EscapeKept ==
    ASSUME NEW text, IsList(text), ~Vanishes(text)
    PROVE  /\ Kept(PathEscape(text))
           /\ (\A j \in DOMAIN text : text[j] \notin Spaced) => Kept(QueryEscape(text))
<1>1. /\ PathEscape(text).text = text
      /\ PathEscape(text).as # "query" /\ PathEscape(text).as # "raw"
  BY DEF PathEscape, As
<1>2. /\ QueryEscape(text).text = text
      /\ QueryEscape(text).as # "raw"
  BY DEF QueryEscape, As
<1> QED BY <1>1, <1>2 DEF Kept

LEMMA OwnWordsKept ==
    /\ \A x \in {"secrets", "values", "version", "workloads", "resources", "roles", "policies"} :
          Kept(Word(x))
    /\ Kept(Raw(<<Account>>))
    /\ \A kind \in Kinds : Kept(Raw(<<kind>>))
BY WordKept, RequestAssumption

(* The query has at most one word.                                         *)
LEMMA QueryKept ==
    /\ QueryReading(<<>>) = Intended(<<>>)
    /\ QueryReading(<<Word("version")>>) = Intended(<<Word("version")>>)
<1>1. QueryReading(<<>>) = Intended(<<>>)
  BY DEF QueryReading, Intended
<1>2. QueryReading(<<Word("version")>>) = Intended(<<Word("version")>>)
  <2> DEFINE q == <<Word("version")>>
  <2>1. DOMAIN q = {1} /\ q[1] = Word("version")
    OBVIOUS
  <2>2. Word("version").text = <<"version">> /\ Word("version").as = "raw"
    BY DEF Word, Raw, As
  <2>3. "version" \notin Unsafe \cup Spaced \cup {Plus[s] : s \in Spaced}
    BY RequestAssumption
  <2> HIDE DEF q
  <2> DEFINE read(i) == [j \in DOMAIN q[i].text |->
                           LET part == q[i].text[j] IN
                           CASE q[i].as = "raw" /\ part \in Unsafe \cup Spaced
                                                     \cup {Plus[s] : s \in Spaced} -> Garbled
                             [] q[i].as = "item" /\ part \in Commas                -> Garbled
                             [] OTHER                                              -> part]
  <2>4. read(1) = q[1].text
    <3>1. DOMAIN q[1].text = {1} /\ q[1].text[1] = "version" /\ q[1].as = "raw" /\ q[1].as # "item"
      BY <2>1, <2>2
    <3>2. read(1) = [j \in {1} |-> "version"]
      BY <2>3, <3>1
    <3>3. <<"version">> = [j \in {1} |-> "version"]
      OBVIOUS
    <3> QED BY <2>1, <2>2, <3>2, <3>3
  <2>5. QueryReading(q) = [i \in DOMAIN q |-> read(i)]
    BY DEF QueryReading
  <2> HIDE DEF read
  <2>6. [i \in DOMAIN q |-> read(i)] = [i \in DOMAIN q |-> q[i].text]
    BY <2>1, <2>4
  <2> QED BY <2>5, <2>6 DEF Intended, q
<1> QED BY <1>1, <1>2

-----------------------------------------------------------------------------
(* The three properties, of a request r that is about the resource t.      *)
ServiceOf(r) == IF r.url.path = <<>> THEN "" ELSE r.url.path[1].text[1]

SecretFine(r) ==
    r # Malformed /\ ServiceOf(r) = "secrets" /\ Len(r.url.path) > 1
    /\ ~Vanishes(r.url.path[Len(r.url.path)].text)
        => Exact(r.url)

Plainly(t) ==
    /\ t # Malformed
    /\ {t.account, t.kind} \cap (Vanishing \cup Unsafe) = {}
    /\ \A i \in DOMAIN t.name : t.name[i] \notin Spaced
    /\ ~Vanishes(t.name)

RoleFine(r, t) ==
    r # Malformed /\ ServiceOf(r) \in {"resources", "roles", "policies"} /\ Plainly(t)
        => PathReading(r.url.path) = Intended(r.url.path)

WorkloadFine(r) == r # Malformed /\ ServiceOf(r) = "workloads" => Exact(r.url)

Fine(r, t) == SecretFine(r) /\ RoleFine(r, t) /\ WorkloadFine(r)

LEMMA FineRequest ==
    Fine(request, target) <=> SecretReached /\ RoleReached /\ WorkloadReached
BY DEF Fine, SecretFine, RoleFine, WorkloadFine, Plainly, Vanishes, ServiceOf, Service,
       SecretReached, RoleReached, WorkloadReached

LEMMA FineElsewhere ==
    ASSUME NEW r, Elsewhere(r), NEW t
    PROVE  Fine(r, t)
<1> SUFFICES ASSUME r # Malformed
             PROVE  ServiceOf(r) \notin {"secrets", "resources", "roles", "policies", "workloads"}
  BY DEF Fine, SecretFine, RoleFine, WorkloadFine
<1>1. CASE r.url.path = <<>>
  BY <1>1 DEF ServiceOf
<1>2. CASE r.url.path # <<>>
  <2>1. PICK word : Apart(word) /\ Leads(r.url, word)
    BY <1>2 DEF Elsewhere
  <2>2. r.url.path[1].text = <<word>>
    BY <2>1 DEF Leads, Word, Raw, As
  <2>3. ServiceOf(r) = word
    BY <1>2, <2>2 DEF ServiceOf
  <2> QED BY <2>1, <2>3 DEF Apart
<1> QED BY <1>1, <1>2

LEMMA FineExact ==
    ASSUME NEW r, NEW t, Exact(r.url)
    PROVE  Fine(r, t)
BY DEF Exact, Fine, SecretFine, RoleFine, WorkloadFine

(* A request whose path is kept, and whose query is.                       *)
LEMMA FineKept ==
    ASSUME NEW r, NEW t, AllKept(r.url.path), r.url.query \in {<<>>, <<Word("version")>>}
    PROVE  Fine(r, t)
<1>1. PathReading(r.url.path) = Intended(r.url.path)
  BY PathKept
<1>2. QueryReading(r.url.query) = Intended(r.url.query)
  BY QueryKept
<1> QED BY <1>1, <1>2, FineExact DEF Exact

LEMMA Malfine == \A t : Fine(Malformed, t)
BY DEF Fine, SecretFine, RoleFine, WorkloadFine

(* The path of a request about a resource: its service, account and kind,  *)
(* and its name, escaped in one way or the other.                          *)
PathOf(word, r, name) ==
    <<Word(word), Raw(<<r.account>>)>> \o <<Raw(<<r.kind>>), name>>

LEMMA ResourcePaths ==
    ASSUME NEW r
    PROVE  /\ OfResource(r).path = PathOf("resources", r, QueryEscape(r.name))
           /\ OfRole(r).path = PathOf("roles", r, QueryEscape(r.name))
           /\ OfPolicy(r).path = PathOf("policies", r, QueryEscape(r.name))
           /\ variableURL(r).path = PathOf("secrets", r, PathEscape(r.name))
           /\ variableURL(r).query = <<>>
<1>1. ASSUME NEW word, NEW name
      PROVE  LET base == makeRouterURL(ApplianceURL, <<Word(word), Raw(<<r.account>>)>>)
                 url  == makeRouterURL(base, <<Raw(<<r.kind>>), name>>)
             IN  url.path = PathOf(word, r, name) /\ url.query = <<>>
  <2> DEFINE base == makeRouterURL(ApplianceURL, <<Word(word), Raw(<<r.account>>)>>)
  <2>1. Below(base) /\ base.path = <<Word(word), Raw(<<r.account>>)>> /\ base.query = <<>>
    BY Lists, FromAppliance, MadePath
  <2> HIDE DEF base
  <2>2. /\ makeRouterURL(base, <<Raw(<<r.kind>>), name>>).path
              = base.path \o <<Raw(<<r.kind>>), name>>
        /\ makeRouterURL(base, <<Raw(<<r.kind>>), name>>).query = base.query
    BY <2>1, LongerPath
  <2> QED BY <2>1, <2>2 DEF PathOf, base
<1> QED BY <1>1 DEF OfResource, OfRole, OfPolicy, variableURL, resourcesURL, rolesURL, policiesURL,
                    secretsURL

LEMMA FourParts ==
    ASSUME NEW a, NEW b, NEW c, NEW d
    PROVE  /\ <<a, b>> \o <<c, d>> # <<>> /\ Len(<<a, b>> \o <<c, d>>) = 4
           /\ (<<a, b>> \o <<c, d>>)[1] = a /\ (<<a, b>> \o <<c, d>>)[4] = d
<1> DEFINE S == {a, b, c, d}
           s == <<a, b>>
           t == <<c, d>>
<1>1. s \in Seq(S) /\ t \in Seq(S)
  OBVIOUS
<1>2. Len(s) = 2 /\ Len(t) = 2 /\ s[1] = a /\ t[2] = d
  OBVIOUS
<1> HIDE DEF S, s, t
<1>3. /\ s \o t \in Seq(S)
      /\ Len(s \o t) = Len(s) + Len(t)
      /\ \A i \in 1 .. Len(s) + Len(t) : (s \o t)[i] = IF i <= Len(s) THEN s[i] ELSE t[i - Len(s)]
  BY <1>1, ConcatProperties
<1>4. (s \o t)[1] = s[1] /\ (s \o t)[4] = t[2] /\ Len(s \o t) = 4
  BY <1>2, <1>3
<1>5. s \o t # <<>>
  BY <1>3, <1>4
<1> QED BY <1>2, <1>4, <1>5 DEF s, t

LEMMA PathOfIs ==
    ASSUME NEW word, NEW r, NEW name
    PROVE  /\ PathOf(word, r, name) # <<>> /\ Len(PathOf(word, r, name)) = 4
           /\ PathOf(word, r, name)[1] = Word(word) /\ PathOf(word, r, name)[4] = name
<1> DEFINE w == Word(word)
           a == Raw(<<r.account>>)
           k == Raw(<<r.kind>>)
<1> HIDE DEF w, a, k
<1>1. PathOf(word, r, name) = <<w, a>> \o <<k, name>>
  BY DEF PathOf, w, a, k
<1>2. /\ <<w, a>> \o <<k, name>> # <<>> /\ Len(<<w, a>> \o <<k, name>>) = 4
      /\ (<<w, a>> \o <<k, name>>)[1] = w /\ (<<w, a>> \o <<k, name>>)[4] = name
  BY FourParts
<1> QED BY <1>1, <1>2 DEF w

LEMMA PathOfKept ==
    ASSUME NEW word, NEW r, NEW name, Kept(Word(word)), Kept(Raw(<<r.account>>)),
           Kept(Raw(<<r.kind>>)), Kept(name)
    PROVE  AllKept(PathOf(word, r, name))
<1>1. AllKept(<<Word(word), Raw(<<r.account>>)>>) /\ AllKept(<<Raw(<<r.kind>>), name>>)
  BY KeptWhole
<1> QED BY <1>1, KeptOn DEF PathOf

-----------------------------------------------------------------------------
(* Which API a request is of is told by the first word of its path.        *)
LEMMA ServiceIs ==
    ASSUME NEW q, NEW word, q.url.path # <<>>, q.url.path[1] = Word(word)
    PROVE  ServiceOf(q) = word
<1>1. Word(word).text = <<word>>
  BY DEF Word, Raw, As
<1> QED BY <1>1 DEF ServiceOf

(* One about the ID's resource, role or policy.                            *)
LEMMA RoleFineAt ==
    ASSUME NEW word \in {"resources", "roles", "policies"}, NEW r, IsList(r.name),
           NEW q, q.url.path = PathOf(word, r, QueryEscape(r.name))
    PROVE  Fine(q, r)
<1>0. q.url.path # <<>> /\ q.url.path[1] = Word(word)
  BY PathOfIs
<1>1. ServiceOf(q) = word
  BY <1>0, ServiceIs
<1>2. SecretFine(q) /\ WorkloadFine(q)
  BY <1>1 DEF SecretFine, WorkloadFine
<1>3. ASSUME Plainly(r) PROVE PathReading(q.url.path) = Intended(q.url.path)
  <2>1. /\ r.account \notin Vanishing /\ r.account \notin Unsafe
        /\ r.kind \notin Vanishing /\ r.kind \notin Unsafe
        /\ ~Vanishes(r.name) /\ \A j \in DOMAIN r.name : r.name[j] \notin Spaced
    BY <1>3 DEF Plainly
  <2>2. Kept(Raw(<<r.account>>)) /\ Kept(Raw(<<r.kind>>))
    BY <2>1, WordKept
  <2>3. Kept(QueryEscape(r.name))
    BY <2>1, EscapeKept
  <2>4. Kept(Word(word))
    BY OwnWordsKept
  <2>5. AllKept(q.url.path)
    BY <2>2, <2>3, <2>4, PathOfKept
  <2> QED BY <2>5, PathKept
<1>4. RoleFine(q, r)
  BY <1>3 DEF RoleFine
<1> QED BY <1>2, <1>4 DEF Fine

LEMMA RolesFine ==
    ASSUME client.host \in Host, NEW r, IsList(r.name)
    PROVE  \A q \in RoleIDRequests(r) \cup PolicyRequests(r) : Fine(q, r)
<1>0. Below(OfResource(r)) /\ Below(OfRole(r)) /\ Below(OfPolicy(r))
  BY ResourceURLs
<1>1. ASSUME NEW url \in {OfResource(r), OfRole(r), OfPolicy(r)}, NEW method
      PROVE  /\ Fine(Request(method, url), r)
             /\ \A values : Fine(Request(method, withQuery(url, values)), r)
  <2>1. PICK word \in {"resources", "roles", "policies"} :
           url.path = PathOf(word, r, QueryEscape(r.name))
    BY ResourcePaths
  <2>2. Request(method, url).url = url
    BY DEF Request
  <2>3. Fine(Request(method, url), r)
    BY <2>1, <2>2, RoleFineAt
  <2>4. ASSUME NEW values PROVE Fine(Request(method, withQuery(url, values)), r)
    <3>1. Request(method, withQuery(url, values)).url.path = url.path
      BY <1>0, LongerPath DEF Request
    <3> QED BY <2>1, <3>1, RoleFineAt
  <2> QED BY <2>3, <2>4
<1>2. \A q \in RoleIDRequests(r) : Fine(q, r)
  <2>1. /\ Fine(CheckPermissionRequest(r), r) /\ Fine(ResourceRequest(r), r)
        /\ Fine(PermittedRolesRequest(r), r)
    BY <1>1 DEF CheckPermissionRequest, ResourceRequest, PermittedRolesRequest
  <2>2. /\ Fine(RoleRequest(r), r) /\ Fine(RoleMembersRequest(r), r)
        /\ \A query : Fine(RoleMembershipsRequest(r, query), r)
    BY <1>1 DEF RoleRequest, RoleMembersRequest, RoleMembershipsRequest
  <2>3. \A roleID : Fine(CheckPermissionForRoleRequest(r, roleID), r)
    BY <1>1, Malfine DEF CheckPermissionForRoleRequest
  <2> QED BY <2>1, <2>2, <2>3 DEF RoleIDRequests
<1>3. \A q \in PolicyRequests(r) : Fine(q, r)
  <2>1. /\ Fine(fetchPolicyRequest(r), r)
        /\ \A method, query : Fine(LoadPolicyRequest(r, method, query), r)
    BY <1>1 DEF fetchPolicyRequest, LoadPolicyRequest
  <2> QED BY <2>1 DEF PolicyRequests
<1> QED BY <1>2, <1>3

(* One about the ID's variable, which is of the client's account.          *)
LEMMA SecretFineAt ==
    ASSUME NEW r, IsList(r.name), r.account = Account, r.kind \in Kinds,
           NEW q, q.url.path = PathOf("secrets", r, PathEscape(r.name)),
           q.url.query \in {<<>>, <<Word("version")>>}
    PROVE  Fine(q, r)
<1> DEFINE path == PathOf("secrets", r, PathEscape(r.name))
<1>1. path # <<>> /\ Len(path) = 4 /\ path[1] = Word("secrets") /\ path[4] = PathEscape(r.name)
  BY PathOfIs
<1>2. Kept(PathEscape(r.name)) => AllKept(path)
  BY PathOfKept, OwnWordsKept
<1> HIDE DEF path
<1>3. ServiceOf(q) = "secrets"
  BY <1>1, ServiceIs DEF path
<1>4. RoleFine(q, r) /\ WorkloadFine(q)
  BY <1>3 DEF RoleFine, WorkloadFine
<1>5. ASSUME ~Vanishes(q.url.path[Len(q.url.path)].text) PROVE Fine(q, r)
  <2>1. q.url.path = path
    BY DEF path
  <2>2. PathEscape(r.name).text = r.name
    BY DEF PathEscape, As
  <2>3. ~Vanishes(r.name)
    BY <1>1, <1>5, <2>1, <2>2
  <2>4. AllKept(q.url.path)
    BY <1>2, <2>1, <2>3, EscapeKept
  <2> QED BY <2>4, FineKept
<1>6. SecretFine(q)
  BY <1>5 DEF Fine, SecretFine
<1> QED BY <1>4, <1>6 DEF Fine

LEMMA SecretsFine ==
    ASSUME client.host \in Host, NEW r, IsList(r.name), r.account = Account, r.kind \in Kinds
    PROVE  \A q \in SecretRequests(r) : Fine(q, r)
<1> DEFINE url == variableURL(r)
<1>1. Below(url) /\ url.path = PathOf("secrets", r, PathEscape(r.name)) /\ url.query = <<>>
  BY ResourceURLs, ResourcePaths
<1> HIDE DEF url
<1>2. /\ withQuery(url, <<Word("version")>>).path = url.path
      /\ withQuery(url, <<Word("version")>>).query = <<Word("version")>>
  BY <1>1, LongerPath
<1>3. \A method : Fine(Request(method, url), r)
  BY <1>1, SecretFineAt DEF Request
<1>4. \A method : Fine(Request(method, withQuery(url, <<Word("version")>>)), r)
  BY <1>1, <1>2, SecretFineAt DEF Request
<1>5. Fine(RetrieveSecretRequest(r), r) /\ Fine(AddSecretRequest(r), r)
  BY <1>3 DEF RetrieveSecretRequest, AddSecretRequest, url
<1>6. Fine(RetrieveSecretWithVersionRequest(r), r)
  BY <1>4 DEF RetrieveSecretWithVersionRequest, url
<1> QED BY <1>5, <1>6 DEF SecretRequests


(* One about a workload: what would vanish from its path is refused.       *)
LEMMA WorkloadFineAt ==
    ASSUME NEW method, NEW texts, IsList(texts), \A i \in 1 .. Len(texts) : IsList(texts[i]),
           NEW t
    PROVE  Fine(OfWorkload(method, texts), t)
<1> DEFINE escaped == [i \in DOMAIN texts |-> PathEscape(texts[i])]
           url == makeRouterURL(ApplianceURL, <<Word("workloads")>> \o escaped)
<1>1. DOMAIN texts = 1 .. Len(texts) /\ Len(texts) \in Nat
  BY ListLen
<1>2. CASE \E i \in DOMAIN texts : Vanishes(texts[i])
  <2>1. escapePathSegments(texts) = Malformed
    BY <1>2 DEF escapePathSegments, Vanishes
  <2>2. OfWorkload(method, texts) = Malformed
    BY <2>1 DEF OfWorkload
  <2> QED BY <2>2, Malfine
<1>3. CASE ~ \E i \in DOMAIN texts : Vanishes(texts[i])
  <2>1. escapePathSegments(texts) = escaped
    BY <1>3 DEF escapePathSegments, Vanishes
  <2>2. AllKept(escaped)
    <3>1. escaped \in Seq({PathEscape(texts[i]) : i \in DOMAIN texts})
      BY <1>1
    <3>2. IsList(escaped)
      BY <3>1 DEF IsList
    <3>3. Len(escaped) = Len(texts)
      BY <1>1, <3>1
    <3>4. ASSUME NEW i \in 1 .. Len(escaped) PROVE Kept(escaped[i])
      BY <1>1, <1>3, <3>3, EscapeKept
    <3> QED BY <3>2, <3>4 DEF AllKept
  <2> HIDE DEF escaped
  <2>3. AllKept(<<Word("workloads")>> \o escaped)
    BY <2>2, OwnWordsKept, KeptWhole, KeptOn
  <2>4. url.path = <<Word("workloads")>> \o escaped /\ url.query = <<>>
    BY <2>3, MadePath DEF AllKept
  <2> HIDE DEF url
  <2>5. Fine(Request(method, url), t)
    <3>1. AllKept(url.path) /\ url.query \in {<<>>, <<Word("version")>>}
      BY <2>3, <2>4
    <3>2. Request(method, url).url = url
      BY DEF Request
    <3> QED BY <3>1, <3>2, FineKept
  <2>6. OfWorkload(method, texts) = Malformed \/ OfWorkload(method, texts) = Request(method, url)
    BY <2>1 DEF OfWorkload, url
  <2> QED BY <2>5, <2>6, Malfine
<1> QED BY <1>2, <1>3

LEMMA WorkloadsFine ==
    ASSUME NEW text, IsList(text), NEW t
    PROVE  \A q \in WorkloadRequests(text) : Fine(q, t)
<1>1. Fine(CreateWorkloadRequest, t)
  <2> DEFINE url == makeRouterURL(ApplianceURL, <<Word("workloads")>>)
  <2>1. AllKept(url.path) /\ url.query = <<>>
    BY OwnWordsKept, KeptWhole, Lists, MadePath
  <2> HIDE DEF url
  <2>2. Fine(Request("POST", url), t)
    BY <2>1, FineKept DEF Request
  <2> QED BY <2>2 DEF CreateWorkloadRequest, workloadsURL, url
<1>2. \A method : Fine(OfWorkload(method, <<text>>), t)
  <2>1. IsList(<<text>>) /\ \A i \in 1 .. Len(<<text>>) : IsList(<<text>>[i])
    BY Lists
  <2> QED BY <2>1, WorkloadFineAt
<1>3. ASSUME NEW a, NEW b, NEW c, NEW d, IsList(a), IsList(b), IsList(c), IsList(d), NEW method
      PROVE  Fine(OfWorkload(method, <<a, b, c, d>>), t)
  <2>1. IsList(<<a, b, c, d>>)
    BY Lists
  <2>2. Len(<<a, b, c, d>>) = 4 /\ \A i \in 1 .. 4 : IsList(<<a, b, c, d>>[i])
    BY <1>3
  <2> QED BY <2>1, <2>2, WorkloadFineAt
<1>4. /\ Fine(UpdateAuthnDescriptorRequest(text, <<"jwt">>, <<"service">>), t)
      /\ Fine(UpdateAuthnDescriptorRequest(<<"workload">>, <<"jwt">>, text), t)
  BY <1>3, Lists DEF UpdateAuthnDescriptorRequest
<1> QED BY <1>1, <1>2, <1>4
        DEF WorkloadRequests, DeleteWorkloadRequest, GetWorkloadRequest, UpdateWorkloadRequest

(* Those that are not about one variable or one resource.                  *)
LEMMA ManyFine ==
    ASSUME NEW t
    PROVE  /\ \A text : Fine(resourcesRequest(text), t)
           /\ Fine(BatchRetrieveSecretsRequest, t)
           /\ \A ids : Fine(RetrieveBatchSecretsRequest(ids), t)
<1>1. ASSUME NEW text PROVE Fine(resourcesRequest(text), t)
  <2> DEFINE path == <<Word("resources"), Raw(<<Account>>)>>
             base == makeRouterURL(ApplianceURL, path)
             q == resourcesRequest(text)
  <2>1. AllKept(path) /\ path # <<>> /\ path[1] = Word("resources")
    BY OwnWordsKept, KeptWhole
  <2> HIDE DEF path
  <2>2. Below(base) /\ base.path = path
    BY <2>1, FromAppliance, MadePath DEF AllKept
  <2> HIDE DEF base
  <2>3. q.url.path = path
    BY <2>2, LongerPath DEF resourcesRequest, resourcesURL, Request, base, path
  <2> HIDE DEF q
  <2>4. ServiceOf(q) = "resources"
    BY <2>1, <2>3, ServiceIs
  <2>5. PathReading(q.url.path) = Intended(q.url.path)
    BY <2>1, <2>3, PathKept
  <2>6. Fine(q, t)
    BY <2>4, <2>5 DEF Fine, SecretFine, RoleFine, WorkloadFine
  <2> QED BY <2>6 DEF q
<1>2. Fine(BatchRetrieveSecretsRequest, t)
  <2> DEFINE path == <<Word("secrets")>> \o V2Account \o <<Word("values")>>
             url == makeRouterURL(ApplianceURL, path)
  <2>1. AllKept(V2Account)
    BY OwnWordsKept, KeptWhole DEF V2Account
  <2>2. AllKept(path)
    <3>1. AllKept(<<Word("secrets")>>) /\ AllKept(<<Word("values")>>)
      BY OwnWordsKept, KeptWhole
    <3> QED BY <2>1, <3>1, KeptOn
  <2> HIDE DEF path
  <2>3. url.path = path /\ url.query = <<>>
    BY <2>2, MadePath DEF AllKept
  <2> HIDE DEF url
  <2>4. Fine(Request("POST", url), t)
    BY <2>2, <2>3, FineKept DEF Request
  <2> QED BY <2>4 DEF BatchRetrieveSecretsRequest, url, path
<1>3. ASSUME NEW ids PROVE Fine(RetrieveBatchSecretsRequest(ids), t)
  <2> DEFINE path == <<Word("secrets")>>
             base == makeRouterURL(ApplianceURL, path)
             q == RetrieveBatchSecretsRequest(ids)
  <2>1. IsList(path) /\ Len(path) = 1 /\ path # <<>> /\ path[1] = Word("secrets")
    BY Lists
  <2> HIDE DEF path
  <2>2. Below(base) /\ base.path = path
    BY <2>1, FromAppliance, MadePath
  <2> HIDE DEF base
  <2>3. q.url.path = path
    BY <2>2, LongerPath DEF RetrieveBatchSecretsRequest, Request, base, path
  <2> HIDE DEF q
  <2>4. ServiceOf(q) = "secrets"
    BY <2>1, <2>3, ServiceIs
  <2>5. ~(Len(q.url.path) > 1)
    <3>1. ~(Len(path) > 1)
      BY DEF path
    <3> QED BY <2>3, <3>1
  <2>6. Fine(q, t)
    BY <2>4, <2>5 DEF Fine, SecretFine, RoleFine, WorkloadFine
  <2> QED BY <2>6 DEF q
<1> QED BY <1>1, <1>2, <1>3


-----------------------------------------------------------------------------
FineInv == client \in Clients /\ TypeOK /\ Fine(request, target)

(* What a step asks for is fine for the resource that it is about.         *)
LEMMA Sent ==
    ASSUME NEW requests, Send(requests),
           target' # Malformed => \A q \in requests : Fine(q, target')
    PROVE  Fine(request', target')
<1>1. CASE target' = Malformed
  BY <1>1, Malfine DEF Send
<1>2. CASE target' # Malformed
  BY <1>2 DEF Send
<1> QED BY <1>1, <1>2

LEMMA AddressFine ==
    ASSUME client.host \in Host, NEW part \in Parts, Address(<<part>>)
    PROVE  Fine(request', target')
<1> DEFINE text == <<part>>
<1>1. IsList(text)
  BY Lists
<1> HIDE DEF text
<1>2. /\ target' = target
      /\ \/ request' \in LoginRequests(text) \cup ServiceRequests(text)
         \/ request' \in HostFactoryRequests(text) \cup IssuerRequests(text)
                           \cup LdapMappingRequests(text)
         \/ request' \in AuthenticatorRequests(text) \cup BranchRequests(text)
                           \cup GroupRequests(text) \cup StaticSecretRequests(text)
         \/ request' \in WorkloadRequests(text)
  BY DEF Address, text
<1>3. CASE request' \in LoginRequests(text) \cup ServiceRequests(text)
  BY <1>3, AuthnElsewhere, FineElsewhere
<1>4. CASE request' \in HostFactoryRequests(text) \cup IssuerRequests(text)
                          \cup LdapMappingRequests(text)
  <2>1. Elsewhere(request') \/ request' = resourcesRequest(text)
    BY <1>4, OtherElsewhere
  <2> QED BY <2>1, FineElsewhere, ManyFine
<1>5. CASE request' \in AuthenticatorRequests(text) \cup BranchRequests(text)
                          \cup GroupRequests(text) \cup StaticSecretRequests(text)
  <2>1. Elsewhere(request') \/ request' = BatchRetrieveSecretsRequest
    BY <1>5, V2Elsewhere
  <2> QED BY <2>1, FineElsewhere, ManyFine
<1>6. CASE request' \in WorkloadRequests(text)
  BY <1>1, <1>6, WorkloadsFine
<1> QED BY <1>2, <1>3, <1>4, <1>5, <1>6

LEMMA NamesAreLists ==
    ASSUME NEW r \in Resource
    PROVE  IsList(r.name)
BY DEF Resource, ID, IsList

LEMMA FineStep == FineInv /\ [RequestNext]_requestVars => FineInv'
<1> SUFFICES ASSUME FineInv, [RequestNext]_requestVars PROVE FineInv'
  OBVIOUS
<1>0. client.host \in Host /\ TypeOK
  BY RequestAssumption DEF FineInv
<1>1. TypeOK'
  BY <1>0, RequestStep, TypeStep
<1>2. IsList(target'.name) \/ target' = Malformed
  BY <1>1, NamesAreLists DEF TypeOK
<1>3. ASSUME UNCHANGED client, Fine(request', target') PROVE FineInv'
  BY <1>1, <1>3 DEF FineInv
<1>4. CASE UNCHANGED requestVars
  BY <1>3, <1>4 DEF requestVars, FineInv
<1>5. ASSUME NEW part \in Parts, Address(<<part>>) PROVE FineInv'
  <2>1. UNCHANGED client
    BY <1>5 DEF Address
  <2> QED BY <1>0, <1>3, <1>5, <2>1, AddressFine
<1>6. ASSUME NEW requests, Send(requests),
             target' # Malformed => \A q \in requests : Fine(q, target')
      PROVE  FineInv'
  BY <1>3, <1>6, Sent DEF Send
<1>7. ASSUME NEW id \in ID, Secrets(id) PROVE FineInv'
  <2>1. "variable" \in Kinds /\ "variable" \in Parts \ {""}
    BY RequestAssumption, IdAssumption
  <2>2. target' = parseID(makeFullID(Account, "variable", id)) /\ Send(SecretRequests(target'))
    BY <1>7 DEF Secrets, Qualified, Call
  <2>3. target' # Malformed => target'.account = Account /\ target'.kind = "variable"
    BY <2>1, <2>2, QualifiedTarget
  <2>4. target' # Malformed => \A q \in SecretRequests(target') : Fine(q, target')
    BY <1>0, <1>2, <2>1, <2>3, SecretsFine
  <2> QED BY <1>6, <2>2, <2>4
<1>8. ASSUME NEW id, Policies(id) \/ Roles(id) PROVE FineInv'
  <2>1. Send(PolicyRequests(target')) \/ Send(RoleIDRequests(target'))
    BY <1>8 DEF Policies, Roles
  <2>2. target' # Malformed =>
           \A q \in RoleIDRequests(target') \cup PolicyRequests(target') : Fine(q, target')
    BY <1>0, <1>2, RolesFine
  <2> QED BY <1>6, <2>1, <2>2
<1>9. ASSUME NEW id, RetrieveBatchSecrets(id) PROVE FineInv'
  <2>1. Fine(RetrieveBatchSecretsRequest(<<id, id>>), target)
    BY ManyFine
  <2> QED BY <1>3, <1>9, <2>1 DEF RetrieveBatchSecrets
<1>10. ASSUME NEW id, NEW kind, RotateAPIKey(id) \/ RotateUserAPIKey(id, kind) PROVE FineInv'
  <2>1. ASSUME NEW r PROVE Elsewhere(RotateAPIKeyRequest(r))
    <3>1. Leads(makeRouterURL(authnURL("authn", <<"">>), <<Word("api_key")>>), "authn")
      BY <1>0, AuthnLeads, Lists, LeadsOn
    <3>2. Leads(withQuery(makeRouterURL(authnURL("authn", <<"">>), <<Word("api_key")>>),
                          <<Raw(Join(r))>>), "authn")
      BY <1>0, <3>1, Lists, LeadsOn
    <3>3. Apart("authn")
      BY DEF Apart
    <3> QED BY <3>2, <3>3, AskedElsewhere DEF RotateAPIKeyRequest
  <2>2. Send({RotateAPIKeyRequest(target')})
    BY <1>10 DEF RotateAPIKey, RotateUserAPIKey
  <2>3. Fine(RotateAPIKeyRequest(target'), target')
    BY <2>1, FineElsewhere
  <2> QED BY <1>6, <2>2, <2>3
<1>11. ASSUME NEW id, NEW kind, CreateToken(id, kind) PROVE FineInv'
  <2>1. Elsewhere(CreateTokenRequest)
    <3>1. Apart("host_factory_tokens")
      BY DEF Apart
    <3> QED BY <3>1, LeadsWord, AskedElsewhere DEF CreateTokenRequest
  <2>2. Send({CreateTokenRequest})
    BY <1>11 DEF CreateToken
  <2>3. Fine(CreateTokenRequest, target')
    BY <2>1, FineElsewhere
  <2> QED BY <1>6, <2>2, <2>3
<1>12. \A id \in GivenID : id \in ID
  BY <1>0, GivenIDs, GivenType
<1> QED BY <1>4, <1>5, <1>7, <1>8, <1>9, <1>10, <1>11, <1>12 DEF RequestNext

LEMMA AlwaysFine == RequestSpec => [](SecretReached /\ RoleReached /\ WorkloadReached)
<1>1. RequestInit => FineInv
  BY Malfine DEF RequestInit, Init, FineInv, TypeOK
<1>2. FineInv => SecretReached /\ RoleReached /\ WorkloadReached
  BY FineRequest DEF FineInv
<1> QED BY <1>1, <1>2, FineStep, PTL DEF RequestSpec

(* Whatever is in the ID of a variable, its value is read and written at   *)
(* the variable's own address, with or without a version: path.Join and    *)
(* url.PathEscape (requests.go variableURL) lose no part of it, except an  *)
(* identifier that is "." or "..".                                         *)
THEOREM SecretsReached == RequestSpec => []SecretReached
BY AlwaysFine, PTL

(* A request about a resource, a role or a policy has that resource's path *)
(* whenever nothing in the ID is one of those that url.QueryEscape and the *)
(* unescaped account and kind do not preserve.                             *)
THEOREM RolesReached == RequestSpec => []RoleReached
BY AlwaysFine, PTL

(* No name of a workload, authenticator or service makes a request about   *)
(* it one about something else: escapePathSegments refuses what path.Join  *)
(* would drop and url.PathEscape keeps the rest.                           *)
THEOREM WorkloadsReached == RequestSpec => []WorkloadReached
BY AlwaysFine, PTL
=============================================================================
