------------------------------ MODULE Requests ------------------------------
(***************************************************************************)
(* The requests that the client builds from what it is given: which        *)
(* address a text gets, how it is escaped on the way, and what the server  *)
(* reads from it (requests.go, router_url.go, requests_v2.go and the       *)
(* request builders of the V2 client).                                     *)
(*                                                                         *)
(* A text is a sequence of parts, as in ResourceId.  Of its characters     *)
(* only those count that some step of the way does not leave alone: a      *)
(* space, which url.QueryEscape writes as "+"; a "?", "#" or "%", or a     *)
(* ".." between slashes, which mean something else in a URL; a comma; and  *)
(* the texts that path.Join drops.  Slashes need no class: escaped or not, *)
(* the server reads the same identifier.                                   *)
(***************************************************************************)
EXTENDS ResourceId

CONSTANTS
    Plus,       \* for each part with a space, the part with "+" in its place
    Unsafe,     \* the parts that must be escaped to mean themselves in a URL
    Commas,     \* the parts with a comma
    HostIds,    \* the parts that begin with "host/"
    Vanishing,  \* "", "." and "..": path.Join drops or resolves them
    Clients,    \* the configurations: the appliance, and config.IsSaaS()
    RoleIds,    \* the second ID of CheckPermissionForRole (bound of the model)
    Garbled     \* a part that the server does not read as it was given

Spaced == DOMAIN Plus

(* An appliance URL: does it name the SaaS, does "/api" occur in it, and   *)
(* how often does its path begin with it?                                  *)
Host == [cloud : BOOLEAN, saysApi : BOOLEAN, prefixes : Nat]

ASSUME RequestAssumption ==
    /\ Plus \in [Spaced -> Parts \ Spaced]
    /\ Spaced \cup Unsafe \cup Commas \cup HostIds \subseteq Parts
    /\ Unsafe \cap Spaced = {} /\ Vanishing \cap HostIds = {}
    /\ "" \in Vanishing
    /\ {"variable", "policy"} \subseteq Kinds
    /\ Account \notin Spaced \cup Unsafe \cup Vanishing
    /\ Kinds \cap (Spaced \cup Unsafe \cup Vanishing) = {}
    /\ {"secrets", "values", "version", "workloads", "resources", "roles", "policies"}
          \cap (Spaced \cup Unsafe \cup Vanishing \cup {Plus[s] : s \in Spaced}) = {}
    /\ Clients \subseteq [host : Host, saas : BOOLEAN]
    /\ \A c \in Clients : c.host.prefixes > 0 => c.host.saysApi
    /\ RoleIds \subseteq ID
    /\ Garbled \notin Parts

VARIABLES
    client,     \* the configuration
    request     \* the latest request; Malformed if none was made

requestVars == <<asked, target, client, request>>

-----------------------------------------------------------------------------
(* router_url.go.  A URL holds its components with the way they were       *)
(* written, and the values that stand in its query.                        *)
As(text, way) == [text |-> text, as |-> way]
Raw(text) == As(text, "raw")
Word(word) == Raw(<<word>>)

\* Mutant of QueryEscape: the text is left as it is.
Unescaped(text) == Raw(text)

QueryEscape(text) == As(text, "query")

\* Mutant of PathEscape: the escape of query strings is used in the path.
FormEscape(text) == As(text, "query")

PathEscape(text) == As(text, "path")

\* Mutant of normalizeBaseURL: the prefix is added without a look.
AlwaysApi(host) ==
    IF host.cloud THEN [host EXCEPT !.saysApi = TRUE, !.prefixes = @ + 1] ELSE host

normalizeBaseURL(host) ==
    IF host.cloud /\ ~host.saysApi
    THEN [host EXCEPT !.saysApi = TRUE, !.prefixes = @ + 1]
    ELSE host

ApplianceURL == [host |-> client.host, path |-> <<>>, query |-> <<>>]

makeRouterURL(base, components) ==
    [base EXCEPT !.host = normalizeBaseURL(@), !.path = @ \o components]

withQuery(url, values) == [url EXCEPT !.query = values]

Request(method, url) == [method |-> method, url |-> url]

\* Mutant of escapePathSegments: the segments are only escaped.
EscapesAll(segments) == [i \in DOMAIN segments |-> PathEscape(segments[i])]

escapePathSegments(segments) ==
    IF \E i \in DOMAIN segments : segments[i] \in {<<t>> : t \in Vanishing}
    THEN Malformed
    ELSE [i \in DOMAIN segments |-> PathEscape(segments[i])]

(* What the server makes of a path: a query-escaped space is a plus there, *)
(* and one component that vanishes makes it another address.               *)
PathReading(path) ==
    IF \E i \in DOMAIN path : path[i].text \in {<<t>> : t \in Vanishing}
    THEN Garbled
    ELSE [i \in DOMAIN path |->
            [j \in DOMAIN path[i].text |->
               LET part == path[i].text[j] IN
               CASE path[i].as = "query" /\ part \in Spaced -> Plus[part]
                 [] path[i].as = "raw" /\ part \in Unsafe   -> Garbled
                 [] OTHER                                   -> part]]

(* What it makes of the query: a plus that stands there as it is becomes a *)
(* space, and a list is cut at every comma.                                *)
QueryReading(query) ==
    [i \in DOMAIN query |->
       [j \in DOMAIN query[i].text |->
          LET part == query[i].text[j] IN
          CASE query[i].as = "raw" /\ part \in Unsafe \cup Spaced
                                     \cup {Plus[s] : s \in Spaced} -> Garbled
            [] query[i].as = "item" /\ part \in Commas             -> Garbled
            [] OTHER                                               -> part]]

Intended(components) == [i \in DOMAIN components |-> components[i].text]

(* The server reads what the caller wrote.                                 *)
Exact(url) == /\ PathReading(url.path) = Intended(url.path)
              /\ QueryReading(url.query) = Intended(url.query)

-----------------------------------------------------------------------------
(* Requests about a resource or a role, whose ID has been parsed.          *)
resourcesURL(account) == makeRouterURL(ApplianceURL, <<Word("resources"), Raw(<<account>>)>>)
rolesURL(account) == makeRouterURL(ApplianceURL, <<Word("roles"), Raw(<<account>>)>>)
policiesURL(account) == makeRouterURL(ApplianceURL, <<Word("policies"), Raw(<<account>>)>>)
secretsURL(account) == makeRouterURL(ApplianceURL, <<Word("secrets"), Raw(<<account>>)>>)

OfResource(r) ==
    makeRouterURL(resourcesURL(r.account), <<Raw(<<r.kind>>), QueryEscape(r.name)>>)
OfRole(r) ==
    makeRouterURL(rolesURL(r.account), <<Raw(<<r.kind>>), QueryEscape(r.name)>>)
OfPolicy(r) ==
    makeRouterURL(policiesURL(r.account), <<Raw(<<r.kind>>), QueryEscape(r.name)>>)
variableURL(r) ==
    makeRouterURL(secretsURL(r.account), <<Raw(<<r.kind>>), PathEscape(r.name)>>)

Privilege == QueryEscape(<<"execute">>)

CheckPermissionRequest(r) ==
    Request("GET", withQuery(OfResource(r), <<Word("check"), Privilege>>))

CheckPermissionForRoleRequest(r, roleID) ==
    LET role == parseID(roleID) IN
    IF role = Malformed THEN Malformed
    ELSE Request("GET", withQuery(OfResource(r),
             <<Word("check"), Privilege, QueryEscape(Join(role))>>))

ResourceRequest(r) == Request("GET", OfResource(r))
PermittedRolesRequest(r) ==
    Request("GET", withQuery(OfResource(r), <<Word("permitted_roles"), Privilege>>))
RoleRequest(r) == Request("GET", OfRole(r))
RoleMembersRequest(r) == Request("GET", withQuery(OfRole(r), <<Word("members")>>))
RoleMembershipsRequest(r, query) == Request("GET", withQuery(OfRole(r), <<Word(query)>>))

RoleIDRequests(r) ==
    {CheckPermissionRequest(r), ResourceRequest(r), PermittedRolesRequest(r),
     RoleRequest(r), RoleMembersRequest(r)}
    \cup {RoleMembershipsRequest(r, q) : q \in {"memberships", "all"}}
    \cup {CheckPermissionForRoleRequest(r, roleID) : roleID \in RoleIds}

LoadPolicyRequest(r, method, query) == Request(method, withQuery(OfPolicy(r), query))
fetchPolicyRequest(r) ==
    Request("GET", withQuery(OfPolicy(r), <<Word("depth"), Word("limit")>>))

PolicyRequests(r) ==
    {fetchPolicyRequest(r)} \cup
    {LoadPolicyRequest(r, method, query) : method \in {"POST", "PATCH", "PUT"},
                                           query \in {<<>>, <<Word("dryRun")>>}}

RetrieveSecretRequest(r) == Request("GET", variableURL(r))
RetrieveSecretWithVersionRequest(r) ==
    Request("GET", withQuery(variableURL(r), <<Word("version")>>))
AddSecretRequest(r) == Request("POST", variableURL(r))

SecretRequests(r) ==
    {RetrieveSecretRequest(r), RetrieveSecretWithVersionRequest(r), AddSecretRequest(r)}

(* The IDs are qualified but not parsed; they are joined by commas.        *)
RetrieveBatchSecretsRequest(ids) ==
    Request("GET", withQuery(makeRouterURL(ApplianceURL, <<Word("secrets")>>),
        [i \in DOMAIN ids |-> As(makeFullID(Account, "variable", ids[i]), "item")]))

-----------------------------------------------------------------------------
(* Requests that log in or concern an authenticator; t is a text.          *)
authnURL(type, serviceID) ==
    makeRouterURL(ApplianceURL,
        CASE type = "gcp"   -> <<Word(type), Raw(<<Account>>)>>
          [] type = "authn" -> <<Word(type), Raw(<<Account>>)>>
          [] OTHER          -> <<Word(type), Raw(serviceID), Raw(<<Account>>)>>)

ensureHostPrefix(t) == IF t[1] \in HostIds THEN t ELSE <<"host/">> \o t

LoginRequest(url) == Request("GET", makeRouterURL(url, <<Word("login")>>))
AuthenticateRequest(url, login) ==
    Request("POST", makeRouterURL(url, <<QueryEscape(login), Word("authenticate")>>))
JWTAuthenticateRequest(url, hostID) ==
    Request("POST", makeRouterURL(url,
        (IF hostID = <<"">> THEN <<>> ELSE <<PathEscape(hostID)>>) \o <<Word("authenticate")>>))
AzureAuthenticateRequest(url, hostID) ==
    JWTAuthenticateRequest(url, ensureHostPrefix(hostID))
GCPAuthenticateRequest == JWTAuthenticateRequest(authnURL("gcp", <<"">>), <<"">>)
IAMAuthenticateRequest(url, hostID) ==
    Request("POST", makeRouterURL(url,
        <<QueryEscape(ensureHostPrefix(hostID)), Word("authenticate")>>))
CertAuthenticateRequest(url, hostID) ==
    JWTAuthenticateRequest(url, IF hostID = <<"">> THEN hostID ELSE ensureHostPrefix(hostID))
OidcAuthenticateRequest(url, code) ==
    Request("GET", withQuery(makeRouterURL(url, <<Word("authenticate")>>), <<Raw(code)>>))
OidcTokenAuthenticateRequest(url) ==
    Request("POST", makeRouterURL(url, <<Word("authenticate")>>))
RotateCurrentRoleAPIKeyRequest ==
    Request("PUT", makeRouterURL(authnURL("authn", <<"">>), <<Word("api_key")>>))
ChangeUserPasswordRequest ==
    Request("PUT", makeRouterURL(ApplianceURL,
        <<Word("authn"), Raw(<<Account>>), Word("password")>>))
(* The role is not escaped.                                                *)
RotateAPIKeyRequest(r) ==
    Request("PUT", withQuery(makeRouterURL(authnURL("authn", <<"">>), <<Word("api_key")>>),
                             <<Raw(Join(r))>>))
EnableAuthenticatorRequest(url) == Request("PATCH", url)
AuthenticatorStatusRequest(url) == Request("GET", makeRouterURL(url, <<Word("status")>>))

ListOidcProvidersRequest ==
    Request("GET", makeRouterURL(ApplianceURL,
        <<Word("authn-oidc"), Raw(<<Account>>), Word("providers")>>))
ServerRequests ==
    {Request("GET", makeRouterURL(ApplianceURL, path)) :
        path \in {<<>>, <<Word("info")>>, <<Word("whoami")>>}}

LoginRequests(t) ==
    LET default == authnURL("authn", <<"">>) IN
    {LoginRequest(default), AuthenticateRequest(default, t),
     RotateCurrentRoleAPIKeyRequest, ChangeUserPasswordRequest, ListOidcProvidersRequest}
    \cup ServerRequests

(* Of the services, whose ID is not escaped, one; of their IDs, all.       *)
ServiceRequests(t) ==
    LET url == authnURL("jwt", <<"service">>) IN
    {LoginRequest(url), AuthenticateRequest(url, t),
     JWTAuthenticateRequest(url, t), AzureAuthenticateRequest(url, t),
     GCPAuthenticateRequest, IAMAuthenticateRequest(url, t),
     CertAuthenticateRequest(url, t), OidcAuthenticateRequest(url, t),
     OidcTokenAuthenticateRequest(url),
     EnableAuthenticatorRequest(authnURL("jwt", t)),
     AuthenticatorStatusRequest(authnURL("jwt", t))}

-----------------------------------------------------------------------------
(* Requests about what other texts name.                                   *)
DeleteTokenRequest(t) ==
    Request("DELETE", makeRouterURL(ApplianceURL, <<Word("host_factory_tokens"), Raw(t)>>))
CreateTokenRequest == Request("POST", makeRouterURL(ApplianceURL, <<Word("host_factory_tokens")>>))
CreateHostRequest == Request("POST", makeRouterURL(ApplianceURL, <<Word("host_factories/hosts")>>))
PublicKeysRequest(t) ==
    Request("GET", makeRouterURL(ApplianceURL,
        <<Word("public_keys"), Raw(<<Account>>), Word("user"), Raw(t)>>))
resourcesRequest(t) ==
    Request("GET", withQuery(resourcesURL(Account), <<QueryEscape(t)>>))

HostFactoryRequests(t) ==
    {DeleteTokenRequest(t), CreateHostRequest, PublicKeysRequest(t), resourcesRequest(t)}

issuersURL == makeRouterURL(ApplianceURL, <<Word("issuers"), Raw(<<Account>>)>>)
createIssuerRequest == Request("POST", makeRouterURL(issuersURL, <<>>))
issuersRequest == Request("GET", makeRouterURL(issuersURL, <<>>))
issuerRequest(t) == Request("GET", makeRouterURL(issuersURL, <<QueryEscape(t)>>))
updateIssuerRequest(t) == Request("PATCH", makeRouterURL(issuersURL, <<QueryEscape(t)>>))
deleteIssuerRequest(t) ==
    Request("DELETE", withQuery(makeRouterURL(issuersURL, <<QueryEscape(t)>>),
                                <<Word("keep_secrets")>>))

IssuerRequests(t) ==
    {createIssuerRequest, issuersRequest, issuerRequest(t), updateIssuerRequest(t),
     deleteIssuerRequest(t)}

ldapMappingsURL(kind) ==
    makeRouterURL(ApplianceURL,
        <<Word("authn-ldap"), PathEscape(<<"service">>), Raw(<<Account>>), Word(kind)>>)
ldapMappingURL(kind, t) ==
    makeRouterURL(ApplianceURL,
        <<Word("authn-ldap"), PathEscape(<<"service">>), Raw(<<Account>>), Word(kind),
          PathEscape(t)>>)
LdapMappingRequests(t) ==
    {Request(m, ldapMappingURL(kind, t)) : m \in {"POST", "GET", "DELETE"},
                                           kind \in {"groups", "users"}}
    \cup {Request("GET", ldapMappingsURL(kind)) : kind \in {"groups", "users"}}

-----------------------------------------------------------------------------
(* Requests of the V2 client, which leaves the account out for the SaaS.   *)
V2Account == IF client.saas THEN <<>> ELSE <<Raw(<<Account>>)>>

authenticatorsURL(type, t) ==
    makeRouterURL(ApplianceURL, <<Word("authenticators")>> \o V2Account \o
        (CASE type = "gcp" -> <<Word(type)>>
           [] type = ""    -> <<>>
           [] OTHER        -> <<Word(type), Raw(t)>>))

CreateAuthenticatorRequest == Request("POST", authenticatorsURL("", <<"">>))
ListAuthenticatorsRequest == Request("GET", authenticatorsURL("", <<"">>))
GetAuthenticatorRequest(type, t) == Request("GET", authenticatorsURL(type, t))
UpdateAuthenticatorRequest(type, t) == Request("PATCH", authenticatorsURL(type, t))
DeleteAuthenticatorRequest(type, t) == Request("DELETE", authenticatorsURL(type, t))

AuthenticatorRequests(t) ==
    {CreateAuthenticatorRequest, ListAuthenticatorsRequest} \cup
    UNION {{GetAuthenticatorRequest(type, t), UpdateAuthenticatorRequest(type, t),
            DeleteAuthenticatorRequest(type, t)} : type \in {"gcp", "jwt"}}

Required(t, r) == IF t = <<"">> THEN Malformed ELSE r

branchesURL == makeRouterURL(ApplianceURL, <<Word("branches")>> \o V2Account)
branchURL(t) == makeRouterURL(ApplianceURL, <<Word("branches")>> \o V2Account \o <<Raw(t)>>)
CreateBranchRequest == Request("POST", branchesURL)
ReadBranchRequest(t) == Required(t, Request("GET", branchURL(t)))
ReadBranchesRequest == Request("GET", withQuery(branchesURL, <<Word("limit"), Word("offset")>>))
UpdateBranchRequest(t) == Request("PATCH", branchURL(t))
DeleteBranchRequest(t) == Required(t, Request("DELETE", branchURL(t)))

BranchRequests(t) ==
    {CreateBranchRequest, ReadBranchRequest(t), ReadBranchesRequest,
     UpdateBranchRequest(t), DeleteBranchRequest(t)}

addGroupMembershipURL(group) ==
    makeRouterURL(ApplianceURL,
        <<Word("groups")>> \o V2Account \o <<Raw(group), Word("members")>>)
removeGroupMembershipURL(group, member) ==
    makeRouterURL(addGroupMembershipURL(group), <<Word("user"), Raw(member)>>)
AddGroupMemberRequest(t) == Required(t, Request("POST", addGroupMembershipURL(t)))
RemoveGroupMemberRequest(t, member) ==
    Required(t, Required(member, Request("DELETE", removeGroupMembershipURL(t, member))))

GroupRequests(t) ==
    {AddGroupMemberRequest(t), RemoveGroupMemberRequest(t, <<"member">>),
     RemoveGroupMemberRequest(<<"group">>, t)}

staticSecretURL(t, rest) ==
    makeRouterURL(ApplianceURL, <<Word("secrets/static"), Raw(t)>> \o rest)
CreateStaticSecretRequest ==
    Request("POST", makeRouterURL(ApplianceURL, <<Word("secrets/static")>>))
GetStaticSecretDetailsRequest(t) == Required(t, Request("GET", staticSecretURL(t, <<>>)))
GetStaticSecretPermissionsRequest(t) ==
    Required(t, Request("GET", staticSecretURL(t, <<Word("permissions")>>)))
CertificateIssueRequest(t) ==
    Request("POST", makeRouterURL(ApplianceURL, <<Word("issuers"), Raw(t), Word("issue")>>))
CertificateSignRequest(t) ==
    Request("POST", makeRouterURL(ApplianceURL, <<Word("issuers"), Raw(t), Word("sign")>>))
BatchRetrieveSecretsRequest ==
    Request("POST", makeRouterURL(ApplianceURL,
        <<Word("secrets")>> \o V2Account \o <<Word("values")>>))

StaticSecretRequests(t) ==
    {CreateStaticSecretRequest, GetStaticSecretDetailsRequest(t),
     GetStaticSecretPermissionsRequest(t), BatchRetrieveSecretsRequest,
     CertificateIssueRequest(t), CertificateSignRequest(t)}

workloadsURL == makeRouterURL(ApplianceURL, <<Word("workloads")>>)

(* A request about one workload, or an error.                              *)
OfWorkload(method, texts) ==
    LET segments == escapePathSegments(texts) IN
    IF segments = Malformed THEN Malformed
    ELSE Request(method, makeRouterURL(ApplianceURL, <<Word("workloads")>> \o segments))

CreateWorkloadRequest == Request("POST", workloadsURL)
DeleteWorkloadRequest(t) == OfWorkload("DELETE", <<t>>)
GetWorkloadRequest(t) == OfWorkload("GET", <<t>>)
UpdateWorkloadRequest(t) == OfWorkload("PATCH", <<t>>)
UpdateAuthnDescriptorRequest(t, type, serviceID) ==
    OfWorkload("PATCH", <<t, <<"authn_descriptors">>, type, serviceID>>)

WorkloadRequests(t) ==
    {CreateWorkloadRequest, DeleteWorkloadRequest(t), GetWorkloadRequest(t),
     UpdateWorkloadRequest(t), UpdateAuthnDescriptorRequest(t, <<"jwt">>, <<"service">>),
     UpdateAuthnDescriptorRequest(<<"workload">>, <<"jwt">>, t)}

-----------------------------------------------------------------------------
RequestInit ==
    /\ Init
    /\ client \in Clients
    /\ request = Malformed

Send(requests) ==
    /\ request' \in (IF target' = Malformed THEN {Malformed} ELSE requests)
    /\ UNCHANGED client

Secrets(id) == Qualified(id, "variable") /\ Send(SecretRequests(target'))
Policies(id) == Qualified(id, "policy") /\ Send(PolicyRequests(target'))

(* These operations are about the kind that the ID names.                  *)
NamedKind(id) ==
    LET kind == unopinionatedParseID(id).kind IN
    IF kind \in Kinds THEN kind ELSE "variable"

Roles(id) == AsGiven(id, NamedKind(id)) /\ Send(RoleIDRequests(target'))
RotateAPIKey(id) == AsGiven(id, NamedKind(id)) /\ Send({RotateAPIKeyRequest(target')})
RotateUserAPIKey(id, kind) == Enforced(id, kind) /\ Send({RotateAPIKeyRequest(target')})

(* The ID goes into the body, which is escaped as a form.                  *)
CreateToken(id, kind) ==
    /\ Call("enforced", id, kind, parseIDandEnforceKind(id, kind))
    /\ Send({CreateTokenRequest})

RetrieveBatchSecrets(id) ==
    /\ request' = RetrieveBatchSecretsRequest(<<id, id>>)
    /\ UNCHANGED <<asked, target, client>>

(* A request for which one text is typed in.                               *)
Address(t) ==
    /\ request' \in LoginRequests(t) \cup ServiceRequests(t) \cup HostFactoryRequests(t)
                      \cup IssuerRequests(t) \cup LdapMappingRequests(t)
                      \cup AuthenticatorRequests(t) \cup BranchRequests(t)
                      \cup GroupRequests(t) \cup StaticSecretRequests(t)
                      \cup WorkloadRequests(t)
    /\ UNCHANGED <<asked, target, client>>

(* The first call is given a text that was typed in, later ones the full   *)
(* ID of the previous target: what is typed in later is a first call.      *)
First == asked = Malformed /\ request = Malformed

GivenID == IF First THEN UNION {[1 .. n -> Parts] : n \in 1 .. MaxParts}
           ELSE {Join(r) : r \in {target} \ {Malformed}}

RequestNext ==
    \/ \E id \in GivenID :
          /\ Len(id) <= MaxParts + 2
          /\ \/ Secrets(id) \/ Policies(id) \/ RetrieveBatchSecrets(id)
             \/ Roles(id) \/ RotateAPIKey(id)
             \/ \E kind \in Kinds : RotateUserAPIKey(id, kind) \/ CreateToken(id, kind)
    \/ First /\ \E part \in Parts : Address(<<part>>)

RequestSpec == RequestInit /\ [][RequestNext]_requestVars

-----------------------------------------------------------------------------
Service == IF request.url.path = <<>> THEN "" ELSE request.url.path[1].text[1]

(* A secret is read and written at the address of its variable, whatever   *)
(* its ID is made of: the server gets back the identifier that was typed.  *)
(* Two identifiers, "." and "..", no encoding of the client preserves.     *)
SecretReached ==
    request # Malformed /\ Service = "secrets" /\ Len(request.url.path) > 1
    /\ request.url.path[Len(request.url.path)].text \notin {<<t>> : t \in Vanishing}
        => Exact(request.url)

(* Requests about resources, roles and policies reach what the ID names,   *)
(* unless its identifier has a space, or its account or kind, which are    *)
(* not escaped, a character that has to be; or one of them vanishes.       *)
RoleReached ==
    /\ request # Malformed /\ Service \in {"resources", "roles", "policies"}
    /\ target # Malformed
    /\ {target.account, target.kind} \cap (Vanishing \cup Unsafe) = {}
    /\ \A i \in DOMAIN target.name : target.name[i] \notin Spaced
    /\ target.name \notin {<<t>> : t \in Vanishing}
    => PathReading(request.url.path) = Intended(request.url.path)

(* A request about a workload reaches that workload, whatever it is        *)
(* called: no identifier makes it another workload or the collection.      *)
WorkloadReached ==
    request # Malformed /\ Service = "workloads" => Exact(request.url)

(* However a URL is put together, and however the appliance URL is         *)
(* written, a request to the SaaS is below "/api", once.  Not for a host   *)
(* whose name begins with "api".                                           *)
ApiOnce ==
    request # Malformed /\ client.host.cloud
    /\ (client.host.saysApi <=> client.host.prefixes = 1)
        => request.url.host.prefixes = 1
=============================================================================
