--------------------------- MODULE ClientFactory ---------------------------
(***************************************************************************)
(* Where a client gets its credentials from: the constructors of           *)
(* conjurapi/client.go and the logins of conjurapi/authn.go, over the      *)
(* processes that follow one another on a machine and share its credential *)
(* storage, as the runs of a command line do.                              *)
(*                                                                         *)
(* The calls on the storage are taken as wholes here (CredentialStorage    *)
(* shows what they do), one process runs at a time, and the storage mode   *)
(* is read-write.  A token is good for the rest of the epoch in which it   *)
(* was issued, and due for a refresh after it.                             *)
(***************************************************************************)
EXTENDS Naturals

CONSTANTS
    Configs,    \* the configurations in use: an AuthnType and a KeychainNamespace
    Roles,      \* the users and hosts that log in
    MaxEpoch,   \* how often tokens grow old (bound of the model)
    MaxKey,     \* how often a role's API key is replaced (bound of the model)
    Workload,   \* the role of a workload that the cloud or its JWT identifies
    None        \* nothing stored, no client, an error instead of a client

KeyTypes      == {"", "authn", "ldap"}
CodeTypes     == {"oidc", "cloud"}
WorkloadTypes == {"iam", "azure", "gcp"}
AuthnTypes    == KeyTypes \cup CodeTypes \cup WorkloadTypes \cup {"jwt", "cert"}

VARIABLES
    backend,    \* config.CredentialStorage
    epoch,      \* the age of the tokens is counted in epochs
    key,        \* per role, which API key the server accepts
    pairs,      \* per machine, the stored login and API key
    sessions,   \* per machine, the stored access token
    client,     \* the client of the running process, or None
    latest      \* per configuration, who logged in with it last (history)

vars == <<backend, epoch, key, pairs, sessions, client, latest>>
storage == <<pairs, sessions>>

Actor == Roles \cup {Workload}
Token == [role : Actor, issued : 0 .. MaxEpoch]
Pair  == [role : Roles, key : 0 .. MaxKey]

(* The names under which the storage may hold something, and the clients:  *)
(* the configuration and storage a client was built with, how it           *)
(* authenticates, as whom, and the access token it holds.                  *)
Machines == [endpoint : {k.authnType : k \in Configs} \cup {"authn"},
             namespace : {k.namespace : k \in Configs} \cup {""}]
Authenticators == {"key", "code", "usedCode", "emptyCode", "workload", "jwt", "token", "tokenFile"}
Clients == [config : Configs \cup {[k EXCEPT !.authnType = "authn"] : k \in Configs},
            machine : Machines, authenticator : Authenticators, role : Actor,
            apiKey : 0 .. MaxKey, token : Token \cup {None}, preferCachedToken : BOOLEAN]

ASSUME FactoryAssumption ==
    /\ Configs \subseteq [authnType : AuthnTypes, namespace : STRING]
    /\ Workload \notin Roles
    /\ None \notin Actor \cup Pair \cup Token \cup Clients
    /\ MaxEpoch \in Nat /\ MaxKey \in Nat

-----------------------------------------------------------------------------
\* Mutant of Machine: the name is made of the appliance URL alone.
UrlOnly(authnType, namespace) ==
    [endpoint |-> "authn", namespace |-> IF backend = "keyring" THEN namespace ELSE ""]

\* Mutant of Machine: the keyring is asked for the machine name as it is.
NoNamespace(authnType, namespace) ==
    [endpoint |-> IF authnType = "" THEN "authn" ELSE authnType, namespace |-> ""]

(* getMachineName and, in the keyring, keyringServiceName.                 *)
Machine(authnType, namespace) ==
    [endpoint  |-> IF authnType = "" THEN "authn" ELSE authnType,
     namespace |-> IF backend = "keyring" THEN namespace ELSE ""]

MachineOf(config) == Machine(config.authnType, config.namespace)

NewClient(config, authenticator, role, apiKey) ==
    [config |-> config, machine |-> MachineOf(config), authenticator |-> authenticator,
     role |-> role, apiKey |-> apiKey, token |-> None, preferCachedToken |-> FALSE]

NewClientFromKey(config, pair) ==
    NewClient([config EXCEPT !.authnType = IF @ = "cloud" THEN "authn" ELSE @],
              "key", pair.role, pair.key)

Fresh(token) == token # None /\ token.issued = epoch

\* Mutant of StorePair: the session is left in the entry.
KeepsSession(m, pair) ==
    IF backend = "none" THEN UNCHANGED storage
    ELSE pairs' = [pairs EXCEPT ![m] = pair] /\ UNCHANGED sessions

(* A .netrc entry holds a pair or a session; the keyring holds both.       *)
StorePair(m, pair) ==
    IF backend = "none" THEN UNCHANGED storage
    ELSE /\ pairs' = [pairs EXCEPT ![m] = pair]
         /\ sessions' = IF backend = "file" THEN [sessions EXCEPT ![m] = None] ELSE sessions

StoreSession(m, token) ==
    IF backend = "none" THEN UNCHANGED storage
    ELSE /\ sessions' = [sessions EXCEPT ![m] = token]
         /\ pairs' = IF backend = "file" THEN [pairs EXCEPT ![m] = None] ELSE pairs

(* Which configurations a login or a logout with config is about: the      *)
(* .netrc file knows no namespaces.                                        *)
SameLogin(k, config) ==
    /\ k.authnType = config.authnType \/ {k.authnType, config.authnType} \subseteq {"", "authn"}
    /\ backend = "keyring" => k.namespace = config.namespace

Remember(config, role) ==
    latest' = [k \in Configs |-> IF SameLogin(k, config) /\ backend # "none"
                                 THEN role ELSE latest[k]]

-----------------------------------------------------------------------------
Init ==
    /\ backend \in {"file", "keyring", "none"}
    /\ epoch = 0
    /\ key = [r \in Roles |-> 0]
    /\ pairs = [m \in Machines |-> None]
    /\ sessions = [m \in Machines |-> None]
    /\ client = None
    /\ latest = [k \in Configs |-> None]

(* NewClient and Login: the server hands out the API key of the role.      *)
Login(config, role) ==
    /\ client = None /\ config.authnType \in KeyTypes
    /\ StorePair(MachineOf(config), [role |-> role, key |-> key[role]])
    /\ Remember(config, role)
    /\ UNCHANGED <<backend, epoch, key, client>>

(* NewClientFromCloudHost: the pair is verified at the authn endpoint and  *)
(* stored where the cloud configuration looks for it.                      *)
NewClientFromCloudHost(config, role) ==
    LET pair == [role |-> role, key |-> key[role]] IN
    /\ client = None /\ config.authnType = "cloud"
    /\ StorePair(MachineOf(config), pair)
    /\ Remember(config, role)
    /\ client' = NewClientFromKey(config, pair)
    /\ UNCHANGED <<backend, epoch, key>>

(* NewClientFromOidcCode, NewClientFromAWSCredentials and its siblings.    *)
NewClientFromOidcCode(config, role) ==
    /\ client = None /\ config.authnType \in CodeTypes
    /\ client' = NewClient(config, "code", role, 0)
    /\ UNCHANGED <<backend, epoch, key, storage, latest>>

NewClientFromWorkload(config) ==
    /\ client = None /\ config.authnType \in WorkloadTypes
    /\ client' = NewClient(config, "workload", Workload, 0)
    /\ UNCHANGED <<backend, epoch, key, storage, latest>>

-----------------------------------------------------------------------------
(* The access token that RefreshToken would take from the storage, and the *)
(* client once it has.                                                     *)
WithCachedToken(c) ==
    IF /\ c.preferCachedToken
       /\ c.config.authnType \in CodeTypes \cup WorkloadTypes
       /\ sessions[c.machine] # None
    THEN [c EXCEPT !.token = sessions[c.machine]]
    ELSE c

(* What the server, or for a given token the authenticator, accepts: a     *)
(* code once, and an API key where API keys belong.                        *)
Accepted(c) ==
    CASE c.authenticator = "key"      -> /\ c.config.authnType \in KeyTypes
                                         /\ c.apiKey = key[c.role]
      [] c.authenticator = "workload" -> c.config.authnType \in WorkloadTypes \cup {"cert"}
      [] c.authenticator = "jwt"      -> c.config.authnType = "jwt"
      [] OTHER                        -> c.authenticator \in {"code", "token", "tokenFile"}

(* TokenAuthenticator has but the one token.                               *)
Obtained(c) == IF c.authenticator = "token" THEN c.token
               ELSE [role |-> c.role, issued |-> epoch]

(* authenticateWithTokenStorage stores what it obtains.                    *)
StoresToken(c) == /\ c.authenticator \in {"code", "workload", "jwt"}
                  /\ c.config.authnType # "cert"

(* Client c authenticates and ends up as done, unless it fails.            *)
Authenticates(c, done) ==
    /\ Accepted(c)
    /\ client' = [done EXCEPT !.authenticator = IF @ = "code" THEN "usedCode" ELSE @]
    /\ IF StoresToken(c) THEN StoreSession(c.machine, Obtained(c)) ELSE UNCHANGED storage
    /\ IF c.authenticator = "code" THEN Remember(c.config, c.role) ELSE UNCHANGED latest

Holding(c) == [c EXCEPT !.token = Obtained(c)]

(* RefreshToken of a client c; failed is the client after an error.        *)
RefreshToken(c, failed) ==
    LET d == WithCachedToken(c) IN
    \/ /\ Fresh(d.token)
       /\ client' = d
       /\ UNCHANGED <<storage, latest>>
    \/ /\ ~Fresh(d.token)
       /\ \/ Authenticates(d, Holding(d))
          \/ client' = failed /\ UNCHANGED <<storage, latest>>

-----------------------------------------------------------------------------
(* newClientFromStoredCredentials, for the types that need not             *)
(* authenticate at once: a pair makes an API key client; a session that is *)
(* not due makes a client with an empty code.                              *)
newClientFromStoredCredentials(config) ==
    LET m == MachineOf(config) IN
    IF config.authnType \in KeyTypes \cup {"cloud"} /\ pairs[m] # None
    THEN NewClientFromKey(config, pairs[m])
    ELSE IF config.authnType \in CodeTypes /\ Fresh(sessions[m])
    THEN [NewClient(config, "emptyCode", sessions[m].role, 0)
              EXCEPT !.preferCachedToken = TRUE]
    ELSE None

NewClientFromCertificate(config) == NewClient(config, "workload", Workload, 0)
NewClientFromJwt(config)         == NewClient(config, "jwt", Workload, 0)

(* The workload types authenticate while they are constructed, unless the  *)
(* storage has a token that is not due.                                    *)
newClientFromStoredWorkload(config) ==
    RefreshToken([NewClient(config, "workload", Workload, 0)
                     EXCEPT !.preferCachedToken = TRUE], None)

Variables == {"CONJUR_AUTHN_TOKEN_FILE", "CONJUR_AUTHN_TOKEN",
              "CONJUR_AUTHN_JWT_SERVICE_ID", "CONJUR_AUTHN_API_KEY"}

(* What the environment variables in env make of the configuration; the    *)
(* JWT service stands for config.JWTFilePath as well.                      *)
NewClientFromVariables(config, env, role) ==
    CASE "CONJUR_AUTHN_TOKEN_FILE" \in env -> NewClient(config, "tokenFile", role, 0)
      [] "CONJUR_AUTHN_TOKEN_FILE" \notin env /\ "CONJUR_AUTHN_TOKEN" \in env ->
            [NewClient(config, "token", role, 0)
                EXCEPT !.token = [role |-> role, issued |-> epoch]]
      [] OTHER -> IF "CONJUR_AUTHN_JWT_SERVICE_ID" \in env
                  THEN NewClientFromJwt(config)
                  ELSE NewClientFromKey(config, [role |-> role, key |-> key[role]])

(* Tokens come first, then the certificate, then the JWT and the API key.  *)
NewClientFromEnvironment(config, env, role) ==
    LET tokens == {"CONJUR_AUTHN_TOKEN_FILE", "CONJUR_AUTHN_TOKEN"} \cap env
        cert   == tokens = {} /\ config.authnType = "cert"
        stored == ~cert /\ env = {}
    IN
    /\ client = None
    /\ UNCHANGED <<backend, epoch, key>>
    /\ \/ /\ cert
          /\ RefreshToken(NewClientFromCertificate(config), None)
       \/ /\ ~cert /\ ~stored
          /\ client' = NewClientFromVariables(config, env, role)
          /\ UNCHANGED <<storage, latest>>
       \/ /\ stored /\ config.authnType \notin WorkloadTypes
          /\ client' = newClientFromStoredCredentials(config)
          /\ UNCHANGED <<storage, latest>>
       \/ /\ stored /\ config.authnType \in WorkloadTypes
          /\ newClientFromStoredWorkload(config)

-----------------------------------------------------------------------------
(* The calls of the client.                                                *)
Request ==
    /\ client # None
    /\ RefreshToken(client, WithCachedToken(client))
    /\ UNCHANGED <<backend, epoch, key>>

ForceRefreshToken ==
    /\ client # None
    /\ \/ Authenticates(client, Holding(client))
       \/ UNCHANGED <<client, storage, latest>>
    /\ UNCHANGED <<backend, epoch, key>>

(* The bytes are returned; the client keeps the token it has.  An "oidc"   *)
(* client only reads the storage, which changes nothing.                   *)
InternalAuthenticate ==
    /\ client # None /\ client.config.authnType # "oidc"
    /\ \/ Authenticates(client, client)
       \/ UNCHANGED <<client, storage, latest>>
    /\ UNCHANGED <<backend, epoch, key>>

(* RotateCurrentRoleAPIKey: basic authentication with the stored pair,     *)
(* whatever the client itself authenticates with.  Without a storage the   *)
(* nil interface is called, and the process ends.                          *)
RotateCurrentRoleAPIKey ==
    /\ client # None
    /\ LET pair == pairs[client.machine] IN
       \/ /\ backend = "none"
          /\ client' = None
          /\ UNCHANGED key
       \/ /\ backend # "none" /\ pair # None /\ pair.key = key[pair.role]
          /\ key[pair.role] < MaxKey
          /\ key' = [key EXCEPT ![pair.role] = @ + 1]
          /\ UNCHANGED client
       \/ /\ backend # "none"
          /\ UNCHANGED <<client, key>>
    /\ UNCHANGED <<backend, epoch, storage, latest>>

Purge(m) ==
    /\ pairs' = [pairs EXCEPT ![m] = None]
    /\ sessions' = [sessions EXCEPT ![m] = None]

(* Client.PurgeCredentials, and PurgeCredentials of a configuration.       *)
PurgeOwn ==
    /\ client # None
    /\ Purge(client.machine)
    /\ Remember(client.config, None)
    /\ UNCHANGED <<backend, epoch, key, client>>

PurgeCredentials(config) ==
    /\ client = None
    /\ Purge(MachineOf(config))
    /\ Remember(config, None)
    /\ UNCHANGED <<backend, epoch, key, client>>

Exit ==
    /\ client # None
    /\ client' = None
    /\ UNCHANGED <<backend, epoch, key, storage, latest>>

(* Time passes: every token is due.                                        *)
GrowOld ==
    /\ epoch < MaxEpoch
    /\ epoch' = epoch + 1
    /\ UNCHANGED <<backend, key, storage, client, latest>>

Next ==
    \/ \E k \in Configs :
        \/ \E r \in Roles : \/ Login(k, r)
                            \/ NewClientFromCloudHost(k, r)
                            \/ NewClientFromOidcCode(k, r)
        \/ NewClientFromWorkload(k)
        \/ \E env \in SUBSET Variables, r \in Roles : NewClientFromEnvironment(k, env, r)
        \/ PurgeCredentials(k)
    \/ Request \/ InternalAuthenticate \/ ForceRefreshToken
    \/ RotateCurrentRoleAPIKey
    \/ PurgeOwn \/ Exit \/ GrowOld

Spec == Init /\ [][Next]_vars

-----------------------------------------------------------------------------
(* Types; in particular a .netrc entry never holds a pair and a session.   *)
TypeOK ==
    /\ backend \in {"file", "keyring", "none"}
    /\ epoch \in 0 .. MaxEpoch
    /\ key \in [Roles -> 0 .. MaxKey]
    /\ pairs \in [Machines -> Pair \cup {None}]
    /\ sessions \in [Machines -> Token \cup {None}]
    /\ backend = "file" => \A m \in Machines : None \in {pairs[m], sessions[m]}
    /\ backend = "none" => \A m \in Machines : pairs[m] = None /\ sessions[m] = None
    /\ latest \in [Configs -> Roles \cup {None}]
    /\ client \in Clients \cup {None}

(* A process that starts from the stored credentials of a configuration    *)
(* acts as the role that logged in with that configuration last, or not at *)
(* all once it has logged out, whatever was stored for others in between.  *)
(* (In the keyring, a cloud host's pair outlives a later OIDC login.)      *)
LatestLogin ==
    \A k \in Configs :
        LET c == newClientFromStoredCredentials(k) IN
        c # None /\ ~(backend = "keyring" /\ k.authnType = "cloud") => c.role = latest[k]

(* The pair of a login stays until a logout or another login with the same *)
(* configuration: clients that come and go, and the tokens they store, do  *)
(* not disturb it.                                                         *)
LoginKept ==
    \A k \in Configs :
        k.authnType \in KeyTypes /\ latest[k] # None
            => newClientFromStoredCredentials(k) # None
=============================================================================
