--------------------------- MODULE FactoryProofs ---------------------------
(***************************************************************************)
(* Proofs about ClientFactory, for any set of configurations of any types  *)
(* and namespaces, any number of roles, and any number of processes that   *)
(* follow one another on one credential storage.                           *)
(***************************************************************************)
EXTENDS ClientFactory, TLAPS

Served == Configs \cup {[k EXCEPT !.authnType = "authn"] : k \in Configs}

(* A configuration in use is one of those given, or the one of the authn   *)
(* endpoint that newClientWithAuthenticator makes of a cloud one.          *)
LEMMA ServedConfig ==
    ASSUME NEW config \in Served
    PROVE  /\ config.authnType \in AuthnTypes
           /\ config = [authnType |-> config.authnType, namespace |-> config.namespace]
           /\ config.authnType \in {k.authnType : k \in Configs} \cup {"authn"}
           /\ config.namespace \in {k.namespace : k \in Configs}
BY FactoryAssumption DEF Served, AuthnTypes, KeyTypes

LEMMA MachineNamed ==
    ASSUME NEW config \in Served, backend \in {"file", "keyring", "none"}
    PROVE  MachineOf(config) \in Machines
BY ServedConfig DEF MachineOf, Machine, Machines

(* Two configurations share a machine name exactly when a login with the   *)
(* one is a login with the other.                                          *)
LEMMA SameMachine ==
    ASSUME NEW k \in Served, NEW config \in Served
    PROVE  MachineOf(k) = MachineOf(config) <=> SameLogin(k, config)
<1>1. \A a, b, c, d : [endpoint |-> a, namespace |-> b] = [endpoint |-> c, namespace |-> d]
                         <=> a = c /\ b = d
    OBVIOUS
<1> QED
    BY <1>1 DEF MachineOf, Machine, SameLogin

-----------------------------------------------------------------------------
(* What is stored for a configuration comes from the login that latest     *)
(* remembers, and a login with a key leaves a pair.                        *)
Remembered(k) ==
    LET m == MachineOf(k) IN
    /\ ~(backend = "keyring" /\ k.authnType = "cloud") =>
          /\ k.authnType \in KeyTypes \cup {"cloud"} /\ pairs[m] # None
                => pairs[m].role = latest[k]
          /\ k.authnType \in CodeTypes /\ sessions[m] # None
                => sessions[m].role = latest[k]
    /\ k.authnType \in KeyTypes /\ latest[k] # None => pairs[m] # None

(* A client stores under the name of its configuration; who logs in with a *)
(* code does so with a configuration that takes one.                       *)
GoodClient(c) ==
    /\ c \in Clients
    /\ c.machine = MachineOf(c.config)
    /\ c.authenticator = "code" => c.config.authnType \in CodeTypes /\ c.role \in Roles

StorageOK ==
    /\ pairs \in [Machines -> Pair \cup {None}]
    /\ sessions \in [Machines -> Token \cup {None}]
    /\ backend = "file" => \A m \in Machines : None \in {pairs[m], sessions[m]}
    /\ backend = "none" => \A m \in Machines : pairs[m] = None /\ sessions[m] = None
    /\ latest \in [Configs -> Roles \cup {None}]
    /\ \A k \in Configs : Remembered(k)

FactoryInv ==
    /\ backend \in {"file", "keyring", "none"}
    /\ epoch \in 0 .. MaxEpoch
    /\ key \in [Roles -> 0 .. MaxKey]
    /\ StorageOK
    /\ client = None \/ GoodClient(client)

LEMMA FactoryInit == Init => FactoryInv
<1> SUFFICES ASSUME Init PROVE FactoryInv
    OBVIOUS
<1>1. StorageOK
    BY MachineNamed DEF Init, StorageOK, Remembered, Served
<1> QED
    BY <1>1, FactoryAssumption DEF Init, FactoryInv

(* Storing and purging under the name of a configuration, together with    *)
(* what is remembered of it.                                               *)
LEMMA PairStored ==
    ASSUME FactoryInv, NEW config \in Configs, NEW pair \in Pair,
           config.authnType \in KeyTypes \cup {"cloud"},
           StorePair(MachineOf(config), pair), Remember(config, pair.role), UNCHANGED backend
    PROVE  StorageOK'
<1> DEFINE m == MachineOf(config)
<1>1. m \in Machines /\ \A k \in Configs : MachineOf(k) \in Machines /\ UNCHANGED MachineOf(k)
    BY MachineNamed DEF FactoryInv, Served, MachineOf, Machine
<1>2. pair # None /\ pair.role # None /\ pair.role \in Roles
    BY FactoryAssumption DEF Pair, Actor
<1>3. \A k \in Configs : MachineOf(k) = m <=> SameLogin(k, config)
    BY SameMachine DEF Served
<1>4. CASE backend = "none"
    BY <1>1, <1>2, <1>4 DEF StorePair, Remember, FactoryInv, StorageOK, Remembered, storage
<1>6. backend \in {"file", "keyring", "none"} /\ backend' = backend
    BY DEF FactoryInv
<1>5. CASE backend # "none"
    <2>1. /\ pairs' = [pairs EXCEPT ![m] = pair]
          /\ sessions' = IF backend = "file" THEN [sessions EXCEPT ![m] = None] ELSE sessions
          /\ latest' = [k \in Configs |-> IF SameLogin(k, config) THEN pair.role
                                          ELSE latest[k]]
        BY <1>5 DEF StorePair, Remember
    <2>2. ASSUME NEW k \in Configs PROVE Remembered(k)'
        <3>1. CASE SameLogin(k, config)
            <4>1. /\ MachineOf(k) = m /\ pairs'[m] = pair /\ latest'[k] = pair.role
                  /\ backend = "file" => sessions'[m] = None
                BY <1>1, <1>3, <2>1, <3>1 DEF FactoryInv, StorageOK
            <4>2. k.authnType \in CodeTypes => k.authnType = "cloud"
                BY <3>1 DEF SameLogin, KeyTypes, CodeTypes
            <4> QED
                BY <1>1, <1>2, <1>5, <1>6, <4>1, <4>2 DEF Remembered
        <3>2. CASE ~SameLogin(k, config)
            <4>1. MachineOf(k) # m
                BY <1>3, <3>2
            <4>2. /\ pairs'[MachineOf(k)] = pairs[MachineOf(k)]
                  /\ sessions'[MachineOf(k)] = sessions[MachineOf(k)]
                  /\ latest'[k] = latest[k]
                BY <1>1, <2>1, <3>2, <4>1 DEF FactoryInv, StorageOK
            <4> QED
                BY <1>1, <4>2 DEF Remembered, FactoryInv, StorageOK
        <3> QED
            BY <3>1, <3>2
    <2> QED
        BY <1>1, <1>2, <1>5, <2>1, <2>2 DEF FactoryInv, StorageOK
<1> QED
    BY <1>4, <1>5

LEMMA NothingStored ==
    ASSUME FactoryInv, UNCHANGED <<backend, storage, latest>>
    PROVE  StorageOK'
<1>1. \A k \in Configs : MachineOf(k)' = MachineOf(k)
    BY DEF MachineOf, Machine
<1> QED
    BY <1>1 DEF FactoryInv, StorageOK, Remembered, storage

(* A token that an OIDC code bought is stored and remembered; one that a   *)
(* workload or a JWT bought goes where no login looks.                     *)
LEMMA SessionStored ==
    ASSUME FactoryInv, NEW config \in Served, NEW token \in Token,
           StoreSession(MachineOf(config), token), UNCHANGED backend,
           \/ config.authnType \in CodeTypes /\ token.role \in Roles
              /\ Remember(config, token.role)
           \/ config.authnType \in WorkloadTypes \cup {"jwt"} /\ UNCHANGED latest
    PROVE  StorageOK'
<1> DEFINE m == MachineOf(config)
<1>1. /\ m \in Machines
      /\ \A k \in Configs : MachineOf(k) \in Machines /\ MachineOf(k)' = MachineOf(k)
    BY MachineNamed DEF FactoryInv, Served, MachineOf, Machine
<1>2. token # None /\ backend \in {"file", "keyring", "none"}
    BY FactoryAssumption DEF FactoryInv
<1>3. \A k \in Configs : MachineOf(k) = m <=> SameLogin(k, config)
    BY SameMachine DEF Served
<1>4. CASE backend = "none"
    <2>1. UNCHANGED <<pairs, sessions, latest>>
        BY <1>4 DEF StoreSession, storage, Remember, FactoryInv, StorageOK
    <2> QED
        BY <2>1, NothingStored DEF storage
<1>5. CASE backend # "none"
    <2>1. /\ sessions' = [sessions EXCEPT ![m] = token]
          /\ pairs' = IF backend = "file" THEN [pairs EXCEPT ![m] = None] ELSE pairs
        BY <1>5 DEF StoreSession
    <2>2. latest' \in [Configs -> Roles \cup {None}]
        BY DEF Remember, FactoryInv, StorageOK
    <2>3. ASSUME NEW k \in Configs PROVE Remembered(k)'
        <3>1. CASE SameLogin(k, config)
            <4>1. /\ MachineOf(k) = m /\ sessions'[m] = token
                  /\ backend = "file" => pairs'[m] = None
                BY <1>1, <1>3, <2>1, <3>1 DEF FactoryInv, StorageOK
            <4>2. k.authnType \notin KeyTypes
                BY <3>1 DEF SameLogin, KeyTypes, CodeTypes, WorkloadTypes
            <4>3. k.authnType \in CodeTypes => latest'[k] = token.role
                BY <1>5, <3>1 DEF SameLogin, CodeTypes, WorkloadTypes, Remember
            <4> QED
                BY <1>1, <1>2, <1>5, <4>1, <4>2, <4>3 DEF Remembered
        <3>2. CASE ~SameLogin(k, config)
            <4>1. MachineOf(k) # m
                BY <1>3, <3>2
            <4>2. /\ pairs'[MachineOf(k)] = pairs[MachineOf(k)]
                  /\ sessions'[MachineOf(k)] = sessions[MachineOf(k)]
                  /\ latest'[k] = latest[k]
                BY <1>1, <2>1, <3>2, <4>1 DEF FactoryInv, StorageOK, Remember
            <4> QED
                BY <1>1, <4>2 DEF Remembered, FactoryInv, StorageOK
        <3> QED
            BY <3>1, <3>2
    <2> QED
        BY <1>1, <1>2, <1>5, <2>1, <2>2, <2>3 DEF FactoryInv, StorageOK
<1> QED
    BY <1>4, <1>5

LEMMA Purged ==
    ASSUME FactoryInv, NEW config \in Served, Purge(MachineOf(config)),
           Remember(config, None), UNCHANGED backend
    PROVE  StorageOK'
<1> DEFINE m == MachineOf(config)
<1>1. /\ m \in Machines
      /\ \A k \in Configs : MachineOf(k) \in Machines /\ MachineOf(k)' = MachineOf(k)
    BY MachineNamed DEF FactoryInv, Served, MachineOf, Machine
<1>2. \A k \in Configs : MachineOf(k) = m <=> SameLogin(k, config)
    BY SameMachine DEF Served
<1>3. /\ pairs' = [pairs EXCEPT ![m] = None]
      /\ sessions' = [sessions EXCEPT ![m] = None]
      /\ latest' \in [Configs -> Roles \cup {None}]
    BY DEF Purge, Remember, FactoryInv, StorageOK
<1>4. ASSUME NEW k \in Configs PROVE Remembered(k)'
    <2>1. CASE SameLogin(k, config)
        <3>1. MachineOf(k) = m /\ pairs'[m] = None /\ sessions'[m] = None
            BY <1>1, <1>2, <1>3, <2>1 DEF FactoryInv, StorageOK
        <3>2. k.authnType \in KeyTypes => latest'[k] = None
            <4>1. CASE backend = "none"
                BY <1>1, <4>1 DEF Remember, FactoryInv, StorageOK, Remembered
            <4>2. CASE backend # "none"
                BY <2>1, <4>2 DEF Remember
            <4> QED
                BY <4>1, <4>2
        <3> QED
            BY <1>1, <3>1, <3>2 DEF Remembered
    <2>2. CASE ~SameLogin(k, config)
        <3>1. /\ pairs'[MachineOf(k)] = pairs[MachineOf(k)]
              /\ sessions'[MachineOf(k)] = sessions[MachineOf(k)]
              /\ latest'[k] = latest[k]
            BY <1>1, <1>2, <1>3, <2>2 DEF FactoryInv, StorageOK, Remember
        <3> QED
            BY <1>1, <3>1 DEF Remembered, FactoryInv, StorageOK
    <2> QED
        BY <2>1, <2>2
<1> QED
    BY <1>1, <1>3, <1>4 DEF FactoryInv, StorageOK


-----------------------------------------------------------------------------
(* The clients of a process.                                               *)
LEMMA ClientBuilt ==
    ASSUME FactoryInv, NEW config \in Served, NEW authenticator \in Authenticators,
           NEW role \in Actor, NEW apiKey \in 0 .. MaxKey,
           authenticator = "code" => config.authnType \in CodeTypes /\ role \in Roles
    PROVE  GoodClient(NewClient(config, authenticator, role, apiKey))
<1>1. MachineOf(config) \in Machines
    BY MachineNamed DEF FactoryInv
<1> QED
    BY <1>1 DEF GoodClient, NewClient, Clients, Served

LEMMA KeyClientBuilt ==
    ASSUME FactoryInv, NEW config \in Configs, NEW pair \in Pair
    PROVE  GoodClient(NewClientFromKey(config, pair))
<1> DEFINE served == [config EXCEPT !.authnType = IF @ = "cloud" THEN "authn" ELSE @]
<1>1. served \in Served
    BY FactoryAssumption DEF Served
<1>2. pair.role \in Actor /\ pair.key \in 0 .. MaxKey
    BY DEF Pair, Actor
<1>3. "key" \in Authenticators /\ "key" # "code"
    BY DEF Authenticators
<1> QED
    BY <1>1, <1>2, <1>3, ClientBuilt DEF NewClientFromKey

LEMMA TokenHeld ==
    ASSUME NEW c, GoodClient(c), NEW token \in Token \cup {None}
    PROVE  /\ GoodClient([c EXCEPT !.token = token])
           /\ [c EXCEPT !.token = token].token = token
BY DEF GoodClient, Clients

LEMMA PreferenceSet ==
    ASSUME NEW c, GoodClient(c)
    PROVE  GoodClient([c EXCEPT !.preferCachedToken = TRUE])
BY DEF GoodClient, Clients

LEMMA CodeUsed ==
    ASSUME NEW c, GoodClient(c)
    PROVE  GoodClient([c EXCEPT !.authenticator = IF @ = "code" THEN "usedCode" ELSE @])
BY DEF GoodClient, Clients, Authenticators

LEMMA CachedTokenTaken ==
    ASSUME FactoryInv, NEW c, GoodClient(c)
    PROVE  GoodClient(WithCachedToken(c))
<1>1. sessions[c.machine] \in Token \cup {None}
    BY DEF FactoryInv, StorageOK, GoodClient, Clients
<1> QED
    BY <1>1, TokenHeld DEF WithCachedToken

LEMMA TokenIssued ==
    ASSUME FactoryInv, NEW c, GoodClient(c)
    PROVE  /\ Obtained(c) \in Token \cup {None}
           /\ GoodClient(Holding(c))
           /\ StoresToken(c) => Obtained(c) \in Token /\ Obtained(c).role = c.role
<1>1. c.role \in Actor /\ c.token \in Token \cup {None}
    BY DEF GoodClient, Clients
<1>2. [role |-> c.role, issued |-> epoch] \in Token
    BY <1>1 DEF Token, FactoryInv
<1>3. Obtained(c) \in Token \cup {None}
    BY <1>1, <1>2 DEF Obtained
<1> QED
    BY <1>2, <1>3, TokenHeld DEF Holding, Obtained, StoresToken

(* Whoever the client of the next state is, it is well named.              *)
LEMMA StillGood ==
    ASSUME NEW c, GoodClient(c), client' = c, UNCHANGED backend
    PROVE  GoodClient(client)'
BY DEF GoodClient, MachineOf, Machine, Clients, Machines

LEMMA Authenticated ==
    ASSUME FactoryInv, NEW c, GoodClient(c), NEW done, GoodClient(done),
           Authenticates(c, done), UNCHANGED backend
    PROVE  StorageOK' /\ GoodClient(client)'
<1>1. GoodClient(client)'
    BY CodeUsed, StillGood DEF Authenticates
<1>2. c.config \in Served /\ c.machine = MachineOf(c.config)
    BY DEF GoodClient, Clients, Served
<1>3. Accepted(c)
    BY DEF Authenticates
<1>4. CASE c.authenticator = "code"
    <2>1. c.config.authnType \in CodeTypes /\ c.role \in Roles
        BY <1>4 DEF GoodClient
    <2>2. StoresToken(c)
        BY <1>4, <2>1 DEF StoresToken, CodeTypes
    <2>3. Obtained(c) \in Token /\ Obtained(c).role = c.role
        BY <2>2, TokenIssued
    <2>4. /\ StoreSession(MachineOf(c.config), Obtained(c))
          /\ Remember(c.config, Obtained(c).role)
        BY <1>2, <1>4, <2>2, <2>3 DEF Authenticates
    <2> QED
        BY <1>1, <1>2, <2>1, <2>3, <2>4, SessionStored
<1>5. CASE c.authenticator # "code" /\ StoresToken(c)
    <2>1. c.config.authnType \in WorkloadTypes \cup {"jwt"}
        BY <1>3, <1>5 DEF Accepted, StoresToken
    <2>2. Obtained(c) \in Token
        BY <1>5, TokenIssued
    <2>3. StoreSession(MachineOf(c.config), Obtained(c)) /\ UNCHANGED latest
        BY <1>2, <1>5 DEF Authenticates
    <2> QED
        BY <1>1, <1>2, <2>1, <2>2, <2>3, SessionStored
<1>6. CASE ~StoresToken(c)
    <2>1. c.authenticator # "code"
        BY <1>6 DEF StoresToken, GoodClient, CodeTypes
    <2>2. UNCHANGED <<storage, latest>>
        BY <1>6, <2>1 DEF Authenticates
    <2> QED
        BY <1>1, <2>2, NothingStored
<1> QED
    BY <1>4, <1>5, <1>6

LEMMA Refreshed ==
    ASSUME FactoryInv, NEW c, GoodClient(c), NEW failed,
           failed = None \/ GoodClient(failed), RefreshToken(c, failed), UNCHANGED backend
    PROVE  StorageOK' /\ (client' = None \/ GoodClient(client)')
<1> DEFINE d == WithCachedToken(c)
<1>1. GoodClient(d) /\ GoodClient(Holding(d))
    BY CachedTokenTaken, TokenIssued
<1>2. CASE client' = d /\ UNCHANGED <<storage, latest>>
    BY <1>1, <1>2, NothingStored, StillGood
<1>3. CASE Authenticates(d, Holding(d))
    BY <1>1, <1>3, Authenticated
<1>4. CASE client' = failed /\ UNCHANGED <<storage, latest>>
    BY <1>4, NothingStored, StillGood
<1> QED
    BY <1>2, <1>3, <1>4 DEF RefreshToken

-----------------------------------------------------------------------------
(* The constructors.                                                       *)
LEMMA StoredClient ==
    ASSUME FactoryInv, NEW config \in Configs
    PROVE  LET c == newClientFromStoredCredentials(config) IN c = None \/ GoodClient(c)
<1> DEFINE m == MachineOf(config)
<1>1. m \in Machines
    BY MachineNamed DEF FactoryInv, Served
<1>2. pairs[m] \in Pair \cup {None} /\ sessions[m] \in Token \cup {None}
    BY <1>1 DEF FactoryInv, StorageOK
<1>3. CASE config.authnType \in KeyTypes \cup {"cloud"} /\ pairs[m] # None
    BY <1>2, <1>3, KeyClientBuilt DEF newClientFromStoredCredentials
<1>4. CASE /\ ~(config.authnType \in KeyTypes \cup {"cloud"} /\ pairs[m] # None)
           /\ config.authnType \in CodeTypes /\ Fresh(sessions[m])
    <2>1. sessions[m].role \in Actor
        BY <1>2, <1>4 DEF Fresh, Token
    <2>2. config \in Served /\ 0 \in 0 .. MaxKey /\ "emptyCode" \in Authenticators
        BY FactoryAssumption DEF Served, Authenticators
    <2>3. GoodClient(NewClient(config, "emptyCode", sessions[m].role, 0))
        BY <2>1, <2>2, ClientBuilt
    <2> QED
        BY <1>4, <2>3, PreferenceSet DEF newClientFromStoredCredentials
<1> QED
    BY <1>3, <1>4 DEF newClientFromStoredCredentials

LEMMA WorkloadClients ==
    ASSUME FactoryInv, NEW config \in Configs
    PROVE  /\ GoodClient(NewClient(config, "workload", Workload, 0))
           /\ GoodClient(NewClient(config, "jwt", Workload, 0))
<1>1. config \in Served /\ Workload \in Actor /\ 0 \in 0 .. MaxKey
    BY FactoryAssumption DEF Served, Actor
<1>2. {"workload", "jwt"} \subseteq Authenticators
    BY DEF Authenticators
<1> QED
    BY <1>1, <1>2, ClientBuilt

LEMMA VariablesClient ==
    ASSUME FactoryInv, NEW config \in Configs, NEW env, NEW role \in Roles
    PROVE  GoodClient(NewClientFromVariables(config, env, role))
<1>1. config \in Served /\ role \in Actor /\ 0 \in 0 .. MaxKey
    BY FactoryAssumption DEF Served, Actor
<1>2. {"tokenFile", "token"} \subseteq Authenticators
    BY DEF Authenticators
<1>3. /\ GoodClient(NewClient(config, "tokenFile", role, 0))
      /\ GoodClient(NewClient(config, "token", role, 0))
    BY <1>1, <1>2, ClientBuilt
<1>4. [role |-> role, issued |-> epoch] \in Token
    BY <1>1 DEF Token, FactoryInv
<1>5. [role |-> role, key |-> key[role]] \in Pair
    BY DEF Pair, FactoryInv
<1>6. CASE "CONJUR_AUTHN_TOKEN_FILE" \in env
    BY <1>3, <1>6 DEF NewClientFromVariables
<1>7. CASE "CONJUR_AUTHN_TOKEN_FILE" \notin env /\ "CONJUR_AUTHN_TOKEN" \in env
    BY <1>3, <1>4, <1>7, TokenHeld DEF NewClientFromVariables
<1>8. CASE "CONJUR_AUTHN_TOKEN_FILE" \notin env /\ "CONJUR_AUTHN_TOKEN" \notin env
    BY <1>5, <1>8, KeyClientBuilt, WorkloadClients
       DEF NewClientFromVariables, NewClientFromJwt
<1> QED
    BY <1>6, <1>7, <1>8

LEMMA EnvironmentRead ==
    ASSUME FactoryInv, NEW config \in Configs, NEW env, NEW role \in Roles,
           NewClientFromEnvironment(config, env, role)
    PROVE  FactoryInv'
<1>1. UNCHANGED <<backend, epoch, key>>
    BY DEF NewClientFromEnvironment
<1>2. SUFFICES StorageOK' /\ (client' = None \/ GoodClient(client)')
    BY <1>1 DEF FactoryInv
<1>3. CASE RefreshToken(NewClientFromCertificate(config), None)
    BY <1>1, <1>3, WorkloadClients, Refreshed DEF NewClientFromCertificate
<1>4. CASE /\ client' = NewClientFromVariables(config, env, role)
           /\ UNCHANGED <<storage, latest>>
    BY <1>1, <1>4, VariablesClient, StillGood, NothingStored
<1>5. CASE /\ client' = newClientFromStoredCredentials(config)
           /\ UNCHANGED <<storage, latest>>
    BY <1>1, <1>5, StoredClient, StillGood, NothingStored
<1>6. CASE newClientFromStoredWorkload(config)
    <2>1. GoodClient([NewClient(config, "workload", Workload, 0)
                         EXCEPT !.preferCachedToken = TRUE])
        BY WorkloadClients, PreferenceSet
    <2> QED
        BY <1>1, <1>6, <2>1, Refreshed DEF newClientFromStoredWorkload
<1> QED
    BY <1>3, <1>4, <1>5, <1>6 DEF NewClientFromEnvironment

LEMMA LoggedIn ==
    ASSUME FactoryInv, NEW config \in Configs, NEW role \in Roles,
           \/ Login(config, role)
           \/ NewClientFromCloudHost(config, role)
           \/ NewClientFromOidcCode(config, role)
    PROVE  FactoryInv'
<1> DEFINE pair == [role |-> role, key |-> key[role]]
<1>1. pair \in Pair /\ pair.role = role
    BY DEF Pair, FactoryInv
<1>2. CASE Login(config, role)
    <2>1. StorageOK'
        BY <1>1, <1>2, PairStored DEF Login
    <2> QED
        BY <1>2, <2>1 DEF Login, FactoryInv, GoodClient, MachineOf, Machine, Clients, Machines
<1>3. CASE NewClientFromCloudHost(config, role)
    <2>1. StorageOK'
        BY <1>1, <1>3, PairStored DEF NewClientFromCloudHost
    <2>2. GoodClient(client)'
        BY <1>1, <1>3, KeyClientBuilt, StillGood DEF NewClientFromCloudHost
    <2> QED
        BY <1>3, <2>1, <2>2 DEF NewClientFromCloudHost, FactoryInv
<1>4. CASE NewClientFromOidcCode(config, role)
    <2>1. config \in Served /\ role \in Actor /\ 0 \in 0 .. MaxKey /\ "code" \in Authenticators
        BY FactoryAssumption DEF Served, Actor, Authenticators
    <2>2. GoodClient(NewClient(config, "code", role, 0))
        BY <1>4, <2>1, ClientBuilt DEF NewClientFromOidcCode
    <2>3. GoodClient(client)' /\ StorageOK'
        BY <1>4, <2>2, StillGood, NothingStored DEF NewClientFromOidcCode
    <2> QED
        BY <1>4, <2>3 DEF NewClientFromOidcCode, FactoryInv
<1> QED
    BY <1>2, <1>3, <1>4

-----------------------------------------------------------------------------
(* A client is no more disturbed by a step that leaves it alone.           *)
LEMMA ClientKept ==
    ASSUME FactoryInv, UNCHANGED <<backend, client>>
    PROVE  client' = None \/ GoodClient(client)'
BY StillGood DEF FactoryInv

LEMMA ClientCalled ==
    ASSUME FactoryInv, Request \/ InternalAuthenticate \/ ForceRefreshToken
    PROVE  FactoryInv'
<1>1. GoodClient(client) /\ UNCHANGED <<backend, epoch, key>>
    BY DEF Request, InternalAuthenticate, ForceRefreshToken, FactoryInv
<1>2. SUFFICES StorageOK' /\ (client' = None \/ GoodClient(client)')
    BY <1>1 DEF FactoryInv
<1>3. CASE Request
    BY <1>1, <1>3, CachedTokenTaken, Refreshed DEF Request
<1>4. CASE UNCHANGED <<client, storage, latest>>
    BY <1>1, <1>4, ClientKept, NothingStored
<1>5. CASE Authenticates(client, client) \/ Authenticates(client, Holding(client))
    BY <1>1, <1>5, TokenIssued, Authenticated
<1> QED
    BY <1>3, <1>4, <1>5 DEF InternalAuthenticate, ForceRefreshToken

LEMMA KeyRotated ==
    ASSUME FactoryInv, RotateCurrentRoleAPIKey
    PROVE  FactoryInv'
<1>1. UNCHANGED <<backend, epoch, storage, latest>> /\ (client' = None \/ UNCHANGED client)
    BY DEF RotateCurrentRoleAPIKey
<1>2. key' \in [Roles -> 0 .. MaxKey]
    <2>1. CASE UNCHANGED key
        BY <2>1 DEF FactoryInv
    <2>2. CASE \E role \in Roles : /\ key[role] < MaxKey
                                  /\ key' = [key EXCEPT ![role] = @ + 1]
        <3>1. PICK role \in Roles : /\ key[role] < MaxKey
                                    /\ key' = [key EXCEPT ![role] = @ + 1]
            BY <2>2
        <3>2. key[role] + 1 \in 0 .. MaxKey
            BY <3>1, FactoryAssumption DEF FactoryInv
        <3> QED
            BY <3>1, <3>2 DEF FactoryInv
    <2>3. pairs[client.machine] # None /\ client # None => pairs[client.machine].role \in Roles
        BY DEF FactoryInv, StorageOK, GoodClient, Clients, Pair
    <2> QED
        BY <2>1, <2>2, <2>3 DEF RotateCurrentRoleAPIKey
<1>3. StorageOK' /\ (client' = None \/ GoodClient(client)')
    BY <1>1, NothingStored, ClientKept
<1> QED
    BY <1>1, <1>2, <1>3 DEF FactoryInv

LEMMA LoggedOut ==
    ASSUME FactoryInv, PurgeOwn \/ \E k \in Configs : PurgeCredentials(k)
    PROVE  FactoryInv'
<1>1. UNCHANGED <<backend, epoch, key, client>>
    BY DEF PurgeOwn, PurgeCredentials
<1>2. StorageOK'
    <2>1. CASE PurgeOwn
        <3>1. client.config \in Served /\ client.machine = MachineOf(client.config)
            BY <2>1 DEF PurgeOwn, FactoryInv, GoodClient, Clients, Served
        <3> QED
            BY <1>1, <2>1, <3>1, Purged DEF PurgeOwn
    <2>2. ASSUME NEW k \in Configs, PurgeCredentials(k) PROVE StorageOK'
        BY <1>1, <2>2, Purged DEF PurgeCredentials, Served
    <2> QED
        BY <2>1, <2>2
<1> QED
    BY <1>1, <1>2, ClientKept DEF FactoryInv

LEMMA FactoryStep == FactoryInv /\ [Next]_vars => FactoryInv'
<1> SUFFICES ASSUME FactoryInv, [Next]_vars PROVE FactoryInv'
    OBVIOUS
<1>1. ASSUME NEW k \in Configs, NEW r \in Roles,
             Login(k, r) \/ NewClientFromCloudHost(k, r) \/ NewClientFromOidcCode(k, r)
      PROVE  FactoryInv'
    BY <1>1, LoggedIn
<1>2. ASSUME NEW k \in Configs, NewClientFromWorkload(k) PROVE FactoryInv'
    <2>1. GoodClient(client)' /\ StorageOK'
        BY <1>2, WorkloadClients, StillGood, NothingStored DEF NewClientFromWorkload
    <2> QED
        BY <1>2, <2>1 DEF NewClientFromWorkload, FactoryInv
<1>3. ASSUME NEW k \in Configs, NEW env, NEW r \in Roles, NewClientFromEnvironment(k, env, r)
      PROVE  FactoryInv'
    BY <1>3, EnvironmentRead
<1>4. CASE Exit
    BY <1>4, NothingStored DEF Exit, FactoryInv
<1>5. CASE GrowOld
    <2>1. epoch' \in 0 .. MaxEpoch
        BY <1>5, FactoryAssumption DEF GrowOld, FactoryInv
    <2>2. StorageOK' /\ (client' = None \/ GoodClient(client)')
        BY <1>5, NothingStored, ClientKept DEF GrowOld
    <2> QED
        BY <1>5, <2>1, <2>2 DEF GrowOld, FactoryInv
<1>6. CASE UNCHANGED vars
    <2>1. StorageOK' /\ (client' = None \/ GoodClient(client)')
        BY <1>6, NothingStored, ClientKept DEF vars, storage
    <2> QED
        BY <1>6, <2>1 DEF vars, FactoryInv
<1> QED
    BY <1>1, <1>2, <1>3, <1>4, <1>5, <1>6, ClientCalled, KeyRotated, LoggedOut DEF Next

LEMMA FactoryInvariant == Spec => []FactoryInv
BY FactoryInit, FactoryStep, PTL DEF Spec

-----------------------------------------------------------------------------
(* The state keeps its types; in particular a .netrc entry never holds a   *)
(* pair and a session, whatever stored them.                               *)
THEOREM TypeCorrect == Spec => []TypeOK
<1>1. FactoryInv => TypeOK
    BY DEF FactoryInv, StorageOK, GoodClient, TypeOK
<1> QED
    BY <1>1, FactoryInvariant, PTL

(* newClientFromStoredCredentials makes a client of the role that logged   *)
(* in last with the same configuration, or none.                           *)
THEOREM LatestLoginActs == Spec => []LatestLogin
<1>1. FactoryInv => LatestLogin
    <2> SUFFICES ASSUME FactoryInv, NEW k \in Configs,
                        newClientFromStoredCredentials(k) # None,
                        ~(backend = "keyring" /\ k.authnType = "cloud")
                 PROVE  newClientFromStoredCredentials(k).role = latest[k]
        BY DEF LatestLogin
    <2> DEFINE m == MachineOf(k)
    <2>1. Remembered(k)
        BY DEF FactoryInv, StorageOK
    <2>2. CASE k.authnType \in KeyTypes \cup {"cloud"} /\ pairs[m] # None
        <3>1. newClientFromStoredCredentials(k) = NewClientFromKey(k, pairs[m])
            BY <2>2 DEF newClientFromStoredCredentials
        <3>2. NewClientFromKey(k, pairs[m]).role = pairs[m].role
            BY DEF NewClientFromKey, NewClient
        <3> QED
            BY <2>1, <2>2, <3>1, <3>2 DEF Remembered
    <2>3. CASE ~(k.authnType \in KeyTypes \cup {"cloud"} /\ pairs[m] # None)
        <3>1. /\ k.authnType \in CodeTypes /\ sessions[m] # None
              /\ newClientFromStoredCredentials(k) =
                    [NewClient(k, "emptyCode", sessions[m].role, 0)
                        EXCEPT !.preferCachedToken = TRUE]
            BY <2>3 DEF newClientFromStoredCredentials, Fresh
        <3>2. newClientFromStoredCredentials(k).role = sessions[m].role
            BY <3>1 DEF NewClient
        <3> QED
            BY <2>1, <3>1, <3>2 DEF Remembered
    <2> QED
        BY <2>2, <2>3
<1> QED
    BY <1>1, FactoryInvariant, PTL

(* The pair of a login outlives every process but a logout's.              *)
THEOREM LoginStays == Spec => []LoginKept
<1>1. FactoryInv => LoginKept
    <2> SUFFICES ASSUME FactoryInv, NEW k \in Configs,
                        k.authnType \in KeyTypes, latest[k] # None
                 PROVE  newClientFromStoredCredentials(k) # None
        BY DEF LoginKept
    <2> DEFINE m == MachineOf(k)
    <2>1. m \in Machines /\ pairs[m] # None
        BY MachineNamed DEF FactoryInv, StorageOK, Remembered, Served
    <2>2. pairs[m] \in Pair
        BY <2>1 DEF FactoryInv, StorageOK
    <2>3. NewClientFromKey(k, pairs[m]) # None
        BY <2>2, KeyClientBuilt, FactoryAssumption DEF GoodClient
    <2> QED
        BY <2>1, <2>3 DEF newClientFromStoredCredentials
<1> QED
    BY <1>1, FactoryInvariant, PTL
=============================================================================
