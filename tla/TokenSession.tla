---------------------------- MODULE TokenSession ----------------------------
(***************************************************************************)
(* One conjurapi.Client used by several goroutines: how it obtains,        *)
(* caches, renews and sends its access token (conjurapi/authn.go).         *)
(*                                                                         *)
(* The Client has no lock.  Each caller runs createAuthRequest, or         *)
(* ForceRefreshToken, or InternalAuthenticate, and the steps of these      *)
(* calls between two accesses to shared state (c.authToken, the credential *)
(* storage, the network) are the actions below.                            *)
(*                                                                         *)
(* Time passes (Tick) while every busy caller waits for the network; the   *)
(* other steps of a call are local to the process and take no model time.  *)
(***************************************************************************)
EXTENDS AccessToken

CONSTANTS
    Callers,        \* goroutines that share the Client
    AuthnType,      \* config.AuthnType
    PreferCached,   \* Client.preferCachedToken: built by newClientFromStored*
    Storage,        \* "none", "readwrite" or "readonly" (CredentialStorageMode)
    StoreFails,     \* may StoreAuthnToken fail?
    SharedStorage,  \* do other processes log in and out in the same storage?
    Lives,          \* the lifetimes the server puts into tokens, NoExp among them
    Timeout,        \* http.Client.Timeout: the longest an exchange may take
    Skew,           \* the server's clock minus the client's
    Horizon,        \* no call starts at this time or later (bound of the model)
    Refused,        \* an answer with a status of 300 and above
    None            \* a nil *AuthnToken, an absent storage entry, no reply yet

AuthnTypes == {"authn", "ldap", "cert", "jwt", "oidc", "iam", "azure", "gcp", "cloud"}

ASSUME SessionAssumption ==
    /\ AuthnType \in AuthnTypes
    /\ PreferCached \in BOOLEAN
    /\ Storage \in {"none", "readwrite", "readonly"}
    /\ StoreFails \in BOOLEAN
    /\ SharedStorage \in BOOLEAN
    /\ Lives \subseteq Nat \cup {NoExp}
    /\ Timeout \in Nat
    /\ Skew \in Int
    /\ Horizon \in Nat
    /\ None \notin Body
    /\ Refused \notin Body \cup {None}

VARIABLES
    now,        \* the client's clock
    authToken,  \* Client.authToken
    stored,     \* the token bytes in the credential storage
    pc,         \* where each caller stands
    op,         \* the operation each caller runs
    since,      \* when the caller's current HTTP exchange began
    reply,      \* what the authentication endpoint answered the caller
    tok         \* token bytes the caller holds in a local variable

vars == <<now, authToken, stored, pc, op, since, reply, tok>>

Ops     == {"request", "force", "internal"}
Waiting == {"awaitToken", "sent"}
Local   == {"readCache", "setCached", "check", "store", "assign", "useToken"}

-----------------------------------------------------------------------------
\* Mutant of UsesCache: every client of these types reuses a stored session.
CacheForAll == AuthnType \in {"oidc", "iam", "azure", "gcp", "cloud"}

(* The client reads the storage before it consults its authenticator.      *)
UsesCache == /\ PreferCached
             /\ AuthnType \in {"oidc", "iam", "azure", "gcp", "cloud"}

\* Mutant of StoresToken: a new token is kept in memory only.
NeverStores == FALSE

(* The authenticators that go through authenticateWithTokenStorage.        *)
StoresToken == /\ Storage = "readwrite"
               /\ AuthnType \in {"oidc", "iam", "azure", "gcp", "cloud", "jwt"}

(* readCachedAccessToken: nil without storage, or when the bytes do not    *)
(* parse.                                                                  *)
CachedToken == IF Storage # "none" /\ stored # None /\ Parses(stored)
               THEN stored ELSE None

\* Mutant of NeedsTokenRefresh: a token is kept until the server rejects it.
RefreshOnlyMissing == authToken = None

NeedsTokenRefresh == authToken # None => ShouldRefresh(authToken, now)

ServerTime == now + Skew

(* What the authentication endpoint can put into a successful answer.      *)
Issued(who) ==
    [shape : {"complete"}, iat : {ServerTime}, owner : {who},
     exp : {IF l = NoExp THEN NoExp ELSE ServerTime + l : l \in Lives}]

Garbage == [shape |-> "malformed", iat |-> 0, exp |-> NoExp, owner |-> "self"]

Goto(c, label) == pc' = [pc EXCEPT ![c] = label]

(* The call returns, and its local variables go out of scope.              *)
EndCall(c) ==
    /\ Goto(c, "idle")
    /\ op' = [op EXCEPT ![c] = "request"]
    /\ since' = [since EXCEPT ![c] = 0]
    /\ reply' = [reply EXCEPT ![c] = None]
    /\ tok' = [tok EXCEPT ![c] = None]

-----------------------------------------------------------------------------
Init ==
    /\ now = 0
    /\ authToken = None
    /\ stored \in {None} \cup Issued("other")
    /\ pc = [c \in Callers |-> "idle"]
    /\ op = [c \in Callers |-> "request"]
    /\ since = [c \in Callers |-> 0]
    /\ reply = [c \in Callers |-> None]
    /\ tok = [c \in Callers |-> None]

(* A goroutine calls the Client.  InternalAuthenticate of an "oidc" client *)
(* only reads the storage and is left out.                                 *)
StartRequest(c) ==
    /\ pc[c] = "idle" /\ now < Horizon
    /\ op' = [op EXCEPT ![c] = "request"]
    /\ Goto(c, IF UsesCache THEN "readCache" ELSE "check")
    /\ UNCHANGED <<now, authToken, stored, since, reply, tok>>

StartForced(c) ==
    /\ pc[c] = "idle" /\ now < Horizon
    /\ \E o \in {"force", "internal"} :
        /\ o = "internal" => AuthnType # "oidc"
        /\ op' = [op EXCEPT ![c] = o]
    /\ Goto(c, "awaitToken")
    /\ since' = [since EXCEPT ![c] = now]
    /\ UNCHANGED <<now, authToken, stored, reply, tok>>

ReadCachedAccessToken(c) ==
    /\ pc[c] = "readCache"
    /\ tok' = [tok EXCEPT ![c] = CachedToken]
    /\ Goto(c, IF CachedToken = None THEN "check" ELSE "setCached")
    /\ UNCHANGED <<now, authToken, stored, op, since, reply>>

SetCachedToken(c) ==
    /\ pc[c] = "setCached"
    /\ authToken' = tok[c]
    /\ tok' = [tok EXCEPT ![c] = None]
    /\ Goto(c, "check")
    /\ UNCHANGED <<now, stored, op, since, reply>>

KeepToken(c) ==
    /\ pc[c] = "check" /\ ~NeedsTokenRefresh
    /\ Goto(c, "useToken")
    /\ UNCHANGED <<now, authToken, stored, op, since, reply, tok>>

Reauthenticate(c) ==
    /\ pc[c] = "check" /\ NeedsTokenRefresh
    /\ Goto(c, "awaitToken")
    /\ since' = [since EXCEPT ![c] = now]
    /\ UNCHANGED <<now, authToken, stored, op, reply, tok>>

(* The authentication endpoint answers: a token, bytes that are no token,  *)
(* or a status of 300 and above.                                           *)
ServerAnswers(c) ==
    /\ pc[c] = "awaitToken" /\ reply[c] = None
    /\ \E r \in Issued("self") \cup {Garbage, Refused} :
          reply' = [reply EXCEPT ![c] = r]
    /\ UNCHANGED <<now, authToken, stored, pc, op, since, tok>>

(* The answer arrives.  authenticateWithTokenStorage writes the bytes to   *)
(* the storage before anything has parsed them; the other authenticators   *)
(* hand them to the caller of RefreshToken.                                *)
ReceiveToken(c) ==
    /\ pc[c] = "awaitToken" /\ reply[c] \notin {None, Refused}
    /\ StoresToken \/ op[c] # "internal"
    /\ tok' = [tok EXCEPT ![c] = reply[c]]
    /\ reply' = [reply EXCEPT ![c] = None]
    /\ since' = [since EXCEPT ![c] = 0]
    /\ Goto(c, IF StoresToken THEN "store" ELSE "assign")
    /\ UNCHANGED <<now, authToken, stored, op>>

(* InternalAuthenticate returns the bytes and leaves c.authToken alone.    *)
ReturnToken(c) ==
    /\ pc[c] = "awaitToken" /\ reply[c] \notin {None, Refused}
    /\ ~StoresToken /\ op[c] = "internal"
    /\ EndCall(c)
    /\ UNCHANGED <<now, authToken, stored>>

\* Mutant of AuthenticationFails: the error is dropped, the request goes on.
FailureIgnored(c) ==
    /\ pc[c] = "awaitToken"
    /\ reply' = [reply EXCEPT ![c] = None]
    /\ Goto(c, "useToken")
    /\ UNCHANGED <<now, authToken, stored, op, since, tok>>

\* Mutant of AuthenticationFails: an http.Client without a timeout.
FailsOnlyWhenRefused(c) ==
    /\ pc[c] = "awaitToken" /\ reply[c] = Refused
    /\ EndCall(c)
    /\ UNCHANGED <<now, authToken, stored>>

(* A refusal, a connection error or the timeout ends the call with an      *)
(* error and leaves the client as it was.                                  *)
AuthenticationFails(c) ==
    /\ pc[c] = "awaitToken"
    /\ EndCall(c)
    /\ UNCHANGED <<now, authToken, stored>>

(* A failed StoreAuthnToken is logged and otherwise ignored.               *)
StoreToken(c) ==
    /\ pc[c] = "store"
    /\ \/ stored' = tok[c]
       \/ StoreFails /\ UNCHANGED stored
    /\ \/ /\ op[c] = "internal"
          /\ EndCall(c)
       \/ /\ op[c] # "internal"
          /\ Goto(c, "assign")
          /\ UNCHANGED <<op, since, reply, tok>>
    /\ UNCHANGED <<now, authToken>>

\* Mutant of AssignToken: the bytes become the token before they are parsed.
AssignUnparsed(c) ==
    /\ pc[c] = "assign"
    /\ authToken' = tok[c]
    /\ EndCall(c)
    /\ UNCHANGED <<now, stored>>

(* NewToken parses the bytes; ForceRefreshToken is then done, and          *)
(* createAuthRequest goes on to use the token.                             *)
AssignToken(c) ==
    /\ pc[c] = "assign" /\ Parses(tok[c])
    /\ authToken' = tok[c]
    /\ \/ op[c] = "force" /\ EndCall(c)
       \/ /\ op[c] # "force"
          /\ Goto(c, "useToken")
          /\ tok' = [tok EXCEPT ![c] = None]
          /\ UNCHANGED <<op, since, reply>>
    /\ UNCHANGED <<now, stored>>

RejectToken(c) ==
    /\ pc[c] = "assign" /\ ~Parses(tok[c])
    /\ EndCall(c)
    /\ UNCHANGED <<now, authToken, stored>>

(* createAuthRequest reads c.authToken again, after RefreshToken returned, *)
(* and the request leaves.                                                 *)
SendRequest(c) ==
    /\ pc[c] = "useToken"
    /\ tok' = [tok EXCEPT ![c] = authToken]
    /\ Goto(c, "sent")
    /\ since' = [since EXCEPT ![c] = now]
    /\ UNCHANGED <<now, authToken, stored, op, reply>>

(* The request is answered, or fails: the Client retries nothing.          *)
RequestEnds(c) ==
    /\ pc[c] = "sent"
    /\ EndCall(c)
    /\ UNCHANGED <<now, authToken, stored>>

(* Another process logs in, or purges the credentials.                     *)
OtherProcess ==
    /\ SharedStorage /\ now < Horizon
    /\ stored' \in {None} \cup Issued("other")
    /\ UNCHANGED <<now, authToken, pc, op, since, reply, tok>>

Tick ==
    /\ now < Horizon \/ \E c \in Callers : pc[c] # "idle"
    /\ \A c \in Callers : /\ pc[c] \notin Local
                          /\ pc[c] \in Waiting => now < since[c] + Timeout
    /\ now' = now + 1
    /\ UNCHANGED <<authToken, stored, pc, op, since, reply, tok>>

(* The end of the model's time: no call runs and none may start.           *)
Quiescent ==
    /\ now >= Horizon /\ \A c \in Callers : pc[c] = "idle"
    /\ UNCHANGED vars

LocalStep(c) ==
    \/ ReadCachedAccessToken(c) \/ SetCachedToken(c)
    \/ KeepToken(c) \/ Reauthenticate(c)
    \/ StoreToken(c) \/ AssignToken(c) \/ RejectToken(c) \/ SendRequest(c)

NetworkStep(c) ==
    \/ ServerAnswers(c) \/ ReceiveToken(c) \/ ReturnToken(c)
    \/ AuthenticationFails(c) \/ RequestEnds(c)

Next ==
    \/ \E c \in Callers : StartRequest(c) \/ StartForced(c)
    \/ \E c \in Callers : LocalStep(c) \/ NetworkStep(c)
    \/ OtherProcess
    \/ Tick
    \/ Quiescent

Spec == Init /\ [][Next]_vars

(* A goroutine that can run does run; an exchange that reaches the timeout *)
(* is ended by http.Client; and time passes, however many calls are made   *)
(* in a minute.  Nothing obliges the server to answer.                     *)
Fairness ==
    /\ SF_vars(Tick)
    /\ \A c \in Callers :
         /\ WF_vars(LocalStep(c))
         /\ WF_vars(now >= since[c] + Timeout /\ (AuthenticationFails(c) \/ RequestEnds(c)))

FairSpec == Spec /\ Fairness

-----------------------------------------------------------------------------
(* Types; in particular c.authToken is nil or a token that parses.       *)
TypeOK ==
    /\ now \in Nat
    /\ authToken \in Token \cup {None}
    /\ stored \in Body \cup {None}
    /\ pc \in [Callers -> {"idle"} \cup Local \cup Waiting]
    /\ op \in [Callers -> Ops]
    /\ since \in [Callers -> Nat]
    /\ reply \in [Callers -> Body \cup {None, Refused}]
    /\ tok \in [Callers -> Body \cup {None}]

(* A caller that leaves RefreshToken without an error finds a token:       *)
(* createAuthRequest never dereferences a nil c.authToken, and the request *)
(* it sends carries one, whatever the other goroutines do meanwhile.       *)
NeverWithoutToken ==
    \A c \in Callers : /\ pc[c] = "useToken" => authToken # None
                       /\ pc[c] = "sent" => tok[c] # None

(* The clock skew and the timeout leave room: the refresh margin (3        *)
(* minutes, or 15% of the life) covers the skew and the exchange, and a    *)
(* new token outlives the exchange that fetched it and the one that uses   *)
(* it.                                                                     *)
TimingMargin ==
    /\ RefreshAge + Skew + Timeout < DefaultLife
    /\ 2 * Timeout < DefaultLife
    /\ \A l \in Lives \ {NoExp} : /\ 100 * (Skew + Timeout) < 15 * l
                                  /\ 2 * Timeout < l

(* A request never reaches the server with an expired token: from the      *)
(* moment the Authorization header is set to the end of the exchange the   *)
(* token is valid by the server's clock.  Needs TimingMargin.              *)
SentUnexpired ==
    \A c \in Callers : pc[c] = "sent" => ~Expired(tok[c], ServerTime)

(* A client built from explicit credentials only ever sends tokens that    *)
(* these credentials obtained, never one found in the storage (0.15.6).    *)
OwnCredentials ==
    ~PreferCached => \A c \in Callers : pc[c] = "sent" => tok[c].owner = "self"

(* The client's clock is not so far ahead that new tokens look old.        *)
AheadMargin ==
    /\ Timeout - Skew <= RefreshAge
    /\ \A l \in Lives \ {NoExp} : 100 * (Timeout - Skew) <= 85 * l

(* A token that is still good is never replaced by one that is due for a   *)
(* refresh, which would make every later call authenticate again.          *)
FreshNotDisplaced ==
    [][authToken # None /\ authToken' # authToken /\ ~ShouldRefresh(authToken, now)
         => ~ShouldRefresh(authToken', now)]_vars

(* Every call returns, whatever the server does.                           *)
CallsEnd == \A c \in Callers : pc[c] # "idle" ~> pc[c] = "idle"
=============================================================================
