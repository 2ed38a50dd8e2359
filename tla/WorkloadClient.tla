---------------------------- MODULE WorkloadClient ----------------------------
(***************************************************************************)
(* A client that lives for long: its goroutines call operation after       *)
(* operation while the server is upgraded, credentials are rotated and     *)
(* the network fails.  What the client keeps over that time is the         *)
(* version of the server, a JWT, a TLS connection and the access token,    *)
(* of which only the presence counts here (see TokenSession).              *)
(***************************************************************************)
EXTENDS Operations, WorkloadCredential

CONSTANTS
    Callers,      \* the goroutines
    Versions,     \* the versions that the server may run
    Deployments,  \* the appliances with their clients' configurations
    MaxChanges    \* bound on upgrades, rotations and outages together

Deployment == [cloud : BOOLEAN, saas : BOOLEAN, info : {"possum", "no possum", "404"},
               kind : Kinds, versions : SUBSET Versions]

ASSUME WorkloadAssumption ==
    /\ \A v \in Versions : v \in Seq(Nat) /\ v # <<>>
    /\ Deployments \subseteq Deployment
    /\ MaxChanges \in Nat

VARIABLES
    deployment,
    version,       \* the version that the server runs
    ran,           \* those that it has run in the client's life
    conjurVersion, \* the version that the client keeps; <<>> if none
    token,         \* does the client hold an access token that is not due?
    reachable,     \* is the network up?
    exited,        \* has the process ended?
    changes,       \* how many upgrades, rotations and outages there were
    pc,            \* the request that each goroutine is about to make
    op,            \* the operation that it is in
    told           \* what its last operation told it, and from what

serverVars == <<deployment, version, ran>>
vars == <<credentialVars, serverVars, conjurVersion, token, reachable, exited, changes,
          pc, op, told>>

Idle == [outcome |-> "none"]
TellsVersion == [outcome : {"too old"}, min : {DryRunMinVersion, MinVersion, LdapMappingsMinVersion},
                 unknown : BOOLEAN]
TellsAnswer == [outcome : {"value", "stream", "done", "yes", "no", "error"},
                reader : Readers, answer : Answer]
Tells == [outcome : {"none", "unsupported", "invalid", "refused", "failed"}]
             \cup TellsVersion \cup TellsAnswer

Init ==
    /\ deployment \in Deployments
    /\ version \in deployment.versions /\ ran = {version}
    /\ kind = deployment.kind /\ CredentialInit(kind)
    /\ pem = [c \in Callers |-> None]
    /\ conjurVersion = <<>> /\ token = FALSE
    /\ reachable = TRUE /\ exited = FALSE /\ changes = 0
    /\ pc = [c \in Callers |-> "idle"]
    /\ op \in [Callers -> {None}]
    /\ told = [c \in Callers |-> Idle]

-----------------------------------------------------------------------------
(* Steps of a call.                                                        *)
Goes(c, to) == /\ pc' = [pc EXCEPT ![c] = to]
               /\ UNCHANGED <<op, told>>

Returns(c, what) == /\ pc' = [pc EXCEPT ![c] = "idle"]
                    /\ op' = [op EXCEPT ![c] = None]
                    /\ told' = [told EXCEPT ![c] = what]

Fails(c) == Returns(c, [outcome |-> "failed"])

(* The operation o passes its gate: its arguments are made into a request, *)
(* which needs a token or not.                                             *)
Admit(c, o) ==
    \/ Returns(c, [outcome |-> "invalid"])
    \/ /\ pc' = [pc EXCEPT ![c] = IF o.auth /\ ~token THEN "token" ELSE "answer"]
       /\ op' = [op EXCEPT ![c] = o]
       /\ told' = [told EXCEPT ![c] = Idle]

Judge(c, o, v) ==
    IF validateMinVersion(v, o.gate.min) THEN Admit(c, o)
    ELSE Returns(c, [outcome |-> "too old", min |-> o.gate.min, unknown |-> v = <<>>])

VerifyMinServerVersion(c, o) ==
    IF conjurVersion # <<>> THEN Judge(c, o, conjurVersion)
    ELSE /\ pc' = [pc EXCEPT ![c] = "version"]
         /\ op' = [op EXCEPT ![c] = o]
         /\ told' = [told EXCEPT ![c] = Idle]

Begin(c, o) ==
    /\ pc[c] = "idle" /\ ~exited
    /\ IF Unsupported(o.gate, deployment.cloud, deployment.saas)
       THEN Returns(c, [outcome |-> "unsupported"])
       ELSE IF NeedsVersion(o.gate, deployment.cloud, deployment.saas)
       THEN VerifyMinServerVersion(c, o)
       ELSE Admit(c, o)
    /\ UNCHANGED <<credentialVars, serverVars, conjurVersion, token, reachable, exited, changes>>

(* ServerVersion: of the service "possum" at /info, which may be missing;  *)
(* where /info fails, of the root endpoint.  <<>> stands for an error.     *)
ServerVersion ==
    IF deployment.cloud \/ ~reachable THEN {<<>>}
    ELSE CASE deployment.info = "possum"    -> {version, <<>>}
           [] deployment.info = "no possum" -> {<<>>}
           [] OTHER                         -> {version}

\* Mutant of Learn: a failed lookup is kept as version 0.
LearnsFailure(v) == conjurVersion' = IF v = <<>> THEN <<0>> ELSE v

Learn(v) == conjurVersion' = v

AskVersion(c) ==
    /\ pc[c] = "version" /\ Connected /\ ~exited
    /\ \E v \in ServerVersion : Learn(v) /\ Judge(c, op[c], v)
    /\ UNCHANGED <<credentialVars, serverVars, token, reachable, exited, changes>>

(* The authenticators that keep a JWT fetch it first.                      *)
FetchJWT(c) ==
    /\ pc[c] = "token" /\ Connected /\ ~exited
    /\ RefreshJWT
    /\ reachable \/ kind = "jwt file"
    /\ Goes(c, "present")
    /\ UNCHANGED <<serverVars, conjurVersion, token, reachable, exited, changes>>

FetchFails(c) ==
    /\ pc[c] = "token" /\ MustFetch /\ ~exited
    /\ ~reachable /\ kind # "jwt file"
    /\ exited' = ExitsWithoutService
    /\ Fails(c)
    /\ UNCHANGED <<credentialVars, serverVars, conjurVersion, token, reachable, changes>>

Authenticate(c) ==
    /\ pc[c] = "present" \/ (pc[c] = "token" /\ ~MustFetch)
    /\ Connected /\ ~exited /\ reachable
    /\ \/ /\ Accepts(Presented)
          /\ token' = TRUE
          /\ Goes(c, "answer")
       \/ /\ ~Accepts(Presented)
          /\ Returns(c, [outcome |-> "refused"])
          /\ UNCHANGED token
    /\ UNCHANGED <<credentialVars, serverVars, conjurVersion, reachable, exited, changes>>

ReceiveAnswer(c) ==
    /\ pc[c] = "answer" /\ Connected /\ ~exited /\ reachable
    /\ \E answer \in Answer :
          Returns(c, [outcome |-> Told(op[c].reader, answer),
                      reader |-> op[c].reader, answer |-> answer])
    /\ UNCHANGED <<credentialVars, serverVars, conjurVersion, token, reachable, exited, changes>>

Exchanging(c) == pc[c] = "present" \/ pc[c] = "answer" \/ (pc[c] = "token" /\ ~MustFetch)

NoAnswer(c) ==
    /\ Exchanging(c) /\ Connected /\ ~exited /\ ~reachable
    /\ Fails(c)
    /\ UNCHANGED <<credentialVars, serverVars, conjurVersion, token, reachable, exited, changes>>

(* Any request may find that it has to connect.                            *)
Handshake(c) ==
    /\ pc[c] # "idle" /\ ~exited
    /\ \/ /\ ReadCertFile(c) \/ ReadKeyFile(c)
          /\ UNCHANGED <<pc, op, told>>
       \/ /\ HandshakeFails(c) /\ pc[c] # "version"
          /\ Fails(c)
       \/ /\ HandshakeFails(c) /\ pc[c] = "version"
          /\ Returns(c, [outcome |-> "too old", min |-> op[c].gate.min, unknown |-> TRUE])
    /\ UNCHANGED <<serverVars, conjurVersion, token, reachable, exited, changes>>

Step(c) ==
    \/ AskVersion(c) \/ FetchJWT(c) \/ FetchFails(c) \/ Authenticate(c)
    \/ ReceiveAnswer(c) \/ NoAnswer(c) \/ Handshake(c)

-----------------------------------------------------------------------------
(* What happens around the client.                                         *)
Change == changes < MaxChanges /\ changes' = changes + 1

Upgrade == /\ Change
           /\ version' \in deployment.versions \ {version}
           /\ ran' = ran \cup {version'}
           /\ UNCHANGED <<credentialVars, deployment, conjurVersion, token, reachable, exited,
                          pc, op, told>>

Rotate == /\ Change /\ Issue
          /\ UNCHANGED <<serverVars, conjurVersion, token, reachable, exited, pc, op, told>>

Outage == /\ Change /\ reachable
          /\ reachable' = FALSE /\ connection' = None
          /\ UNCHANGED <<kind, issued, oldest, source, jwt, pem, serverVars, conjurVersion,
                         token, exited, pc, op, told>>

Restore == /\ ~reachable
           /\ reachable' = TRUE
           /\ UNCHANGED <<credentialVars, serverVars, conjurVersion, token, exited, changes,
                          pc, op, told>>

TokenDue == /\ token /\ token' = FALSE
            /\ UNCHANGED <<credentialVars, serverVars, conjurVersion, reachable, exited, changes,
                           pc, op, told>>

Distribution ==
    /\ \/ \E p \in DOMAIN source : Truncate(p) \/ Distribute(p)
       \/ Retire
       \/ Disconnect
    /\ UNCHANGED <<serverVars, conjurVersion, token, reachable, exited, changes, pc, op, told>>

Next ==
    \/ \E c \in Callers : Step(c) \/ \E o \in Operations : Begin(c, o)
    \/ Upgrade \/ Rotate \/ Outage \/ Restore \/ TokenDue \/ Distribution

Spec == Init /\ [][Next]_vars

(* Goroutines go on, an application calls again, and no connection lasts   *)
(* for ever: servers bound their age.                                      *)
Fairness ==
    /\ \A c \in Callers : /\ WF_vars(Step(c))
                          /\ WF_vars(\E o \in Operations : Begin(c, o))
    /\ WF_vars(Disconnect /\ UNCHANGED <<serverVars, conjurVersion, token, reachable, exited,
                                         changes, pc, op, told>>)

FairSpec == Spec /\ Fairness

-----------------------------------------------------------------------------
TypeOK ==
    /\ deployment \in Deployments /\ kind = deployment.kind
    /\ version \in Versions /\ ran \subseteq Versions
    /\ issued \in Credentials /\ oldest \in 0 .. issued
    /\ source \in [Places(kind) -> Credentials \cup {Torn}]
    /\ jwt \in Readable /\ connection \in Credentials \cup {None}
    /\ pem \in [Callers -> Readable]
    /\ conjurVersion \in Versions \cup {<<>>}
    /\ token \in BOOLEAN /\ reachable \in BOOLEAN /\ exited \in BOOLEAN
    /\ changes \in 0 .. MaxChanges
    /\ pc \in [Callers -> {"idle", "version", "token", "present", "answer"}]
    /\ op \in [Callers -> Operation \cup {None}]
    /\ told \in [Callers -> Tells]

Gated(o) == NeedsVersion(o.gate, deployment.cloud, deployment.saas)

(* An operation that needs a version goes on only if the server has run    *)
(* that version, or a later one, since the client was made.                *)
ServerOffers ==
    \A c \in Callers :
        pc[c] \in {"token", "present", "answer"} /\ Gated(op[c])
            => \E v \in ran : ~LessThan(v, op[c].gate.min)

(* An operation is refused for the server's version only if its own lookup *)
(* of the version failed, or the server has run an older version, or one   *)
(* that does not parse, since the client was made: no failure of a lookup  *)
(* outlives its call.                                                      *)
RefusalGrounded ==
    \A c \in Callers :
        told[c].outcome = "too old" /\ ~told[c].unknown
            => \E v \in ran : LessThan(v, told[c].min) \/ ~Parses(v)

(* Whatever way an operation reads its answer, it tells its caller a       *)
(* success, a yes or a no only for an answer that says so, and an error    *)
(* for every other; two operations pass over a body that does not parse.   *)
AnswerTold ==
    \A c \in Callers : told[c] \in TellsAnswer =>
        LET status == told[c].answer.status
            body == told[c].answer.body
            reader == told[c].reader
        IN  CASE told[c].outcome = "value" ->
                   /\ status = "2xx" \/ (reader = "dryRun" /\ status = "422")
                   /\ body # "cut"
                   /\ reader \in {"json", "dryRun"} => body = "expected"
              [] told[c].outcome \in {"stream", "done"} -> status = "2xx"
              [] told[c].outcome = "yes" -> status \in {"2xx", "403"}
              [] told[c].outcome = "no" -> status \in {"403", "404"}
              [] OTHER -> ~(status = "2xx" /\ body = "expected")

(* A client without a credential of its own keeping that the server has    *)
(* stopped to accept, recovers by itself: once the network is up and the   *)
(* source has received the latest credential for good, its calls neither   *)
(* fail nor are refused any more.  A rotated certificate is followed.      *)
KeepsRefused == /\ kind \in JwtKinds \cup {"cert content"}
                /\ Presented # None /\ ~Accepts(Presented)

Troubled == \E c \in Callers : told[c].outcome \in {"refused", "failed"}

Recovers ==
    <>[](Whole /\ reachable) => <>[](~Troubled) \/ <>[]KeepsRefused \/ <>exited
=============================================================================
