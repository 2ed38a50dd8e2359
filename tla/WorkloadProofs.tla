---------------------------- MODULE WorkloadProofs ----------------------------
(***************************************************************************)
(* Theorems about WorkloadClient, for every number of goroutines, every    *)
(* set of versions and of deployments and any number of changes: the run   *)
(* "workload" checks them with one goroutine.                              *)
(*                                                                         *)
(* OpInv says what a goroutine has in its local variable op, VersionInv    *)
(* where the kept version comes from.                                      *)
(***************************************************************************)
EXTENDS WorkloadClient, TLAPS

MinVersions == {DryRunMinVersion, MinVersion, LdapMappingsMinVersion}
Outcomes == {"value", "stream", "done", "yes", "no", "error"}

(* A goroutine in a call is in an operation; one that asks for the version *)
(* is in an operation that needs it.                                       *)
OpInv == \A c \in Callers :
            /\ pc[c] # "idle" => op[c] \in Operation
            /\ pc[c] = "version" => Gated(op[c])

VersionInv == version \in ran /\ conjurVersion \in ran \cup {<<>>}

TypeInv == TypeOK /\ OpInv /\ VersionInv

-----------------------------------------------------------------------------
(* The gates are gates.                                                  *)
LEMMA GateType ==
    /\ Anywhere \in Gate /\ NotCloud \in Gate /\ requireSaaS \in Gate
    /\ PolicySince \in Gate /\ V2Since \in Gate /\ LdapSince \in Gate
<1>1. Anywhere \in Gate
  BY DEF Anywhere, Gate
<1> QED
  BY <1>1 DEF Gate, NotCloud, requireSaaS, PolicySince, V2Since, LdapSince, Since

(* An operation is a record of a gate, whether it has a token, a reader.   *)
LEMMA OpType ==
    ASSUME NEW g \in Gate, NEW r \in Readers
    PROVE  /\ WithToken(g, r) \in Operation
           /\ Op(g, FALSE, r) \in Operation
BY DEF WithToken, Op, Operation

(* Every operation of the client is one.                                 *)
LEMMA OperationsType == Operations \subseteq Operation
<1> USE GateType, OpType DEF Readers
<1>1. /\ IdentityOperations \subseteq Operation
      /\ AuthenticationOperations \subseteq Operation
      /\ RotationOperations \subseteq Operation
      /\ PublicKeys \subseteq Operation
  BY DEF IdentityOperations, AuthenticationOperations, RotationOperations, PublicKeys
<1>2. /\ ResourceOperations \subseteq Operation
      /\ CountOperations \subseteq Operation
      /\ RoleOperations \subseteq Operation
      /\ PolicyOperations \subseteq Operation
  BY DEF ResourceOperations, CountOperations, RoleOperations, PolicyOperations
<1>3. /\ VariableOperations \subseteq Operation
      /\ HostFactoryOperations \subseteq Operation
      /\ IssuerOperations \subseteq Operation
      /\ AuthenticatorOperations \subseteq Operation
  BY DEF VariableOperations, HostFactoryOperations, IssuerOperations, AuthenticatorOperations
<1>4. /\ V2AuthenticatorOperations \subseteq Operation
      /\ LdapMappingOperations \subseteq Operation
      /\ BranchOperations \subseteq Operation
      /\ GroupMemberOperations \subseteq Operation
  BY DEF V2AuthenticatorOperations, LdapMappingOperations, BranchOperations,
         GroupMemberOperations
<1>5. /\ WorkloadOperations \subseteq Operation
      /\ StaticSecretOperations \subseteq Operation
      /\ CertificateOperations \subseteq Operation
      /\ BatchRetrieveSecrets \subseteq Operation
  BY DEF WorkloadOperations, StaticSecretOperations, CertificateOperations,
         BatchRetrieveSecrets
<1> QED
  BY <1>1, <1>2, <1>3, <1>4, <1>5 DEF Operations

(* What may be told.                                                     *)
LEMMA TellsType ==
    /\ \A outcome \in {"none", "unsupported", "invalid", "refused", "failed"} :
           [outcome |-> outcome] \in Tells
    /\ \A min \in MinVersions, unknown \in BOOLEAN :
           [outcome |-> "too old", min |-> min, unknown |-> unknown] \in Tells
    /\ \A outcome \in Outcomes, reader \in Readers, answer \in Answer :
           [outcome |-> outcome, reader |-> reader, answer |-> answer] \in Tells
BY DEF Tells, TellsVersion, TellsAnswer, MinVersions, Outcomes

(* Every reader tells one of the outcomes.                               *)
LEMMA ToldType ==
    ASSUME NEW reader \in Readers, NEW answer \in Answer
    PROVE  Told(reader, answer) \in Outcomes
BY DEF Told, Success, Value, Readers, Outcomes

(* An operation that needs a version needs one of three.                   *)
LEMMA GatedMin ==
    ASSUME NEW o \in Operation, Gated(o)
    PROVE  o.gate.min \in MinVersions
BY DEF Gated, NeedsVersion, Operation, Gate, MinVersions

-----------------------------------------------------------------------------
(* The local variables of the goroutines, in steps that leave the          *)
(* deployment alone.                                                       *)
CallsOK ==
    /\ pc \in [Callers -> {"idle", "version", "token", "present", "answer"}]
    /\ op \in [Callers -> Operation \cup {None}]
    /\ told \in [Callers -> Tells]
    /\ OpInv

(* A call returns.                                                       *)
LEMMA ReturnsOK ==
    ASSUME CallsOK, NEW c \in Callers, NEW what \in Tells, Returns(c, what),
           UNCHANGED deployment
    PROVE  CallsOK'
BY DEF CallsOK, OpInv, Returns, Gated

(* A call fails.                                                         *)
LEMMA FailsOK ==
    ASSUME CallsOK, NEW c \in Callers, Fails(c), UNCHANGED deployment
    PROVE  CallsOK'
BY ReturnsOK, TellsType DEF Fails

(* A call goes on.                                                       *)
LEMMA GoesOK ==
    ASSUME CallsOK, NEW c \in Callers, NEW to \in {"present", "answer"}, Goes(c, to),
           pc[c] # "idle", UNCHANGED deployment
    PROVE  CallsOK'
BY DEF CallsOK, OpInv, Goes, Gated

(* An operation passes its gate.                                         *)
LEMMA AdmitOK ==
    ASSUME CallsOK, NEW c \in Callers, NEW o \in Operation, Admit(c, o),
           UNCHANGED deployment
    PROVE  CallsOK'
<1>1. CASE Returns(c, [outcome |-> "invalid"])
  BY <1>1, ReturnsOK, TellsType
<1>2. CASE ~Returns(c, [outcome |-> "invalid"])
  <2>1. Idle \in Tells
    BY TellsType DEF Idle
  <2> QED BY <1>2, <2>1 DEF Admit, CallsOK, OpInv, Gated
<1> QED BY <1>1, <1>2

(* Its version is compared.                                              *)
LEMMA JudgeOK ==
    ASSUME CallsOK, NEW c \in Callers, NEW o \in Operation, Gated(o), NEW v, Judge(c, o, v),
           UNCHANGED deployment
    PROVE  CallsOK'
<1>1. CASE validateMinVersion(v, o.gate.min)
  BY <1>1, AdmitOK DEF Judge
<1>2. CASE ~validateMinVersion(v, o.gate.min)
  <2> DEFINE what == [outcome |-> "too old", min |-> o.gate.min, unknown |-> v = <<>>]
  <2>1. (v = <<>>) \in BOOLEAN
    OBVIOUS
  <2>2. what \in Tells
    BY <2>1, GatedMin, TellsType
  <2>3. Returns(c, what)
    BY <1>2 DEF Judge
  <2> QED BY <2>2, <2>3, ReturnsOK
<1> QED BY <1>1, <1>2

-----------------------------------------------------------------------------
(* The credential's variables.                                             *)
CredentialOK ==
    /\ kind = deployment.kind
    /\ issued \in Credentials /\ oldest \in 0 .. issued
    /\ source \in [Places(kind) -> Credentials \cup {Torn}]
    /\ jwt \in Readable /\ connection \in Credentials \cup {None}
    /\ pem \in [Callers -> Readable]

(* What the issuer and the distribution do.                              *)
LEMMA IssuerOK ==
    ASSUME CredentialOK, UNCHANGED <<deployment, kind>>,
           \/ Issue \/ Retire \/ Disconnect
           \/ \E p \in DOMAIN source : Truncate(p) \/ Distribute(p)
    PROVE  CredentialOK'
<1> USE CredentialAssumption DEF CredentialOK, Credentials, Readable
<1>1. CASE Issue
  BY <1>1 DEF Issue
<1>2. CASE Retire
  BY <1>2 DEF Retire
<1>3. CASE Disconnect
  BY <1>3 DEF Disconnect
<1>4. ASSUME NEW p \in DOMAIN source, Truncate(p) \/ Distribute(p) PROVE CredentialOK'
  BY <1>4 DEF Truncate, Distribute
<1> QED BY <1>1, <1>2, <1>3, <1>4

(* What the authenticators keep.                                         *)
LEMMA KeepsOK ==
    ASSUME CredentialOK, UNCHANGED deployment,
           \/ RefreshJWT
           \/ \E c \in Callers : ReadCertFile(c) \/ ReadKeyFile(c) \/ HandshakeFails(c)
    PROVE  CredentialOK'
<1> USE CredentialAssumption DEF CredentialOK, Credentials, Readable
<1>1. CASE RefreshJWT
  <2>1. PICK p \in Places(kind) : jwt' \in Read(p)
    BY <1>1 DEF RefreshJWT
  <2>2. jwt' \in Readable
    BY <2>1 DEF Read
  <2> QED BY <1>1, <2>2 DEF RefreshJWT
<1>2. ASSUME NEW c \in Callers, ReadCertFile(c) PROVE CredentialOK'
  <2>1. "cert" \in Places(kind)
    BY <1>2 DEF ReadCertFile, Connected, Places, Files
  <2> QED BY <1>2, <2>1 DEF ReadCertFile
<1>3. ASSUME NEW c \in Callers, ReadKeyFile(c) PROVE CredentialOK'
  BY <1>3 DEF ReadKeyFile, Matches
<1>4. ASSUME NEW c \in Callers, HandshakeFails(c) PROVE CredentialOK'
  BY <1>4 DEF HandshakeFails
<1> QED BY <1>1, <1>2, <1>3, <1>4

-----------------------------------------------------------------------------
(* The server's and the client's other variables.                          *)
ServerOK ==
    /\ deployment \in Deployments
    /\ version \in Versions /\ ran \subseteq Versions
    /\ conjurVersion \in Versions \cup {<<>>}
    /\ token \in BOOLEAN /\ reachable \in BOOLEAN /\ exited \in BOOLEAN
    /\ changes \in 0 .. MaxChanges
    /\ VersionInv

(* TypeInv has these three parts.                                        *)
LEMMA Parts3 == TypeInv <=> CallsOK /\ CredentialOK /\ ServerOK
BY DEF TypeInv, TypeOK, CallsOK, CredentialOK, ServerOK

(* After the step too.                                                   *)
LEMMA Parts3Next == TypeInv' <=> CallsOK' /\ CredentialOK' /\ ServerOK'
BY Parts3, PTL

(* The bound on the changes is a number.                                 *)
LEMMA ChangesBound == MaxChanges \in Nat /\ 0 \in 0 .. MaxChanges
<1>1. MaxChanges \in Nat
  BY WorkloadAssumption
<1> QED BY <1>1

(* A change is counted.                                                  *)
LEMMA Counted ==
    ASSUME changes \in 0 .. MaxChanges, Change
    PROVE  changes' \in 0 .. MaxChanges
<1>1. MaxChanges \in Nat
  BY WorkloadAssumption
<1> QED BY <1>1 DEF Change

(* What a new client has.                                                *)
LEMMA TypeInit == Init => TypeInv
<1> SUFFICES ASSUME Init PROVE TypeInv
  OBVIOUS
<1>1. deployment \in Deployment
  BY WorkloadAssumption DEF Init
<1>2. version \in Versions /\ ran \subseteq Versions /\ VersionInv
  BY <1>1 DEF Init, Deployment, VersionInv
<1>3. ServerOK
  <2>1. 0 \in 0 .. MaxChanges
    BY ChangesBound
  <2> QED BY <1>2, <2>1 DEF Init, ServerOK
<1>4. CredentialOK
  <2>1. 0 \in Credentials /\ 0 \in 0 .. 0
    BY CredentialAssumption DEF Credentials
  <2> QED BY <2>1 DEF Init, CredentialOK, CredentialInit, Readable
<1>5. CallsOK
  <2>1. told = [c \in Callers |-> [outcome |-> "none"]]
    BY DEF Init, Idle
  <2>2. [outcome |-> "none"] \in Tells
    BY TellsType
  <2>3. told \in [Callers -> Tells]
    BY <2>1, <2>2
  <2>4. OpInv
    BY DEF Init, OpInv
  <2> QED BY <2>3, <2>4 DEF Init, CallsOK
<1> QED BY <1>3, <1>4, <1>5, Parts3

(* The version that a lookup yields is the server's, or it failed.         *)
LEMMA LookedUp ==
    ASSUME NEW v \in ServerVersion
    PROVE  v = version \/ v = <<>>
BY DEF ServerVersion

(* A goroutine's steps keep TypeInv.                                     *)
LEMMA StepType ==
    ASSUME TypeInv, NEW c \in Callers, Step(c)
    PROVE  TypeInv'
<1>0. CallsOK /\ CredentialOK /\ ServerOK
  BY Parts3
<1>a. pc[c] # "idle" => op[c] \in Operation
  BY <1>0 DEF CallsOK, OpInv
<1>1. CASE AskVersion(c)
  <2>1. PICK v \in ServerVersion : Learn(v) /\ Judge(c, op[c], v)
    BY <1>1 DEF AskVersion
  <2>2. op[c] \in Operation /\ Gated(op[c])
    BY <1>0, <1>1 DEF AskVersion, CallsOK, OpInv
  <2>3. CallsOK'
    BY <1>0, <1>1, <2>1, <2>2, JudgeOK DEF AskVersion, serverVars
  <2>4. ServerOK'
    BY <1>0, <1>1, <2>1, LookedUp DEF AskVersion, Learn, ServerOK, VersionInv, serverVars
  <2>5. CredentialOK'
    BY <1>0, <1>1 DEF AskVersion, CredentialOK, credentialVars, serverVars
  <2> QED BY <2>3, <2>4, <2>5, Parts3Next
<1>2. CASE FetchJWT(c)
  <2>1. CallsOK'
    BY <1>0, <1>2, GoesOK DEF FetchJWT, serverVars
  <2>2. CredentialOK'
    BY <1>0, <1>2, KeepsOK DEF FetchJWT, serverVars
  <2>3. ServerOK'
    BY <1>0, <1>2 DEF FetchJWT, ServerOK, VersionInv, serverVars
  <2> QED BY <2>1, <2>2, <2>3, Parts3Next
<1>3. CASE FetchFails(c)
  <2>1. CallsOK'
    BY <1>0, <1>3, FailsOK DEF FetchFails, serverVars
  <2>2. CredentialOK'
    BY <1>0, <1>3 DEF FetchFails, CredentialOK, credentialVars, serverVars
  <2>3. ServerOK'
    BY <1>0, <1>3 DEF FetchFails, ExitsWithoutService, ServerOK, VersionInv, serverVars
  <2> QED BY <2>1, <2>2, <2>3, Parts3Next
<1>4. CASE Authenticate(c)
  <2>1. pc[c] # "idle" /\ UNCHANGED deployment
    BY <1>4 DEF Authenticate, serverVars
  <2>2. CallsOK' /\ token' \in BOOLEAN
    <3>1. CASE Accepts(Presented)
      BY <1>0, <1>4, <2>1, <3>1, GoesOK DEF Authenticate
    <3>2. CASE ~Accepts(Presented)
      <4>1. Returns(c, [outcome |-> "refused"]) /\ UNCHANGED token
        BY <1>4, <3>2 DEF Authenticate
      <4> QED BY <1>0, <2>1, <4>1, ReturnsOK, TellsType DEF ServerOK
    <3> QED BY <3>1, <3>2
  <2>3. CredentialOK'
    BY <1>0, <1>4 DEF Authenticate, CredentialOK, credentialVars, serverVars
  <2>4. ServerOK'
    BY <1>0, <1>4, <2>2 DEF Authenticate, ServerOK, VersionInv, serverVars
  <2> QED BY <2>2, <2>3, <2>4, Parts3Next
<1>5. CASE ReceiveAnswer(c)
  <2>1. PICK answer \in Answer :
            Returns(c, [outcome |-> Told(op[c].reader, answer),
                        reader |-> op[c].reader, answer |-> answer])
    BY <1>5 DEF ReceiveAnswer
  <2>2. op[c].reader \in Readers
    BY <1>5, <1>a DEF ReceiveAnswer, Operation
  <2>3. [outcome |-> Told(op[c].reader, answer),
         reader |-> op[c].reader, answer |-> answer] \in Tells
    BY <2>2, ToldType, TellsType
  <2>4. CallsOK'
    BY <1>0, <1>5, <2>1, <2>3, ReturnsOK DEF ReceiveAnswer, serverVars
  <2>5. CredentialOK' /\ ServerOK'
    BY <1>0, <1>5 DEF ReceiveAnswer, CredentialOK, ServerOK, VersionInv, credentialVars, serverVars
  <2> QED BY <2>4, <2>5, Parts3Next
<1>6. CASE NoAnswer(c)
  <2>1. CallsOK'
    BY <1>0, <1>6, FailsOK DEF NoAnswer, serverVars
  <2>2. CredentialOK' /\ ServerOK'
    BY <1>0, <1>6 DEF NoAnswer, CredentialOK, ServerOK, VersionInv, credentialVars, serverVars
  <2> QED BY <2>1, <2>2, Parts3Next
<1>7. CASE Handshake(c)
  <2>0. UNCHANGED deployment
    BY <1>7 DEF Handshake, serverVars
  <2>1. CredentialOK'
    BY <1>0, <1>7, <2>0, KeepsOK DEF Handshake
  <2>2. ServerOK'
    BY <1>0, <1>7 DEF Handshake, ServerOK, VersionInv, serverVars
  <2>3. CallsOK'
    <3>1. CASE UNCHANGED <<pc, op, told>>
      BY <1>0, <2>0, <3>1 DEF CallsOK, OpInv, Gated
    <3>2. CASE Fails(c)
      BY <1>0, <2>0, <3>2, FailsOK
    <3>3. CASE /\ pc[c] = "version"
               /\ Returns(c, [outcome |-> "too old", min |-> op[c].gate.min, unknown |-> TRUE])
      <4>1. op[c].gate.min \in MinVersions
        BY <1>0, <3>3, GatedMin DEF CallsOK, OpInv
      <4> QED BY <1>0, <2>0, <3>3, <4>1, ReturnsOK, TellsType
    <3> QED BY <1>7, <3>1, <3>2, <3>3 DEF Handshake
  <2> QED BY <2>1, <2>2, <2>3, Parts3Next
<1> QED BY <1>1, <1>2, <1>3, <1>4, <1>5, <1>6, <1>7 DEF Step

(* The beginning of a call keeps it.                                     *)
LEMMA BeginType ==
    ASSUME TypeInv, NEW c \in Callers, NEW o \in Operations, Begin(c, o)
    PROVE  TypeInv'
<1>0. CallsOK /\ CredentialOK /\ ServerOK
  BY Parts3
<1>1. o \in Operation /\ UNCHANGED deployment
  BY OperationsType DEF Begin, serverVars
<1>2. CredentialOK' /\ ServerOK'
  BY <1>0 DEF Begin, CredentialOK, ServerOK, VersionInv, credentialVars, serverVars
<1>3. CallsOK'
  <2>1. CASE Unsupported(o.gate, deployment.cloud, deployment.saas)
    BY <1>0, <1>1, <2>1, ReturnsOK, TellsType DEF Begin
  <2>2. CASE /\ ~Unsupported(o.gate, deployment.cloud, deployment.saas)
             /\ Gated(o)
    <3>1. VerifyMinServerVersion(c, o)
      BY <2>2 DEF Begin, Gated
    <3>2. CASE conjurVersion # <<>>
      BY <1>0, <1>1, <2>2, <3>1, <3>2, JudgeOK DEF VerifyMinServerVersion
    <3>3. CASE conjurVersion = <<>>
      <4>1. Idle \in Tells
        BY TellsType DEF Idle
      <4> QED BY <1>0, <1>1, <2>2, <3>1, <3>3, <4>1
              DEF VerifyMinServerVersion, CallsOK, OpInv, Gated
    <3> QED BY <3>2, <3>3
  <2>3. CASE /\ ~Unsupported(o.gate, deployment.cloud, deployment.saas)
             /\ ~Gated(o)
    <3>1. Admit(c, o)
      BY <2>3 DEF Begin, Gated
    <3> QED BY <1>0, <1>1, <3>1, AdmitOK
  <2> QED BY <2>1, <2>2, <2>3
<1> QED BY <1>2, <1>3, Parts3Next

(* So does what happens around the client.                               *)
LEMMA AroundType ==
    ASSUME TypeInv, Upgrade \/ Rotate \/ Outage \/ Restore \/ TokenDue \/ Distribution
    PROVE  TypeInv'
<1>0. CallsOK /\ CredentialOK /\ ServerOK
  BY Parts3
<1>1. UNCHANGED <<deployment, kind, pc, op, told>>
  BY DEF Upgrade, Rotate, Outage, Restore, TokenDue, Distribution, Issue, Truncate,
         Distribute, Retire, Disconnect, credentialVars, serverVars
<1>2. CallsOK'
  BY <1>0, <1>1 DEF CallsOK, OpInv, Gated
<1>3. CredentialOK'
  <2>1. CASE Upgrade \/ Restore \/ TokenDue
    BY <1>0, <2>1 DEF Upgrade, Restore, TokenDue, CredentialOK, credentialVars, serverVars
  <2>2. CASE Outage
    BY <1>0, <2>2 DEF Outage, CredentialOK, serverVars
  <2>3. CASE Rotate \/ Distribution
    BY <1>0, <1>1, <2>3, IssuerOK DEF Rotate, Distribution
  <2> QED BY <2>1, <2>2, <2>3
<1>4. ServerOK'
  <2>1. CASE Upgrade
    <3>1. deployment \in Deployment
      BY <1>0, WorkloadAssumption DEF ServerOK
    <3>2. version' \in Versions /\ ran' = ran \cup {version'}
      BY <2>1, <3>1 DEF Upgrade, Deployment
    <3>3. changes' \in 0 .. MaxChanges
      BY <1>0, <2>1, Counted DEF ServerOK, Upgrade
    <3> QED BY <1>0, <2>1, <3>2, <3>3 DEF Upgrade, ServerOK, VersionInv
  <2>2. CASE Rotate \/ Outage
    <3>1. changes' \in 0 .. MaxChanges
      BY <1>0, <2>2, Counted DEF ServerOK, Rotate, Outage
    <3> QED BY <1>0, <2>2, <3>1 DEF Rotate, Outage, ServerOK, VersionInv, serverVars
  <2>3. CASE Restore \/ TokenDue \/ Distribution
    BY <1>0, <2>3 DEF Restore, TokenDue, Distribution, ServerOK, VersionInv, serverVars
  <2> QED BY <2>1, <2>2, <2>3
<1> QED BY <1>2, <1>3, <1>4, Parts3Next

(* Every step keeps TypeInv.                                             *)
LEMMA TypeStep == TypeInv /\ [Next]_vars => TypeInv'
<1> SUFFICES ASSUME TypeInv, [Next]_vars PROVE TypeInv'
  OBVIOUS
<1>1. CASE UNCHANGED vars
  BY <1>1 DEF vars, credentialVars, serverVars, TypeInv, TypeOK, OpInv, VersionInv, Gated
<1>2. CASE Next
  BY <1>2, StepType, BeginType, AroundType DEF Next
<1> QED BY <1>1, <1>2

(* Every variable of the client keeps its type: no failed lookup is kept   *)
(* as a version, and an operation that is under way is one of the client's.*)
THEOREM TypeCorrect == Spec => []TypeOK
<1>1. TypeInv => TypeOK
  BY DEF TypeInv
<1> QED BY TypeInit, TypeStep, <1>1, PTL DEF Spec

(* TypeInv is an invariant.                                              *)
LEMMA TypeInvariant == Spec => []TypeInv
BY TypeInit, TypeStep, PTL DEF Spec

-----------------------------------------------------------------------------
(* What a version that the client judges by says of the server.            *)
Known(v) == v \in ran \cup {<<>>}

Offered(o) == Gated(o) => \E v \in ran : ~LessThan(v, o.gate.min)

Grounded(what) ==
    what.outcome = "too old" /\ ~what.unknown
        => \E v \in ran : LessThan(v, what.min) \/ ~Parses(v)

Honest(what) ==
    what \in TellsAnswer =>
        LET status == what.answer.status
            body == what.answer.body
            reader == what.reader
        IN  CASE what.outcome = "value" ->
                   /\ status = "2xx" \/ (reader = "dryRun" /\ status = "422")
                   /\ body # "cut"
                   /\ reader \in {"json", "dryRun"} => body = "expected"
              [] what.outcome \in {"stream", "done"} -> status = "2xx"
              [] what.outcome = "yes" -> status \in {"2xx", "403"}
              [] what.outcome = "no" -> status \in {"403", "404"}
              [] OTHER -> ~(status = "2xx" /\ body = "expected")

Sound(what) == Grounded(what) /\ Honest(what)

(* A version that passes for what the server is known to have run: one     *)
(* that it has run passes.                                                 *)
LEMMA PassedOffers ==
    ASSUME NEW v, Known(v), NEW o, validateMinVersion(v, o.gate.min)
    PROVE  Offered(o)
<1>1. v # <<>>
  BY DEF validateMinVersion, Parses
<1> QED BY <1>1 DEF Known, Offered, validateMinVersion

(* One that does not pass grounds the refusal.                           *)
LEMMA RefusedGrounds ==
    ASSUME NEW v, Known(v), NEW min, ~validateMinVersion(v, min)
    PROVE  Sound([outcome |-> "too old", min |-> min, unknown |-> v = <<>>])
<1> DEFINE what == [outcome |-> "too old", min |-> min, unknown |-> v = <<>>]
<1>1. what.outcome = "too old" /\ what.min = min /\ (what.unknown <=> v = <<>>)
  OBVIOUS
<1>2. what \notin TellsAnswer
  BY <1>1 DEF TellsAnswer
<1>3. CASE v = <<>>
  BY <1>1, <1>2, <1>3 DEF Sound, Grounded, Honest
<1>4. CASE v # <<>>
  <2>1. v \in ran /\ (LessThan(v, min) \/ ~Parses(v))
    BY <1>4 DEF Known, validateMinVersion
  <2> HIDE DEF what
  <2>2. Grounded(what)
    BY <1>1, <2>1 DEF Grounded
  <2> QED BY <1>2, <2>2 DEF Sound, Honest, what
<1> QED BY <1>3, <1>4

(* Told by itself, an outcome says nothing of a version or an answer.      *)
LEMMA PlainSound ==
    ASSUME NEW outcome \in {"none", "unsupported", "invalid", "refused", "failed"}
    PROVE  Sound([outcome |-> outcome])
<1> DEFINE what == [outcome |-> outcome]
<1>1. what.outcome \notin {"too old", "value", "stream", "done", "yes", "no", "error"}
  OBVIOUS
<1> HIDE DEF what
<1>2. what \notin TellsAnswer
  BY <1>1 DEF TellsAnswer
<1>3. Sound(what)
  BY <1>1, <1>2 DEF Sound, Grounded, Honest
<1> QED BY <1>3 DEF what

(* What the readers make of an answer.                                     *)
LEMMA ToldSound ==
    ASSUME NEW reader \in Readers, NEW answer \in Answer
    PROVE  Sound([outcome |-> Told(reader, answer), reader |-> reader, answer |-> answer])
<1> DEFINE t == Told(reader, answer)
           what == [outcome |-> t, reader |-> reader, answer |-> answer]
<1>1. t \in Outcomes
  BY ToldType
<1>2. what.outcome = t /\ what.reader = reader /\ what.answer = answer
  OBVIOUS
<1>3. Grounded(what)
  BY <1>1, <1>2 DEF Grounded, Outcomes
<1>4. /\ answer.status \in {"2xx", "422", "403", "404", "error"}
      /\ answer.body \in {"expected", "other", "cut"}
  BY DEF Answer
<1>5. /\ t = "value" =>
           /\ answer.status = "2xx" \/ (reader = "dryRun" /\ answer.status = "422")
           /\ answer.body # "cut"
           /\ reader \in {"json", "dryRun"} => answer.body = "expected"
      /\ t \in {"stream", "done"} => answer.status = "2xx"
      /\ t = "yes" => answer.status \in {"2xx", "403"}
      /\ t = "no" => answer.status \in {"403", "404"}
      /\ t = "error" => ~(answer.status = "2xx" /\ answer.body = "expected")
  <2>1. CASE reader \in {"exists", "permission"}
    <3>1. reader = "exists" =>
              t = IF answer.status \in {"2xx", "403"} THEN "yes"
                  ELSE IF answer.status = "404" THEN "no" ELSE "error"
      BY DEF Told
    <3>2. reader = "permission" =>
              t = IF answer.status = "2xx" THEN "yes"
                  ELSE IF answer.status \in {"403", "404"} THEN "no" ELSE "error"
      BY DEF Told
    <3> HIDE DEF t
    <3> QED BY <2>1, <3>1, <3>2
  <2>2. CASE reader = "dryRun"
    <3>1. t = IF answer.status \in {"2xx", "422"} /\ answer.body = "expected"
              THEN "value" ELSE "error"
      BY <2>2 DEF Told, Value
    <3> HIDE DEF t
    <3> QED BY <2>2, <3>1
  <2>3. CASE reader \notin {"exists", "permission", "dryRun"} /\ answer.status # "2xx"
    <3>1. t = "error"
      BY <2>3 DEF Told
    <3> QED BY <2>3, <3>1
  <2>4. CASE reader \in {"stream", "empty"} /\ answer.status = "2xx"
    <3>1. t = IF reader = "stream" THEN "stream" ELSE "done"
      BY <2>4 DEF Told, Success
    <3> QED BY <2>4, <3>1
  <2>5. CASE reader \in {"data", "json", "lenient"} /\ answer.status = "2xx"
    <3>1. reader = "json" => t = IF answer.body = "expected" THEN "value" ELSE "error"
      BY <2>5 DEF Told, Success, Value
    <3>2. reader # "json" => t = IF answer.body # "cut" THEN "value" ELSE "error"
      BY <2>5 DEF Told, Success, Value
    <3> HIDE DEF t
    <3> QED BY <2>5, <3>1, <3>2
  <2> QED BY <2>1, <2>2, <2>3, <2>4, <2>5 DEF Readers
<1> HIDE DEF what, t
<1>6. Honest(what)
  BY <1>1, <1>2, <1>5 DEF Honest, Outcomes
<1> QED BY <1>3, <1>6 DEF Sound, what, t

-----------------------------------------------------------------------------
(* The goroutines that are past their gate, and what was told.             *)
Past == {"token", "present", "answer"}

SafeInv == \A c \in Callers : /\ pc[c] \in Past => Offered(op[c])
                              /\ Sound(told[c])

(* What SafeInv says depends on nothing but the calls and what grows.      *)
LEMMA Kept ==
    ASSUME deployment' = deployment, ran \subseteq ran'
    PROVE  /\ \A o : Offered(o) => Offered(o)'
           /\ \A what : Sound(what) => Sound(what)'
BY DEF Offered, Sound, Grounded, Honest, Gated

(* A call returns with something sound.                                  *)
LEMMA ReturnsSafe ==
    ASSUME TypeInv, SafeInv, NEW c \in Callers, NEW what, Sound(what), Returns(c, what),
           UNCHANGED <<deployment, ran>>
    PROVE  SafeInv'
BY Kept DEF TypeInv, TypeOK, SafeInv, Returns, Past

(* A call goes on, past its gate.                                        *)
LEMMA GoesSafe ==
    ASSUME TypeInv, SafeInv, NEW c \in Callers, NEW to, Goes(c, to), pc[c] \in Past,
           UNCHANGED <<deployment, ran>>
    PROVE  SafeInv'
BY Kept DEF TypeInv, TypeOK, SafeInv, Goes, Past

(* An operation that is offered passes its gate.                         *)
LEMMA AdmitSafe ==
    ASSUME TypeInv, SafeInv, NEW c \in Callers, NEW o, Offered(o), Admit(c, o),
           UNCHANGED <<deployment, ran>>
    PROVE  SafeInv'
<1>1. CASE Returns(c, [outcome |-> "invalid"])
  BY <1>1, ReturnsSafe, PlainSound
<1>2. CASE ~Returns(c, [outcome |-> "invalid"])
  <2>1. Sound(Idle)
    BY PlainSound DEF Idle
  <2> QED BY <1>2, <2>1, Kept DEF Admit, TypeInv, TypeOK, SafeInv
<1> QED BY <1>1, <1>2

(* An operation is judged by a version that is known.                    *)
LEMMA JudgeSafe ==
    ASSUME TypeInv, SafeInv, NEW c \in Callers, NEW o, NEW v, Known(v), Judge(c, o, v),
           UNCHANGED <<deployment, ran>>
    PROVE  SafeInv'
<1>1. CASE validateMinVersion(v, o.gate.min)
  BY <1>1, PassedOffers, AdmitSafe DEF Judge
<1>2. CASE ~validateMinVersion(v, o.gate.min)
  <2> DEFINE what == [outcome |-> "too old", min |-> o.gate.min, unknown |-> v = <<>>]
  <2>1. Sound(what)
    BY <1>2, RefusedGrounds
  <2>2. Returns(c, what)
    BY <1>2 DEF Judge
  <2> HIDE DEF what
  <2> QED BY <2>1, <2>2, ReturnsSafe
<1> QED BY <1>1, <1>2

-----------------------------------------------------------------------------
(* A new client has told nothing.                                        *)
LEMMA SafeInit == Init => SafeInv
<1> SUFFICES ASSUME Init PROVE SafeInv
  OBVIOUS
<1>1. Sound(Idle)
  BY PlainSound DEF Idle
<1> QED BY <1>1 DEF Init, SafeInv, Past

(* Every step keeps SafeInv.                                             *)
LEMMA SafeStep == TypeInv /\ SafeInv /\ [Next]_vars => SafeInv'
<1> SUFFICES ASSUME TypeInv, SafeInv, [Next]_vars PROVE SafeInv'
  OBVIOUS
<1>0. Known(conjurVersion)
  BY DEF TypeInv, VersionInv, Known
<1>1. ASSUME NEW c \in Callers, AskVersion(c) PROVE SafeInv'
  <2>1. PICK v \in ServerVersion : Learn(v) /\ Judge(c, op[c], v)
    BY <1>1 DEF AskVersion
  <2>2. Known(v)
    BY <2>1, LookedUp DEF Known, TypeInv, VersionInv
  <2> QED BY <1>1, <2>1, <2>2, JudgeSafe DEF AskVersion, serverVars
<1>2. ASSUME NEW c \in Callers, FetchJWT(c) PROVE SafeInv'
  BY <1>2, GoesSafe DEF FetchJWT, serverVars, Past
<1>3. ASSUME NEW c \in Callers, FetchFails(c) \/ NoAnswer(c) PROVE SafeInv'
  BY <1>3, ReturnsSafe, PlainSound DEF FetchFails, NoAnswer, Fails, serverVars
<1>4. ASSUME NEW c \in Callers, Authenticate(c) PROVE SafeInv'
  <2>1. pc[c] \in Past /\ UNCHANGED <<deployment, ran>>
    BY <1>4 DEF Authenticate, serverVars, Past
  <2> QED BY <1>4, <2>1, GoesSafe, ReturnsSafe, PlainSound DEF Authenticate
<1>5. ASSUME NEW c \in Callers, ReceiveAnswer(c) PROVE SafeInv'
  <2>1. PICK answer \in Answer :
            Returns(c, [outcome |-> Told(op[c].reader, answer),
                        reader |-> op[c].reader, answer |-> answer])
    BY <1>5 DEF ReceiveAnswer
  <2>2. op[c].reader \in Readers
    BY <1>5 DEF ReceiveAnswer, TypeInv, OpInv, Operation
  <2> DEFINE what == [outcome |-> Told(op[c].reader, answer),
                      reader |-> op[c].reader, answer |-> answer]
  <2>3. Sound(what)
    BY <2>2, ToldSound
  <2>4. Returns(c, what) /\ UNCHANGED <<deployment, ran>>
    BY <1>5, <2>1 DEF ReceiveAnswer, serverVars
  <2> HIDE DEF what
  <2> QED BY <2>3, <2>4, ReturnsSafe
<1>6. ASSUME NEW c \in Callers, Handshake(c) PROVE SafeInv'
  <2>0. UNCHANGED <<deployment, ran>>
    BY <1>6 DEF Handshake, serverVars
  <2>1. CASE UNCHANGED <<pc, op, told>>
    BY <2>0, <2>1, Kept DEF SafeInv
  <2>2. CASE Fails(c)
    BY <2>0, <2>2, ReturnsSafe, PlainSound DEF Fails
  <2>3. CASE Returns(c, [outcome |-> "too old", min |-> op[c].gate.min, unknown |-> TRUE])
    <3> DEFINE what == [outcome |-> "too old", min |-> op[c].gate.min, unknown |-> TRUE]
    <3>1. what.outcome = "too old" /\ what.unknown
      OBVIOUS
    <3>2. Returns(c, what)
      BY <2>3
    <3> HIDE DEF what
    <3>3. Sound(what)
      BY <3>1 DEF Sound, Grounded, Honest, TellsAnswer
    <3> QED BY <2>0, <3>2, <3>3, ReturnsSafe
  <2> QED BY <1>6, <2>1, <2>2, <2>3 DEF Handshake
<1>7. ASSUME NEW c \in Callers, NEW o \in Operations, Begin(c, o) PROVE SafeInv'
  <2>0. UNCHANGED <<deployment, ran>>
    BY <1>7 DEF Begin, serverVars
  <2>1. CASE Unsupported(o.gate, deployment.cloud, deployment.saas)
    BY <1>7, <2>0, <2>1, ReturnsSafe, PlainSound DEF Begin
  <2>2. CASE ~Unsupported(o.gate, deployment.cloud, deployment.saas) /\ Gated(o)
    <3>1. VerifyMinServerVersion(c, o)
      BY <1>7, <2>2 DEF Begin, Gated
    <3>2. CASE conjurVersion # <<>>
      BY <1>0, <2>0, <3>1, <3>2, JudgeSafe DEF VerifyMinServerVersion
    <3>3. CASE conjurVersion = <<>>
      <4>1. Sound(Idle)
        BY PlainSound DEF Idle
      <4> QED BY <2>0, <3>1, <3>3, <4>1, Kept
              DEF VerifyMinServerVersion, TypeInv, TypeOK, SafeInv, Past
    <3> QED BY <3>2, <3>3
  <2>3. CASE ~Unsupported(o.gate, deployment.cloud, deployment.saas) /\ ~Gated(o)
    <3>1. Admit(c, o) /\ Offered(o)
      BY <1>7, <2>3 DEF Begin, Gated, Offered
    <3> QED BY <2>0, <3>1, AdmitSafe
  <2> QED BY <2>1, <2>2, <2>3
<1>8. ASSUME \/ Upgrade \/ Rotate \/ Outage \/ Restore \/ TokenDue \/ Distribution
             \/ UNCHANGED vars
      PROVE SafeInv'
  <2>1. UNCHANGED <<deployment, pc, op, told>> /\ ran \subseteq ran'
    BY <1>8 DEF Upgrade, Rotate, Outage, Restore, TokenDue, Distribution, vars, serverVars
  <2> QED BY <2>1, Kept DEF SafeInv
<1> QED
  BY <1>1, <1>2, <1>3, <1>4, <1>5, <1>6, <1>7, <1>8 DEF Next, Step

(* SafeInv is an invariant.                                              *)
LEMMA SafeInvariant == Spec => []SafeInv
BY SafeInit, SafeStep, TypeInvariant, PTL DEF Spec

(* However goroutines interleave with each other's lookups and with the    *)
(* upgrades of the server, an operation goes on only if the server has     *)
(* run a version that offers it (version.go, the gates of the operations). *)
THEOREM OfferedOnly == Spec => []ServerOffers
<1>1. SafeInv => ServerOffers
  BY DEF SafeInv, ServerOffers, Offered, Past
<1> QED BY <1>1, SafeInvariant, PTL

(* No failure of a lookup outlives its call: an operation is refused for   *)
(* an older version that the server has run, or for one that does not      *)
(* parse, unless the lookup of its own call has failed (version.go:10-20). *)
THEOREM NoLastingRefusal == Spec => []RefusalGrounded
<1>1. SafeInv => RefusalGrounded
  BY DEF SafeInv, RefusalGrounded, Sound, Grounded
<1> QED BY <1>1, SafeInvariant, PTL

(* The operations tell their caller what the answer says (response.go).    *)
THEOREM AnswersTold == Spec => []AnswerTold
<1>1. SafeInv => AnswerTold
  BY DEF SafeInv, AnswerTold, Sound, Honest
<1> QED BY <1>1, SafeInvariant, PTL
=============================================================================
