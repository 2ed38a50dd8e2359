----------------------------- MODULE ResourceId -----------------------------
(***************************************************************************)
(* How the client turns the resource IDs it is given, which may be fully   *)
(* or partially qualified, into the account, kind and identifier that a    *)
(* request is about (conjurapi/requests.go), across a sequence of calls in *)
(* which the application passes on the full IDs that it has got back.      *)
(*                                                                         *)
(* An ID is the sequence of its parts between colons.                      *)
(***************************************************************************)
EXTENDS Sequences, Integers

CONSTANTS
    Parts,      \* what may stand between two colons, the empty string included
    Account,    \* config.Account
    Kinds,      \* the kinds that the client's operations are about
    MaxParts,   \* the longest ID passed to the client (bound of the model)
    Malformed   \* an error instead of a resource; also: nothing asked yet

ID == Seq(Parts) \ {<<>>}
Resource == [account : Parts, kind : Parts, name : ID]

ASSUME IdAssumption ==
    /\ "" \in Parts
    /\ Account \in Parts \ {""}
    /\ Kinds \subseteq Parts \ {""}
    /\ MaxParts \in Nat
    /\ Malformed \notin Resource

VARIABLES
    asked,      \* the latest call: the operation, the ID and the kind given
    target      \* the resource that its request is about

vars == <<asked, target>>

R(account, kind, name) == [account |-> account, kind |-> kind, name |-> name]
Join(r) == <<r.account, r.kind>> \o r.name

-----------------------------------------------------------------------------
(* strings.SplitN(id, ":", 3), with the missing tokens supplied.           *)
Split(id, account, kind) ==
    CASE Len(id) = 1 -> R(account, kind, id)
      [] Len(id) = 2 -> R(account, id[1], <<id[2]>>)
      [] Len(id) > 2 -> R(id[1], id[2], SubSeq(id, 3, Len(id)))

\* Mutant of makeFullID: an ID of three tokens is taken to be a full one.
TrustsThree(account, kind, id) == Join(Split(id, account, kind))

\* Mutant of makeFullID: an ID is never taken to be a full one.
AlwaysPrefixes(account, kind, id) == Join(R(account, kind, id))

makeFullID(account, kind, id) ==
    LET tokens == Split(id, account, kind) IN
    IF (account # "" /\ account # tokens.account) \/ (kind # "" /\ kind # tokens.kind)
    THEN Join(R(account, kind, id))
    ELSE Join(tokens)

unopinionatedParseID(id) == Split(id, "", "")

WithAccount(r) == IF r.account = "" THEN [r EXCEPT !.account = Account] ELSE r

\* Mutant of parseID: only the identifier is required.
KindOptional(id) ==
    LET r == unopinionatedParseID(id) IN
    IF r.name = <<"">> THEN Malformed ELSE WithAccount(r)

parseID(id) ==
    LET r == unopinionatedParseID(id) IN
    IF r.name = <<"">> \/ r.kind = "" THEN Malformed ELSE WithAccount(r)

parseIDandEnforceKind(id, kind) ==
    LET r == unopinionatedParseID(id) IN
    IF r.name = <<"">> \/ r.kind \notin {"", kind} THEN Malformed
    ELSE WithAccount([r EXCEPT !.kind = kind])

-----------------------------------------------------------------------------
Init == asked = Malformed /\ target = Malformed

Call(op, id, kind, resource) ==
    /\ asked' = [op |-> op, id |-> id, kind |-> kind]
    /\ target' = resource

(* The operations on secrets and policies.                                 *)
Qualified(id, kind) ==
    Call("qualified", id, kind, parseID(makeFullID(Account, kind, id)))

(* The operations on roles and resources.                                  *)
AsGiven(id, kind) == Call("asGiven", id, kind, parseID(id))

(* rotateApiKeyAndEnforceKind passes the full ID on to RotateAPIKey.       *)
Enforced(id, kind) ==
    LET r == parseIDandEnforceKind(id, kind) IN
    Call("enforced", id, kind, IF r = Malformed THEN Malformed ELSE parseID(Join(r)))

(* An ID typed in, or the full ID of the previous target.                  *)
Given == (UNION {[1 .. n -> Parts] : n \in 1 .. MaxParts})
         \cup (IF target = Malformed THEN {} ELSE {Join(target)})

Next ==
    \E id \in Given, kind \in Kinds :
        /\ Len(id) <= MaxParts + 2
        /\ Qualified(id, kind) \/ AsGiven(id, kind) \/ Enforced(id, kind)

Spec == Init /\ [][Next]_vars

-----------------------------------------------------------------------------
(* No request is about a resource with an empty account, kind or           *)
(* identifier: an empty segment would vanish from the path of its URL.     *)
TypeOK ==
    target # Malformed =>
        /\ target \in Resource
        /\ target.account # "" /\ target.kind # "" /\ target.name # <<"">>

(* A secret or a policy is always looked for in the client's own account   *)
(* and under its own kind, however the ID is qualified; a key is rotated   *)
(* for a role of the kind that the operation is for.                       *)
OwnKind ==
    asked # Malformed /\ target # Malformed =>
        /\ asked.op = "qualified" => target.account = Account
        /\ asked.op \in {"qualified", "enforced"} => target.kind = asked.kind

(* The full ID of a resource of the client's account denotes the same      *)
(* resource in every operation for its kind: qualifying an ID again        *)
(* changes nothing, and makeFullID, parseID and parseIDandEnforceKind      *)
(* agree on it.                                                            *)
SameTarget ==
    [][target # Malformed /\ target.account = Account
         /\ asked'.id = Join(target) /\ asked'.kind = target.kind
            => target' = target]_vars
=============================================================================
