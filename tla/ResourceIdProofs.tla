-------------------------- MODULE ResourceIdProofs --------------------------
(***************************************************************************)
(* What ResourceId's properties rest on: joining and splitting are inverse *)
(* to each other, and makeFullID returns the full ID of a resource of the  *)
(* account and the kind it is given.  Proved for IDs of any length.        *)
(***************************************************************************)
EXTENDS ResourceId, SequenceTheorems, TLAPS

(* An ID has at least one part.                                          *)
LEMMA IdLen ==
    ASSUME NEW id \in ID
    PROVE  Len(id) \in Nat /\ Len(id) >= 1
BY DEF ID

(* The three shapes that the split distinguishes.                        *)
LEMMA IdCases ==
    ASSUME NEW id \in ID
    PROVE  Len(id) = 1 \/ Len(id) = 2 \/ Len(id) > 2
<1> DEFINE n == Len(id)
<1>1. n \in Nat /\ n >= 1
  BY IdLen
<1> HIDE DEF n
<1>2. n = 1 \/ n = 2 \/ n > 2
  BY <1>1
<1> QED BY <1>2 DEF n

(* The parts of an ID are parts.                                         *)
LEMMA IdPart ==
    ASSUME NEW id \in ID, NEW i \in 1 .. Len(id)
    PROVE  id[i] \in Parts
BY DEF ID

(* One part is an ID.                                                    *)
LEMMA SingleType ==
    ASSUME NEW x \in Parts
    PROVE  <<x>> \in ID
<1>1. <<x>> \in Seq(Parts)
  OBVIOUS
<1>2. <<x>> # <<>>
  OBVIOUS
<1> QED BY <1>1, <1>2 DEF ID

(* What follows the account and the kind is an ID.                       *)
LEMMA RestType ==
    ASSUME NEW id \in ID, Len(id) > 2
    PROVE  SubSeq(id, 3, Len(id)) \in ID
<1> DEFINE s == SubSeq(id, 3, Len(id))
<1>1. s \in Seq(Parts)
  BY DEF ID
<1>2. Len(s) = Len(id) - 2 /\ Len(id) \in Nat
  BY DEF ID
<1>3. s # <<>>
  <2> SUFFICES ASSUME s = <<>> PROVE FALSE
    OBVIOUS
  <2> HIDE DEF s
  <2>1. Len(s) = 0
    OBVIOUS
  <2>2. Len(id) = 2
    BY <1>2, <2>1
  <2> QED BY <2>2
<1> QED BY <1>1, <1>3 DEF ID

(* The three tokens make a resource.                                     *)
LEMMA RType ==
    ASSUME NEW a \in Parts, NEW k \in Parts, NEW id \in ID
    PROVE  /\ R(a, k, id) \in Resource
           /\ R(a, k, id).account = a /\ R(a, k, id).kind = k /\ R(a, k, id).name = id
BY DEF R, Resource

(* The split yields a resource.                                          *)
LEMMA SplitType ==
    ASSUME NEW id \in ID, NEW a \in Parts, NEW k \in Parts
    PROVE  Split(id, a, k) \in Resource
<1>1. Len(id) = 1 \/ Len(id) = 2 \/ Len(id) > 2
  BY IdCases
<1>2. CASE Len(id) = 1
  <2>1. Split(id, a, k) = R(a, k, id)
    BY <1>2 DEF Split
  <2> QED BY <2>1, RType
<1>3. CASE Len(id) = 2
  <2>1. Split(id, a, k) = R(a, id[1], <<id[2]>>)
    BY <1>3 DEF Split
  <2>2. id[1] \in Parts /\ id[2] \in Parts
    BY <1>3, IdPart
  <2> QED BY <2>1, <2>2, SingleType, RType
<1>4. CASE Len(id) > 2
  <2>1. Split(id, a, k) = R(id[1], id[2], SubSeq(id, 3, Len(id)))
    BY <1>4, IdLen DEF Split
  <2>2. id[1] \in Parts /\ id[2] \in Parts
    BY <1>4, IdPart, IdLen
  <2> QED BY <1>4, <2>1, <2>2, RestType, RType
<1> QED BY <1>1, <1>2, <1>3, <1>4

(* Where the tokens stand in a full ID.                                  *)
LEMMA JoinParts ==
    ASSUME NEW h \in Seq(Parts), NEW n \in Seq(Parts), Len(h) = 2, Len(n) >= 1
    PROVE  /\ h \o n \in Seq(Parts) /\ Len(h \o n) > 2
           /\ (h \o n)[1] = h[1] /\ (h \o n)[2] = h[2]
           /\ SubSeq(h \o n, 3, Len(h \o n)) = n
<1> DEFINE l == Len(n)
<1>1. l \in Nat /\ l >= 1
  OBVIOUS
<1>2. h \o n \in Seq(Parts) /\ Len(h \o n) = 2 + l
  BY ConcatProperties
<1>3. /\ 1 \in 1 .. Len(h) + Len(n) /\ 2 \in 1 .. Len(h) + Len(n)
      /\ 1 <= Len(h) /\ 2 <= Len(h)
  OBVIOUS
<1>4. (h \o n)[1] = h[1] /\ (h \o n)[2] = h[2]
  <2>1. \A i \in 1 .. Len(h) + Len(n) :
            (h \o n)[i] = IF i <= Len(h) THEN h[i] ELSE n[i - Len(h)]
    BY ConcatProperties
  <2> QED BY <1>3, <2>1
<1> DEFINE g == Len(h \o n)
           D == Len(h) + 1 .. Len(h) + Len(n)
<1>5. /\ g > 2 /\ 3 \in D /\ g \in D
      /\ 3 - Len(h) = 1 /\ g - Len(h) = l
  <2> HIDE DEF l
  <2>1. /\ 2 + l > 2 /\ 3 \in 2 + 1 .. 2 + l /\ 2 + l \in 2 + 1 .. 2 + l
        /\ 3 - 2 = 1 /\ 2 + l - 2 = l
    BY <1>1
  <2> QED BY <1>2, <2>1 DEF l
<1>6. \A i, j \in D : SubSeq(h \o n, i, j) = SubSeq(n, i - Len(h), j - Len(h))
  BY SubSeqOfConcat2
<1>7. SubSeq(h \o n, 3, g) = n
  <2>1. SubSeq(n, 1, l) = n
    BY SubSeqFull
  <2> HIDE DEF g, D, l
  <2>2. SubSeq(h \o n, 3, g) = SubSeq(n, 3 - Len(h), g - Len(h))
    BY <1>5, <1>6
  <2> QED BY <1>5, <2>1, <2>2
<1> QED BY <1>2, <1>4, <1>5, <1>7

(* A full ID is an ID.                                                   *)
LEMMA JoinType ==
    ASSUME NEW r \in Resource
    PROVE  /\ Join(r) \in ID /\ Len(Join(r)) > 2
           /\ Join(r)[1] = r.account /\ Join(r)[2] = r.kind
           /\ SubSeq(Join(r), 3, Len(Join(r))) = r.name
<1> DEFINE h == <<r.account, r.kind>>
           n == r.name
<1>1. h \in Seq(Parts) /\ Len(h) = 2 /\ h[1] = r.account /\ h[2] = r.kind
  BY DEF Resource
<1>2. n \in Seq(Parts) /\ Len(n) >= 1
  BY IdLen DEF Resource, ID
<1>3. Join(r) = h \o n
  BY DEF Join
<1> HIDE DEF h, n
<1>4. /\ Join(r) \in Seq(Parts) /\ Len(Join(r)) > 2
      /\ Join(r)[1] = h[1] /\ Join(r)[2] = h[2]
      /\ SubSeq(Join(r), 3, Len(Join(r))) = n
  BY <1>1, <1>2, <1>3, JoinParts
<1>5. Join(r) # <<>>
  <2> SUFFICES ASSUME Join(r) = <<>> PROVE FALSE
    OBVIOUS
  <2>1. Len(Join(r)) = 0
    OBVIOUS
  <2> QED BY <1>4, <2>1
<1> QED BY <1>1, <1>4, <1>5 DEF ID, n

(* Splitting the full ID of a resource gives the resource back.            *)
LEMMA SplitJoin ==
    ASSUME NEW r \in Resource, NEW a, NEW k
    PROVE  Split(Join(r), a, k) = r
<1>1. Split(Join(r), a, k) = R(r.account, r.kind, r.name)
  <2> DEFINE n == Len(Join(r))
  <2>1. n > 2 /\ n \in Nat
    BY JoinType, IdLen
  <2> HIDE DEF n
  <2>2. n # 1 /\ n # 2
    BY <2>1
  <2>3. Split(Join(r), a, k) = R(Join(r)[1], Join(r)[2], SubSeq(Join(r), 3, Len(Join(r))))
    BY <2>1, <2>2 DEF Split, n
  <2> QED BY <2>3, JoinType
<1> QED BY <1>1 DEF Resource, R

(* What an operation on a resource of the client's account sends on: the   *)
(* full ID of a resource of that account and kind.                         *)
LEMMA FullIsOwn ==
    ASSUME NEW k \in Parts \ {""}, NEW id \in ID
    PROVE  \E r \in Resource : /\ makeFullID(Account, k, id) = Join(r)
                               /\ r.account = Account /\ r.kind = k
<1> DEFINE t == Split(id, Account, k)
<1>1. Account \in Parts \ {""}
  BY IdAssumption
<1>2. t \in Resource
  BY <1>1, SplitType
<1>3. CASE Account # t.account \/ k # t.kind
  <2>1. makeFullID(Account, k, id) = Join(R(Account, k, id))
    BY <1>1, <1>3 DEF makeFullID
  <2>2. /\ R(Account, k, id) \in Resource
        /\ R(Account, k, id).account = Account /\ R(Account, k, id).kind = k
    <3>1. Account \in Parts /\ k \in Parts
      BY <1>1
    <3> QED BY <3>1 DEF R, Resource
  <2> QED BY <2>1, <2>2
<1>4. CASE Account = t.account /\ k = t.kind
  <2>1. makeFullID(Account, k, id) = Join(t)
    BY <1>4 DEF makeFullID
  <2> HIDE DEF t
  <2> WITNESS t \in Resource
  <2> QED BY <1>4, <2>1
<1> QED BY <1>3, <1>4

(* Qualifying the full ID of a resource of the account changes nothing.    *)
LEMMA FullIsFixed ==
    ASSUME NEW r \in Resource, r.account = Account
    PROVE  makeFullID(Account, r.kind, Join(r)) = Join(r)
BY SplitJoin DEF makeFullID

Complete(r) == r.account # "" /\ r.kind # "" /\ r.name # <<"">>

(* parseID yields a complete resource, or an error.                      *)
LEMMA ParseType ==
    ASSUME NEW id \in ID, parseID(id) # Malformed
    PROVE  parseID(id) \in Resource /\ Complete(parseID(id))
<1> DEFINE r == unopinionatedParseID(id)
<1>1. r \in Resource
  BY SplitType, IdAssumption DEF unopinionatedParseID
<1>2. r.name # <<"">> /\ r.kind # "" /\ parseID(id) = WithAccount(r)
  BY DEF parseID
<1> HIDE DEF r
<1>3. WithAccount(r) \in Resource
  BY <1>1, IdAssumption DEF WithAccount, Resource
<1>4. /\ WithAccount(r).account # "" /\ WithAccount(r).kind = r.kind
      /\ WithAccount(r).name = r.name
  BY <1>1, IdAssumption DEF WithAccount, Resource
<1> QED BY <1>2, <1>3, <1>4 DEF Complete

(* parseID undoes the joining of a resource that has an account.           *)
LEMMA ParseJoin ==
    ASSUME NEW r \in Resource, r.account # ""
    PROVE  parseID(Join(r)) = IF r.name = <<"">> \/ r.kind = "" THEN Malformed ELSE r
<1>1. unopinionatedParseID(Join(r)) = r
  BY SplitJoin DEF unopinionatedParseID
<1> QED BY <1>1 DEF parseID, WithAccount

(* So does parseIDandEnforceKind, of the kind it is given.               *)
LEMMA EnforceType ==
    ASSUME NEW id \in ID, NEW k \in Parts, parseIDandEnforceKind(id, k) # Malformed
    PROVE  /\ parseIDandEnforceKind(id, k) \in Resource
           /\ parseIDandEnforceKind(id, k).account # ""
           /\ parseIDandEnforceKind(id, k).kind = k
<1> DEFINE r == unopinionatedParseID(id)
<1>1. r \in Resource
  BY SplitType, IdAssumption DEF unopinionatedParseID
<1>2. parseIDandEnforceKind(id, k) = WithAccount([r EXCEPT !.kind = k])
  BY DEF parseIDandEnforceKind
<1> HIDE DEF r
<1> DEFINE s == [r EXCEPT !.kind = k]
<1>3. s \in Resource /\ s.kind = k
  BY <1>1 DEF Resource
<1> HIDE DEF s
<1>4. /\ WithAccount(s) \in Resource
      /\ WithAccount(s).account # "" /\ WithAccount(s).kind = s.kind
  BY <1>3, IdAssumption DEF WithAccount, Resource
<1> QED BY <1>2, <1>3, <1>4 DEF s

(* parseIDandEnforceKind accepts a full ID of its kind.                  *)
LEMMA EnforceJoin ==
    ASSUME NEW r \in Resource, Complete(r)
    PROVE  parseIDandEnforceKind(Join(r), r.kind) = r
<1>1. unopinionatedParseID(Join(r)) = r
  BY SplitJoin DEF unopinionatedParseID
<1>2. [r EXCEPT !.kind = r.kind] = r
  BY DEF Resource
<1> QED BY <1>1, <1>2 DEF parseIDandEnforceKind, WithAccount, Complete

-----------------------------------------------------------------------------
(* What each operation makes of an ID.                                     *)
Ok(r) == r \in Resource /\ Complete(r)

(* What an operation on a secret or policy asks for.                     *)
LEMMA QualifiedTarget ==
    ASSUME NEW k \in Parts \ {""}, NEW id \in ID
    PROVE  LET q == parseID(makeFullID(Account, k, id))
           IN  q = Malformed \/ (Ok(q) /\ q.account = Account /\ q.kind = k)
<1>1. PICK r \in Resource : /\ makeFullID(Account, k, id) = Join(r)
                            /\ r.account = Account /\ r.kind = k
  BY FullIsOwn
<1>2. parseID(Join(r)) = IF r.name = <<"">> \/ r.kind = "" THEN Malformed ELSE r
  BY <1>1, ParseJoin, IdAssumption
<1> QED BY <1>1, <1>2, IdAssumption DEF Ok, Complete

(* What a key rotation asks for.                                         *)
LEMMA EnforcedTarget ==
    ASSUME NEW k \in Parts \ {""}, NEW id \in ID,
           parseIDandEnforceKind(id, k) # Malformed
    PROVE  LET q == parseID(Join(parseIDandEnforceKind(id, k)))
           IN  q = Malformed \/ (Ok(q) /\ q.kind = k)
<1> DEFINE r == parseIDandEnforceKind(id, k)
<1>1. r \in Resource /\ r.account # "" /\ r.kind = k
  BY EnforceType
<1> HIDE DEF r
<1>2. parseID(Join(r)) = IF r.name = <<"">> \/ r.kind = "" THEN Malformed ELSE r
  BY <1>1, ParseJoin
<1>3. \/ parseID(Join(r)) = Malformed
      \/ Ok(parseID(Join(r))) /\ parseID(Join(r)).kind = k
  BY <1>1, <1>2 DEF Ok, Complete
<1> QED BY <1>3 DEF r

(* Typed in or obtained from a target, an ID is an ID.                   *)
LEMMA GivenType ==
    ASSUME TypeOK, NEW id \in Given
    PROVE  id \in ID
<1>1. CASE target # Malformed /\ id = Join(target)
  BY <1>1, JoinType DEF TypeOK
<1>2. ASSUME NEW n \in 1 .. MaxParts, id \in [1 .. n -> Parts] PROVE id \in ID
  <2>1. n \in Nat /\ n # 0
    <3>1. MaxParts \in Nat
      BY IdAssumption
    <3> QED BY <3>1
  <2>2. id \in Seq(Parts) /\ Len(id) = n
    BY <1>2, <2>1
  <2>3. id # <<>>
    BY <2>1, <2>2
  <2> QED BY <2>2, <2>3 DEF ID
<1> QED BY <1>1, <1>2 DEF Given

(* The steps of ResourceId, with what they are given.                      *)
LEMMA Steps ==
    ASSUME TypeOK, Next
    PROVE  \E id \in ID, kind \in Parts \ {""} :
               Qualified(id, kind) \/ AsGiven(id, kind) \/ Enforced(id, kind)
<1>1. PICK id \in Given, kind \in Kinds :
          Qualified(id, kind) \/ AsGiven(id, kind) \/ Enforced(id, kind)
  BY DEF Next
<1>2. id \in ID /\ kind \in Parts \ {""}
  BY GivenType, IdAssumption
<1> QED BY <1>1, <1>2

(* TypeOK is inductive.                                                  *)
LEMMA TypeStep ==
    ASSUME TypeOK, [Next]_vars
    PROVE  TypeOK' /\ (OwnKind => OwnKind')
<1>1. CASE UNCHANGED vars
  BY <1>1 DEF vars, TypeOK, OwnKind
<1>2. CASE Next
  <2>1. PICK id \in ID, kind \in Parts \ {""} :
            Qualified(id, kind) \/ AsGiven(id, kind) \/ Enforced(id, kind)
    BY <1>2, Steps
  <2>2. CASE Qualified(id, kind)
    <3>1. /\ target' = Malformed \/ (Ok(target') /\ target'.account = Account /\ target'.kind = kind)
          /\ asked' = [op |-> "qualified", id |-> id, kind |-> kind]
      BY <2>2, QualifiedTarget DEF Qualified, Call
    <3> QED BY <3>1 DEF TypeOK, OwnKind, Ok, Complete
  <2>3. CASE AsGiven(id, kind)
    <3>1. /\ target' = Malformed \/ Ok(target')
          /\ asked' = [op |-> "asGiven", id |-> id, kind |-> kind]
      BY <2>3, ParseType DEF AsGiven, Call, Ok
    <3> QED BY <3>1 DEF TypeOK, OwnKind, Ok, Complete
  <2>4. CASE Enforced(id, kind)
    <3>1. /\ target' = Malformed \/ (Ok(target') /\ target'.kind = kind)
          /\ asked' = [op |-> "enforced", id |-> id, kind |-> kind]
      BY <2>4, EnforcedTarget DEF Enforced, Call
    <3> QED BY <3>1 DEF TypeOK, OwnKind, Ok, Complete
  <2> QED BY <2>1, <2>2, <2>3, <2>4
<1> QED BY <1>1, <1>2

(* No request has an empty account, kind or identifier in its path.        *)
THEOREM TypeCorrect == Spec => []TypeOK
<1>1. Init => TypeOK
  BY DEF Init, TypeOK
<1>2. TypeOK /\ [Next]_vars => TypeOK'
  BY TypeStep
<1> QED BY <1>1, <1>2, PTL DEF Spec

(* Operations stay in their account and with their kind.                   *)
THEOREM KindKept == Spec => []OwnKind
<1>1. Init => TypeOK /\ OwnKind
  BY DEF Init, TypeOK, OwnKind
<1>2. TypeOK /\ OwnKind /\ [Next]_vars => TypeOK' /\ OwnKind'
  BY TypeStep
<1> QED BY <1>1, <1>2, PTL DEF Spec

(* The full ID of a resource denotes it in every operation.                *)
THEOREM FullIdDenotes == Spec => SameTarget
<1> DEFINE Same == /\ target # Malformed /\ target.account = Account
                   /\ asked'.id = Join(target) /\ asked'.kind = target.kind
                   => target' = target
<1>1. ASSUME TypeOK, [Next]_vars PROVE [Same]_vars
  <2> SUFFICES ASSUME Next, target # Malformed, target.account = Account,
                      asked'.id = Join(target), asked'.kind = target.kind
               PROVE  target' = target
    BY <1>1
  <2>0. asked'.id = Join(target) /\ asked'.kind = target.kind
    OBVIOUS
  <2>1. target \in Resource /\ Complete(target)
    BY <1>1 DEF TypeOK, Complete
  <2>2. parseID(Join(target)) = target
    BY <2>1, ParseJoin DEF Complete
  <2>3. PICK id \in ID, kind \in Parts \ {""} :
            Qualified(id, kind) \/ AsGiven(id, kind) \/ Enforced(id, kind)
    BY <1>1, Steps
  <2>4. id = Join(target) /\ kind = target.kind
    <3>1. asked'.id = id /\ asked'.kind = kind
      <4>1. PICK op : asked' = [op |-> op, id |-> id, kind |-> kind]
        BY <2>3 DEF Qualified, AsGiven, Enforced, Call
      <4> QED BY <4>1
    <3> QED BY <2>0, <3>1
  <2>5. CASE Qualified(id, kind)
    BY <2>1, <2>2, <2>4, <2>5, FullIsFixed DEF Qualified, Call
  <2>6. CASE AsGiven(id, kind)
    BY <2>2, <2>4, <2>6 DEF AsGiven, Call
  <2>7. CASE Enforced(id, kind)
    BY <2>1, <2>2, <2>4, <2>7, EnforceJoin, IdAssumption DEF Enforced, Call
  <2> QED BY <2>3, <2>5, <2>6, <2>7
<1> QED BY <1>1, TypeCorrect, PTL DEF Spec, SameTarget
=============================================================================
