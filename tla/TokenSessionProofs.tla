------------------------- MODULE TokenSessionProofs -------------------------
(***************************************************************************)
(* Theorems about TokenSession, for every number of callers, every         *)
(* lifetime, timeout, skew and storage mode.                               *)
(*                                                                         *)
(* TypeInv adds to TypeOK what the local variable tok holds at each pc.    *)
(* TimeInv bounds the age of every token on its way from the server's      *)
(* answer to the header of a request.                                      *)
(***************************************************************************)
EXTENDS TokenSession, TLAPS

(* What a caller's tok holds while it moves towards authToken.             *)
LocalsOK ==
    \A c \in Callers : /\ pc[c] = "setCached" => tok[c] \in Token
                       /\ pc[c] \in {"store", "assign"} => tok[c] \in Body
                       /\ pc[c] # "awaitToken" => reply[c] = None

TypeInv == TypeOK /\ LocalsOK

-----------------------------------------------------------------------------
(* An answer that is no token does not parse.                            *)
LEMMA GarbageType == Garbage \in Body /\ ~Parses(Garbage)
BY DEF Garbage, Body, Parses

(* What the server issues has the shape of a token.                      *)
LEMMA IssuedType ==
    ASSUME NEW who \in {"self", "other"}, now \in Nat
    PROVE  Issued(who) \subseteq Body
BY SessionAssumption DEF Issued, Body, ServerTime

(* A new client satisfies TypeInv.                                       *)
LEMMA TypeInit == Init => TypeInv
<1> SUFFICES ASSUME Init PROVE TypeInv
  OBVIOUS
<1>1. stored \in Body \cup {None}
  BY IssuedType DEF Init
<1> QED
  BY <1>1 DEF Init, TypeInv, TypeOK, LocalsOK, Local, Waiting, Ops

(* Every step keeps TypeInv.                                             *)
LEMMA TypeStep == TypeInv /\ [Next]_vars => TypeInv'
<1> SUFFICES ASSUME TypeInv, [Next]_vars PROVE TypeInv'
  OBVIOUS
<1> USE SessionAssumption DEF TypeInv, TypeOK, LocalsOK, Local, Waiting, Ops, Goto, EndCall
<1>1. ASSUME NEW c \in Callers, StartRequest(c) PROVE TypeInv'
  BY <1>1 DEF StartRequest
<1>2. ASSUME NEW c \in Callers, StartForced(c) PROVE TypeInv'
  BY <1>2 DEF StartForced
<1>3. ASSUME NEW c \in Callers, ReadCachedAccessToken(c) PROVE TypeInv'
  BY <1>3 DEF ReadCachedAccessToken, CachedToken, Token
<1>4. ASSUME NEW c \in Callers, SetCachedToken(c) PROVE TypeInv'
  BY <1>4 DEF SetCachedToken
<1>5. ASSUME NEW c \in Callers, KeepToken(c) \/ Reauthenticate(c) PROVE TypeInv'
  BY <1>5 DEF KeepToken, Reauthenticate
<1>6. ASSUME NEW c \in Callers, ServerAnswers(c) PROVE TypeInv'
  <2>1. PICK r \in Issued("self") \cup {Garbage, Refused} :
                reply' = [reply EXCEPT ![c] = r]
    BY <1>6 DEF ServerAnswers
  <2>2. r \in Body \cup {None, Refused}
    BY IssuedType, GarbageType
  <2> QED
    BY <1>6, <2>1, <2>2 DEF ServerAnswers
<1>7. ASSUME NEW c \in Callers, ReceiveToken(c) PROVE TypeInv'
  BY <1>7 DEF ReceiveToken
<1>8. ASSUME NEW c \in Callers,
             ReturnToken(c) \/ AuthenticationFails(c) \/ RequestEnds(c) \/ RejectToken(c)
      PROVE TypeInv'
  BY <1>8 DEF ReturnToken, AuthenticationFails, RequestEnds, RejectToken
<1>9. ASSUME NEW c \in Callers, StoreToken(c) PROVE TypeInv'
  BY <1>9 DEF StoreToken
<1>10. ASSUME NEW c \in Callers, AssignToken(c) PROVE TypeInv'
  BY <1>10 DEF AssignToken, Token
<1>11. ASSUME NEW c \in Callers, SendRequest(c) PROVE TypeInv'
  BY <1>11 DEF SendRequest, Token
<1>12. ASSUME OtherProcess PROVE TypeInv'
  BY <1>12, IssuedType DEF OtherProcess
<1>13. ASSUME Tick PROVE TypeInv'
  BY <1>13 DEF Tick
<1>14. ASSUME UNCHANGED vars PROVE TypeInv'
  BY <1>14 DEF vars
<1> QED
  BY <1>1, <1>2, <1>3, <1>4, <1>5, <1>6, <1>7, <1>8, <1>9, <1>10, <1>11, <1>12,
     <1>13, <1>14 DEF Next, LocalStep, NetworkStep, Quiescent

(* Every variable keeps its type: in particular c.authToken is nil or a    *)
(* token that parses, whatever bytes the server or the storage hold.       *)
THEOREM TypeCorrect == Spec => []TypeOK
<1>1. TypeInv => TypeOK
  BY DEF TypeInv
<1> QED
  BY TypeInit, TypeStep, <1>1, PTL DEF Spec

(* TypeInv is an invariant.                                              *)
LEMMA TypeInvariant == Spec => []TypeInv
BY TypeInit, TypeStep, PTL DEF Spec

-----------------------------------------------------------------------------
(* A new client has no caller that is about to use a token.              *)
LEMMA TokenInit == Init => NeverWithoutToken
BY DEF Init, NeverWithoutToken

(* Nothing ever resets c.authToken to nil.                               *)
LEMMA TokenStep == TypeInv /\ NeverWithoutToken /\ [Next]_vars => NeverWithoutToken'
<1> SUFFICES ASSUME TypeInv, NeverWithoutToken, [Next]_vars PROVE NeverWithoutToken'
  OBVIOUS
<1> USE SessionAssumption DEF NeverWithoutToken, TypeInv, TypeOK, LocalsOK, Token,
        Local, Waiting, Goto, EndCall
<1>1. ASSUME NEW c \in Callers, StartRequest(c) \/ StartForced(c) PROVE NeverWithoutToken'
  BY <1>1 DEF StartRequest, StartForced
<1>2. ASSUME NEW c \in Callers, ReadCachedAccessToken(c) PROVE NeverWithoutToken'
  BY <1>2 DEF ReadCachedAccessToken
<1>3. ASSUME NEW c \in Callers, SetCachedToken(c) PROVE NeverWithoutToken'
  BY <1>3 DEF SetCachedToken
<1>4. ASSUME NEW c \in Callers, KeepToken(c) \/ Reauthenticate(c) PROVE NeverWithoutToken'
  BY <1>4 DEF KeepToken, Reauthenticate, NeedsTokenRefresh
<1>5. ASSUME NEW c \in Callers, ServerAnswers(c) \/ ReceiveToken(c) \/ StoreToken(c)
      PROVE NeverWithoutToken'
  BY <1>5 DEF ServerAnswers, ReceiveToken, StoreToken
<1>6. ASSUME NEW c \in Callers,
             ReturnToken(c) \/ AuthenticationFails(c) \/ RequestEnds(c) \/ RejectToken(c)
      PROVE NeverWithoutToken'
  BY <1>6 DEF ReturnToken, AuthenticationFails, RequestEnds, RejectToken
<1>7. ASSUME NEW c \in Callers, AssignToken(c) PROVE NeverWithoutToken'
  BY <1>7 DEF AssignToken
<1>8. ASSUME NEW c \in Callers, SendRequest(c) PROVE NeverWithoutToken'
  BY <1>8 DEF SendRequest
<1>9. ASSUME OtherProcess \/ Tick \/ UNCHANGED vars PROVE NeverWithoutToken'
  BY <1>9 DEF OtherProcess, Tick, vars
<1> QED
  BY <1>1, <1>2, <1>3, <1>4, <1>5, <1>6, <1>7, <1>8, <1>9
     DEF Next, LocalStep, NetworkStep, Quiescent

(* A caller that passed RefreshToken has a token to send, for any number   *)
(* of goroutines and any storage: c.authToken is never nil at authn.go:107.*)
THEOREM TokenAtHand == Spec => []NeverWithoutToken
BY TokenInit, TokenStep, TypeInvariant, PTL DEF Spec

-----------------------------------------------------------------------------
(* Only a client that reuses stored sessions reads the cache.              *)
CacheOnly == \A c \in Callers : pc[c] \in {"readCache", "setCached"} => UsesCache

(* Every token inside an explicit client was obtained by that client.      *)
AllOwn ==
    /\ authToken # None => authToken.owner = "self"
    /\ \A c \in Callers :
         /\ reply[c] \notin {None, Refused} => reply[c].owner = "self"
         /\ pc[c] \in {"store", "assign", "sent"} => tok[c].owner = "self"

OwnInv == CacheOnly /\ (~PreferCached => AllOwn)

(* A new client holds no token of anybody.                               *)
LEMMA OwnInit == Init => OwnInv
BY DEF Init, OwnInv, CacheOnly, AllOwn

(* Without a preferred cache, tokens come from the own exchange only.    *)
LEMMA OwnStep == TypeInv /\ NeverWithoutToken /\ OwnInv /\ [Next]_vars => OwnInv'
<1> SUFFICES ASSUME TypeInv, NeverWithoutToken, OwnInv, [Next]_vars PROVE OwnInv'
  OBVIOUS
<1> USE SessionAssumption DEF OwnInv, CacheOnly, AllOwn, NeverWithoutToken, TypeInv,
        TypeOK, LocalsOK, Local, Waiting, UsesCache, Goto, EndCall
<1>1. ASSUME NEW c \in Callers, StartRequest(c) \/ StartForced(c) PROVE OwnInv'
  BY <1>1 DEF StartRequest, StartForced
<1>2. ASSUME NEW c \in Callers, ReadCachedAccessToken(c) \/ SetCachedToken(c) PROVE OwnInv'
  BY <1>2 DEF ReadCachedAccessToken, SetCachedToken
<1>3. ASSUME NEW c \in Callers, KeepToken(c) \/ Reauthenticate(c) PROVE OwnInv'
  BY <1>3 DEF KeepToken, Reauthenticate
<1>4. ASSUME NEW c \in Callers, ServerAnswers(c) PROVE OwnInv'
  BY <1>4 DEF ServerAnswers, Issued, Garbage
<1>5. ASSUME NEW c \in Callers, ReceiveToken(c) \/ StoreToken(c) PROVE OwnInv'
  BY <1>5 DEF ReceiveToken, StoreToken
<1>6. ASSUME NEW c \in Callers,
             ReturnToken(c) \/ AuthenticationFails(c) \/ RequestEnds(c) \/ RejectToken(c)
      PROVE OwnInv'
  BY <1>6 DEF ReturnToken, AuthenticationFails, RequestEnds, RejectToken
<1>7. ASSUME NEW c \in Callers, AssignToken(c) PROVE OwnInv'
  BY <1>7 DEF AssignToken
<1>8. ASSUME NEW c \in Callers, SendRequest(c) PROVE OwnInv'
  BY <1>8 DEF SendRequest
<1>9. ASSUME OtherProcess \/ Tick \/ UNCHANGED vars PROVE OwnInv'
  BY <1>9 DEF OtherProcess, Tick, vars
<1> QED
  BY <1>1, <1>2, <1>3, <1>4, <1>5, <1>6, <1>7, <1>8, <1>9
     DEF Next, LocalStep, NetworkStep, Quiescent

(* OwnInv is an invariant.                                               *)
LEMMA OwnInvariant == Spec => []OwnInv
BY OwnInit, OwnStep, TypeInvariant, TokenAtHand, PTL DEF Spec

(* A client with explicit credentials sends only tokens they obtained,     *)
(* whatever another session left in the storage.                           *)
THEOREM ExplicitCredentials == Spec => []OwnCredentials
<1>1. OwnInv => OwnCredentials
  BY DEF OwnInv, AllOwn, OwnCredentials
<1> QED
  BY <1>1, OwnInvariant, PTL

-----------------------------------------------------------------------------
(* A lifetime found in a token is one the server grants.                   *)
LifeOK(t) == t.exp # NoExp => \E l \in Lives \ {NoExp} : t.exp = t.iat + l

LifeInv ==
    /\ authToken # None => LifeOK(authToken)
    /\ stored # None => LifeOK(stored)
    /\ \A c \in Callers : /\ reply[c] \notin {None, Refused} => LifeOK(reply[c])
                          /\ tok[c] # None => LifeOK(tok[c])

(* LifeOK says nothing of bytes that do not parse.                       *)
LEMMA GarbageLife == LifeOK(Garbage)
BY DEF LifeOK, Garbage

(* Issued tokens live as long as Lives says.                             *)
LEMMA IssuedLife ==
    ASSUME NEW who \in {"self", "other"}, NEW t \in Issued(who)
    PROVE  LifeOK(t)
BY DEF LifeOK, Issued

(* The tokens found in the storage do as well.                           *)
LEMMA LifeInit == Init => LifeInv
BY IssuedLife DEF Init, LifeInv

(* Every step keeps LifeInv.                                             *)
LEMMA LifeStep == TypeInv /\ LifeInv /\ [Next]_vars => LifeInv'
<1> SUFFICES ASSUME TypeInv, LifeInv, [Next]_vars PROVE LifeInv'
  OBVIOUS
<1> USE SessionAssumption DEF LifeInv, TypeInv, TypeOK, LocalsOK, Goto, EndCall
<1>1. ASSUME NEW c \in Callers,
             StartRequest(c) \/ StartForced(c) \/ KeepToken(c) \/ Reauthenticate(c)
      PROVE LifeInv'
  BY <1>1 DEF StartRequest, StartForced, KeepToken, Reauthenticate
<1>2. ASSUME NEW c \in Callers, ReadCachedAccessToken(c) \/ SetCachedToken(c) PROVE LifeInv'
  BY <1>2 DEF ReadCachedAccessToken, SetCachedToken, CachedToken, Token
<1>3. ASSUME NEW c \in Callers, ServerAnswers(c) PROVE LifeInv'
  <2>1. PICK r \in Issued("self") \cup {Garbage, Refused} :
                reply' = [reply EXCEPT ![c] = r]
    BY <1>3 DEF ServerAnswers
  <2>2. r \notin {None, Refused} => LifeOK(r)
    BY IssuedLife, GarbageLife
  <2> QED
    BY <1>3, <2>1, <2>2 DEF ServerAnswers
<1>4. ASSUME NEW c \in Callers, ReceiveToken(c) \/ StoreToken(c) PROVE LifeInv'
  BY <1>4 DEF ReceiveToken, StoreToken
<1>5. ASSUME NEW c \in Callers,
             ReturnToken(c) \/ AuthenticationFails(c) \/ RequestEnds(c) \/ RejectToken(c)
      PROVE LifeInv'
  BY <1>5 DEF ReturnToken, AuthenticationFails, RequestEnds, RejectToken
<1>6. ASSUME NEW c \in Callers, AssignToken(c) \/ SendRequest(c) PROVE LifeInv'
  BY <1>6 DEF AssignToken, SendRequest
<1>7. ASSUME OtherProcess PROVE LifeInv'
  BY <1>7, IssuedLife DEF OtherProcess
<1>8. ASSUME Tick \/ UNCHANGED vars PROVE LifeInv'
  BY <1>8 DEF Tick, vars
<1> QED
  BY <1>1, <1>2, <1>3, <1>4, <1>5, <1>6, <1>7, <1>8
     DEF Next, LocalStep, NetworkStep, Quiescent

(* LifeInv is an invariant.                                              *)
LEMMA LifeInvariant == Spec => []LifeInv
BY LifeInit, LifeStep, TypeInvariant, PTL DEF Spec

-----------------------------------------------------------------------------
(* No other goroutine can replace the token between the check and the use  *)
(* by one from the storage: the client does not read the storage, or only  *)
(* one goroutine uses it.                                                  *)
Unraced == ~UsesCache \/ \A c, d \in Callers : c = d

(* Good enough to send when the client's clock shows t: not due for a      *)
(* refresh, or issued at most one exchange ago.                            *)
Young(token, t) == ~ShouldRefresh(token, t) \/ t + Skew - token.iat <= Timeout

TimeInv ==
    \A c \in Callers :
       /\ pc[c] \in Waiting => since[c] <= now /\ now <= since[c] + Timeout
       /\ pc[c] = "awaitToken" /\ reply[c] \notin {None, Refused} /\ Parses(reply[c])
             => since[c] + Skew <= reply[c].iat
       /\ pc[c] \in {"store", "assign"} /\ Parses(tok[c])
             => ServerTime - tok[c].iat <= Timeout
       /\ pc[c] = "useToken" => Young(authToken, now)
       /\ pc[c] = "sent" => Young(tok[c], since[c])

(* No token is on its way in a new client.                               *)
LEMMA TimeInit == Init => TimeInv
BY DEF Init, TimeInv, Waiting

(* Every step keeps the bounds on the age of the tokens.                 *)
LEMMA TimeStep ==
    ASSUME Unraced
    PROVE  TypeInv /\ NeverWithoutToken /\ CacheOnly /\ TimeInv /\ [Next]_vars => TimeInv'
<1> SUFFICES ASSUME TypeInv, NeverWithoutToken, CacheOnly, TimeInv, [Next]_vars
             PROVE TimeInv'
  OBVIOUS
<1> USE SessionAssumption DEF TimeInv, TypeInv, TypeOK, LocalsOK, Local, Waiting,
        ServerTime, Goto, EndCall
<1>1. ASSUME NEW c \in Callers, StartRequest(c) \/ StartForced(c) PROVE TimeInv'
  BY <1>1 DEF StartRequest, StartForced
<1>2. ASSUME NEW c \in Callers, ReadCachedAccessToken(c) PROVE TimeInv'
  BY <1>2 DEF ReadCachedAccessToken
<1>3. ASSUME NEW c \in Callers, SetCachedToken(c) PROVE TimeInv'
  BY <1>3 DEF SetCachedToken, CacheOnly, Unraced
<1>4. ASSUME NEW c \in Callers, KeepToken(c) PROVE TimeInv'
  BY <1>4 DEF KeepToken, NeedsTokenRefresh, Young
<1>5. ASSUME NEW c \in Callers, Reauthenticate(c) PROVE TimeInv'
  BY <1>5 DEF Reauthenticate
<1>6. ASSUME NEW c \in Callers, ServerAnswers(c) PROVE TimeInv'
  <2>1. PICK r \in Issued("self") \cup {Garbage, Refused} :
                reply' = [reply EXCEPT ![c] = r]
    BY <1>6 DEF ServerAnswers
  <2>2. r \notin {None, Refused} /\ Parses(r) => r.iat = ServerTime
    BY GarbageType DEF Issued
  <2> QED
    BY <1>6, <2>1, <2>2 DEF ServerAnswers
<1>7. ASSUME NEW c \in Callers, ReceiveToken(c) PROVE TimeInv'
  BY <1>7 DEF ReceiveToken, Body
<1>8. ASSUME NEW c \in Callers, StoreToken(c) PROVE TimeInv'
  BY <1>8 DEF StoreToken
<1>9. ASSUME NEW c \in Callers,
             ReturnToken(c) \/ AuthenticationFails(c) \/ RequestEnds(c) \/ RejectToken(c)
      PROVE TimeInv'
  BY <1>9 DEF ReturnToken, AuthenticationFails, RequestEnds, RejectToken
<1>10. ASSUME NEW c \in Callers, AssignToken(c) PROVE TimeInv'
  <2>1. /\ authToken' = tok[c] /\ Parses(tok[c]) /\ pc[c] = "assign"
        /\ now + Skew - tok[c].iat <= Timeout
    BY <1>10 DEF AssignToken, Body
  <2>2. Young(authToken', now)
    BY <2>1 DEF Young
  <2>3. /\ now' = now /\ stored' = stored
        /\ \A d \in Callers \ {c} : /\ pc'[d] = pc[d] /\ since'[d] = since[d]
                                   /\ reply'[d] = reply[d] /\ tok'[d] = tok[d]
        /\ pc'[c] \in {"idle", "useToken"}
    <3>1. CASE op[c] = "force"
      BY <1>10, <3>1 DEF AssignToken
    <3>2. CASE op[c] # "force"
      BY <1>10, <3>2 DEF AssignToken
    <3> QED
      BY <3>1, <3>2
  <2> QED
    BY <2>2, <2>3
<1>11. ASSUME NEW c \in Callers, SendRequest(c) PROVE TimeInv'
  BY <1>11 DEF SendRequest
<1>12. ASSUME OtherProcess \/ UNCHANGED vars PROVE TimeInv'
  BY <1>12 DEF OtherProcess, vars
<1>13. ASSUME Tick PROVE TimeInv'
  BY <1>13 DEF Tick
<1> QED
  BY <1>1, <1>2, <1>3, <1>4, <1>5, <1>6, <1>7, <1>8, <1>9, <1>10, <1>11, <1>12,
     <1>13 DEF Next, LocalStep, NetworkStep, Quiescent

(* TimeInv is an invariant.                                              *)
LEMMA TimeInvariant ==
    ASSUME Unraced PROVE Spec => []TimeInv
<1>1. OwnInv => CacheOnly
  BY DEF OwnInv
<1> QED
  BY <1>1, TimeInit, TimeStep, TypeInvariant, TokenAtHand, OwnInvariant, PTL DEF Spec

(* The arithmetic: the margin covers the skew and one exchange.            *)
LEMMA YoungUnexpired ==
    ASSUME TimingMargin, NEW token \in Body, LifeOK(token),
           NEW start \in Nat, NEW t \in Nat, start <= t, t <= start + Timeout,
           Young(token, start)
    PROVE  ~Expired(token, t + Skew)
<1> USE SessionAssumption DEF Token, Body, DefaultLife, RefreshAge
<1>1. CASE token.exp = NoExp
  BY <1>1 DEF TimingMargin, Young, ShouldRefresh, Expired
<1>2. CASE token.exp # NoExp
  <2>1. PICK l \in Lives \ {NoExp} : token.exp = token.iat + l
    BY <1>2 DEF LifeOK
  <2>2. l \in Nat /\ 100 * (Skew + Timeout) < 15 * l /\ 2 * Timeout < l
    BY DEF TimingMargin
  <2>3. \/ 100 * (start - token.iat) <= 85 * l
        \/ start + Skew - token.iat <= Timeout
    BY <1>2, <2>1, <2>2 DEF Young, ShouldRefresh
  <2>4. t + Skew < token.iat + l
    BY <2>2, <2>3
  <2> QED
    BY <1>2, <2>1, <2>4, <2>2 DEF Expired
<1> QED
  BY <1>1, <1>2

(* No request is served with an expired token, for every skew and timeout  *)
(* within TimingMargin: for any number of goroutines on a client that does *)
(* not read the storage, and for one goroutine on a client that does.      *)
THEOREM NoExpiredRequest ==
    ASSUME TimingMargin, Unraced
    PROVE  Spec => []SentUnexpired
<1>1. TypeInv /\ NeverWithoutToken /\ LifeInv /\ TimeInv => SentUnexpired
  <2> SUFFICES ASSUME TypeInv, NeverWithoutToken, LifeInv, TimeInv,
                      NEW c \in Callers, pc[c] = "sent"
               PROVE  ~Expired(tok[c], ServerTime)
    BY DEF SentUnexpired
  <2>1. tok[c] \in Body /\ LifeOK(tok[c]) /\ since[c] \in Nat /\ now \in Nat
    BY DEF TypeInv, TypeOK, NeverWithoutToken, LifeInv
  <2>2. since[c] <= now /\ now <= since[c] + Timeout /\ Young(tok[c], since[c])
    BY DEF TimeInv, Waiting
  <2> QED
    BY <2>1, <2>2, YoungUnexpired DEF ServerTime, Token
<1> QED
  BY <1>1, TypeInvariant, TokenAtHand, LifeInvariant, TimeInvariant, PTL

(* On a client that does not read the storage, a good token is never       *)
(* replaced by one that is due, however late an answer arrives.            *)
THEOREM GoodTokenKept ==
    ASSUME AheadMargin, ~UsesCache
    PROVE  Spec => FreshNotDisplaced
<1> DEFINE Kept == authToken # None /\ authToken' # authToken /\ ~ShouldRefresh(authToken, now)
                     => ~ShouldRefresh(authToken', now)
<1>1. TypeInv /\ CacheOnly /\ LifeInv /\ TimeInv /\ [Next]_vars => [Kept]_vars
  <2> SUFFICES ASSUME TypeInv, CacheOnly, LifeInv, TimeInv, Next, authToken' # authToken
               PROVE  ~ShouldRefresh(authToken', now)
    OBVIOUS
  <2>1. PICK c \in Callers : SetCachedToken(c) \/ AssignToken(c)
    BY DEF Next, LocalStep, NetworkStep, StartRequest, StartForced, ReadCachedAccessToken,
           KeepToken, Reauthenticate, StoreToken, RejectToken, SendRequest, ServerAnswers,
           ReceiveToken, ReturnToken, AuthenticationFails, RequestEnds, OtherProcess, Tick,
           Quiescent, vars
  <2>2. AssignToken(c)
    BY <2>1 DEF SetCachedToken, CacheOnly
  <2>3. /\ authToken' = tok[c] /\ tok[c] \in Token /\ Parses(tok[c])
        /\ pc[c] = "assign" /\ now \in Nat
    BY <2>2 DEF AssignToken, TypeInv, TypeOK, LocalsOK, Token
  <2>6. now + Skew - tok[c].iat <= Timeout
    BY <2>3, SessionAssumption DEF TimeInv, ServerTime, Token, Body
  <2>7. LifeOK(tok[c])
    BY <2>3, SessionAssumption DEF Token, LifeInv
  <2>4. CASE tok[c].exp = NoExp
    BY <2>3, <2>4, <2>6, SessionAssumption DEF AheadMargin, ShouldRefresh, RefreshAge, Token, Body
  <2>5. CASE tok[c].exp # NoExp
    <3>1. PICK l \in Lives \ {NoExp} : tok[c].exp = tok[c].iat + l
      BY <2>5, <2>7 DEF LifeOK
    <3>2. l \in Nat /\ 100 * (Timeout - Skew) <= 85 * l
      BY SessionAssumption DEF AheadMargin
    <3>3. tok[c].iat \in Int
      BY <2>3 DEF Token, Body
    <3>4. 100 * (now - tok[c].iat) <= 85 * l
      BY <2>3, <2>6, <3>2, <3>3, SessionAssumption
    <3> QED
      BY <2>3, <2>5, <3>1, <3>2, <3>3, <3>4 DEF ShouldRefresh
  <2> QED
    BY <2>4, <2>5
<1>2. OwnInv => CacheOnly
  BY DEF OwnInv
<1>3. Unraced
  BY DEF Unraced
<1>4. Spec => []TimeInv
  BY <1>3, TimeInvariant
<1> QED
  BY <1>1, <1>2, <1>4, TypeInvariant, OwnInvariant, LifeInvariant, PTL
     DEF Spec, FreshNotDisplaced


-----------------------------------------------------------------------------
(* A client that reads the storage keeps a good token as well, if it is    *)
(* the only user of its tokens, writes back what it obtains, and if the    *)
(* server gives every token the same life.                                 *)
OneGoroutine == \A c, d \in Callers : c = d
WritesBack   == Storage = "readwrite" /\ ~StoreFails
OneLife      == \A k, l \in Lives : k = l

(* What parses has one of the lifetimes, and was not issued in the future. *)
Granted(b) == \/ b.exp = NoExp /\ NoExp \in Lives
              \/ \E l \in Lives \ {NoExp} : b.exp = b.iat + l
Dated(b) == Parses(b) => Granted(b) /\ b.iat <= ServerTime

PastInv ==
    /\ authToken # None => Dated(authToken)
    /\ stored # None => Dated(stored)
    /\ \A c \in Callers : /\ reply[c] \notin {None, Refused} => Dated(reply[c])
                          /\ tok[c] # None => Dated(tok[c])

LEMMA GarbageDated == Dated(Garbage)
BY GarbageType DEF Dated

LEMMA IssuedDated ==
    ASSUME NEW who \in {"self", "other"}, NEW b \in Issued(who), now \in Nat
    PROVE  Dated(b) /\ b.iat = ServerTime /\ Parses(b)
<1>1. b.iat = ServerTime /\ b.shape = "complete" /\ ServerTime \in Int
  BY SessionAssumption DEF Issued, ServerTime
<1>2. PICK l \in Lives : b.exp = (IF l = NoExp THEN NoExp ELSE ServerTime + l)
  BY DEF Issued
<1>3. CASE l = NoExp
  <2>1. b.exp = NoExp /\ NoExp \in Lives
    BY <1>2, <1>3
  <2>2. Parses(b) /\ Granted(b)
    BY <1>1, <2>1 DEF Parses, Granted
  <2>3. b.iat <= ServerTime
    BY <1>1
  <2> QED BY <1>1, <2>2, <2>3 DEF Dated
<1>4. CASE l # NoExp
  <2>1. l \in Nat /\ l \in Lives \ {NoExp} /\ b.exp = ServerTime + l
    BY <1>2, <1>4, SessionAssumption
  <2>2. Granted(b)
    BY <1>1, <2>1 DEF Granted
  <2>3. b.iat <= b.exp /\ b.iat <= ServerTime
    BY <1>1, <2>1
  <2> QED BY <1>1, <2>2, <2>3 DEF Dated, Parses
<1> QED BY <1>3, <1>4

LEMMA PastInit == Init => PastInv
<1> SUFFICES ASSUME Init PROVE PastInv
  OBVIOUS
<1>1. now \in Nat
  BY DEF Init
<1> QED BY <1>1, IssuedDated DEF Init, PastInv

LEMMA PastStep == TypeInv /\ PastInv /\ [Next]_vars => PastInv'
<1> SUFFICES ASSUME TypeInv, PastInv, [Next]_vars PROVE PastInv'
  OBVIOUS
<1>0. now \in Nat /\ (now' = now => ServerTime' = ServerTime)
  BY DEF TypeInv, TypeOK, ServerTime
<1> USE SessionAssumption DEF PastInv, TypeInv, TypeOK, LocalsOK, Goto, EndCall, Dated
<1>1. ASSUME NEW c \in Callers,
             StartRequest(c) \/ StartForced(c) \/ KeepToken(c) \/ Reauthenticate(c)
      PROVE PastInv'
  BY <1>0, <1>1 DEF StartRequest, StartForced, KeepToken, Reauthenticate
<1>2. ASSUME NEW c \in Callers, ReadCachedAccessToken(c) \/ SetCachedToken(c) PROVE PastInv'
  BY <1>0, <1>2 DEF ReadCachedAccessToken, SetCachedToken, CachedToken, Token
<1>3. ASSUME NEW c \in Callers, ServerAnswers(c) PROVE PastInv'
  <2>1. PICK r \in Issued("self") \cup {Garbage, Refused} :
                reply' = [reply EXCEPT ![c] = r]
    BY <1>3 DEF ServerAnswers
  <2>2. r \notin {None, Refused} => Dated(r)
    BY <1>0, IssuedDated, GarbageDated
  <2> QED BY <1>0, <1>3, <2>1, <2>2 DEF ServerAnswers
<1>4. ASSUME NEW c \in Callers, ReceiveToken(c) \/ StoreToken(c) PROVE PastInv'
  BY <1>0, <1>4 DEF ReceiveToken, StoreToken
<1>5. ASSUME NEW c \in Callers,
             ReturnToken(c) \/ AuthenticationFails(c) \/ RequestEnds(c) \/ RejectToken(c)
      PROVE PastInv'
  BY <1>0, <1>5 DEF ReturnToken, AuthenticationFails, RequestEnds, RejectToken
<1>6. ASSUME NEW c \in Callers, AssignToken(c) \/ SendRequest(c) PROVE PastInv'
  BY <1>0, <1>6 DEF AssignToken, SendRequest
<1>7. ASSUME OtherProcess PROVE PastInv'
  <2>1. stored' # None => Dated(stored')
    BY <1>0, <1>7, IssuedDated DEF OtherProcess
  <2> QED BY <1>0, <1>7, <2>1 DEF OtherProcess
<1>8. ASSUME Tick PROVE PastInv'
  <2>1. ASSUME NEW b \in Body, Dated(b) PROVE Parses(b) => Granted(b) /\ b.iat <= ServerTime'
    <3>1. b.iat \in Int
      BY DEF Body
    <3> QED BY <1>0, <1>8, <2>1, <3>1 DEF Tick, ServerTime
  <2> QED BY <1>8, <2>1 DEF Tick, Token
<1>9. CASE UNCHANGED vars
  BY <1>0, <1>9 DEF vars
<1> QED
  BY <1>1, <1>2, <1>3, <1>4, <1>5, <1>6, <1>7, <1>8, <1>9
     DEF Next, LocalStep, NetworkStep, Quiescent

LEMMA PastInvariant == Spec => []PastInv
BY PastInit, PastStep, TypeInvariant, PTL DEF Spec


(* The only goroutine brings tokens in the order in which they were        *)
(* issued: what is stored was issued after what is in memory, and what it  *)
(* is about to assign after both.                                          *)
NotOlder(a, b) == a # None /\ b # None => a.iat >= b.iat

OrderAt(c) ==
    /\ pc[c] = "setCached" => NotOlder(tok[c], authToken) /\ NotOlder(CachedToken, tok[c])
    /\ pc[c] = "awaitToken" /\ reply[c] \notin {None, Refused} /\ Parses(reply[c])
          => NotOlder(reply[c], authToken)
    /\ pc[c] \in {"store", "assign"} /\ Parses(tok[c]) => NotOlder(tok[c], authToken)
    /\ pc[c] = "assign" /\ Parses(tok[c]) /\ UsesCache => NotOlder(CachedToken, tok[c])

OrderInv ==
    /\ UsesCache => NotOlder(CachedToken, authToken)
    /\ \A c \in Callers : OrderAt(c)

LEMMA CachedIs ==
    ASSUME stored \in Body \cup {None}
    PROVE  CachedToken \in Token \cup {None} /\ (CachedToken # None => CachedToken = stored)
BY DEF CachedToken, Token

LEMMA OrderInit == Init => OrderInv
BY DEF Init, OrderInv, OrderAt, NotOlder

LEMMA OrderStep ==
    ASSUME OneGoroutine, WritesBack
    PROVE  TypeInv /\ CacheOnly /\ PastInv /\ OrderInv /\ [Next]_vars => OrderInv'
<1> SUFFICES ASSUME TypeInv, CacheOnly, PastInv, OrderInv, [Next]_vars PROVE OrderInv'
  OBVIOUS
<1>0. /\ now \in Nat /\ ServerTime \in Int
      /\ authToken \in Token \cup {None} /\ stored \in Body \cup {None}
      /\ \A c \in Callers : tok[c] \in Body \cup {None} /\ reply[c] \in Body \cup {None, Refused}
      /\ \A b \in Body \cup Token : b.iat \in Int
  BY SessionAssumption DEF TypeInv, TypeOK, ServerTime, Body, Token
<1>c. CachedToken \in Token \cup {None} /\ (CachedToken # None => CachedToken = stored)
  BY <1>0, CachedIs
<1>u. UNCHANGED stored => CachedToken' = CachedToken
  BY DEF CachedToken
<1>p. /\ authToken # None => authToken.iat <= ServerTime
      /\ \A c \in Callers : tok[c] # None /\ Parses(tok[c]) => tok[c].iat <= ServerTime
  BY <1>0 DEF PastInv, Dated, Token
<1>1. ASSUME NEW c \in Callers, UNCHANGED <<authToken, stored>>, OrderAt(c)' PROVE OrderInv'
  BY <1>1, <1>u DEF OrderInv, OneGoroutine, NotOlder
<1>2. ASSUME NEW c \in Callers, UNCHANGED <<authToken, stored>>,
             pc' = [pc EXCEPT ![c] = "idle"] \/ pc' = [pc EXCEPT ![c] = "check"]
               \/ pc' = [pc EXCEPT ![c] = "readCache"] \/ pc' = [pc EXCEPT ![c] = "useToken"]
               \/ pc' = [pc EXCEPT ![c] = "sent"]
      PROVE  OrderInv'
  <2>1. pc \in [Callers -> {"idle"} \cup Local \cup Waiting]
    BY DEF TypeInv, TypeOK
  <2>2. pc'[c] \in {"idle", "check", "readCache", "useToken", "sent"}
    BY <1>2, <2>1
  <2> QED BY <1>1, <1>2, <2>2 DEF OrderAt
<1>3. ASSUME NEW c \in Callers, StartRequest(c) \/ KeepToken(c) \/ ReturnToken(c)
               \/ AuthenticationFails(c) \/ RequestEnds(c) \/ RejectToken(c) \/ SendRequest(c)
      PROVE OrderInv'
  BY <1>2, <1>3 DEF StartRequest, KeepToken, ReturnToken, AuthenticationFails, RequestEnds,
                    RejectToken, SendRequest, Goto, EndCall
<1>4. ASSUME NEW c \in Callers, StartForced(c) \/ Reauthenticate(c) PROVE OrderInv'
  <2>1. pc'[c] = "awaitToken" /\ reply'[c] = None /\ UNCHANGED <<authToken, stored>>
    BY <1>4 DEF StartForced, Reauthenticate, Goto, TypeInv, TypeOK, LocalsOK
  <2>2. OrderAt(c)'
    BY <2>1 DEF OrderAt
  <2> QED BY <1>1, <2>1, <2>2
<1>5. ASSUME NEW c \in Callers, ReadCachedAccessToken(c) PROVE OrderInv'
  <2>1. /\ tok'[c] = CachedToken /\ UNCHANGED <<authToken, stored>> /\ UsesCache
        /\ pc'[c] \in {"check", "setCached"}
    BY <1>5 DEF ReadCachedAccessToken, Goto, TypeInv, TypeOK, CacheOnly
  <2>2. NotOlder(CachedToken, authToken) /\ NotOlder(CachedToken, CachedToken)
    BY <1>0, <1>c, <2>1 DEF OrderInv, NotOlder
  <2>3. OrderAt(c)'
    BY <1>u, <2>1, <2>2 DEF OrderAt, NotOlder
  <2> QED BY <1>1, <2>1, <2>3
<1>6. ASSUME NEW c \in Callers, SetCachedToken(c) PROVE OrderInv'
  <2>1. /\ pc[c] = "setCached" /\ authToken' = tok[c] /\ UNCHANGED stored /\ pc'[c] = "check"
    BY <1>6 DEF SetCachedToken, Goto, TypeInv, TypeOK
  <2>2. OrderAt(c)'
    BY <2>1 DEF OrderAt
  <2>3. NotOlder(CachedToken', authToken')
    BY <1>u, <2>1 DEF OrderInv, OrderAt
  <2> QED BY <2>2, <2>3 DEF OrderInv, OneGoroutine
<1>7. ASSUME NEW c \in Callers, ServerAnswers(c) PROVE OrderInv'
  <2>1. PICK r \in Issued("self") \cup {Garbage, Refused} : reply' = [reply EXCEPT ![c] = r]
    BY <1>7 DEF ServerAnswers
  <2>2. reply'[c] = r /\ pc'[c] = "awaitToken" /\ UNCHANGED <<authToken, stored>>
    BY <1>7, <2>1 DEF ServerAnswers, TypeInv, TypeOK
  <2>3. r \notin {None, Refused} /\ Parses(r) => r.iat = ServerTime
    BY <1>0, GarbageType, IssuedDated
  <2>4. r \notin {None, Refused} /\ Parses(r) => NotOlder(r, authToken)
    BY <1>0, <1>p, <2>3 DEF NotOlder
  <2>5. OrderAt(c)'
    BY <2>2, <2>4 DEF OrderAt, NotOlder
  <2> QED BY <1>1, <2>2, <2>5
<1>8. ASSUME NEW c \in Callers, ReceiveToken(c) PROVE OrderInv'
  <2>1. /\ pc[c] = "awaitToken" /\ reply[c] \notin {None, Refused} /\ tok'[c] = reply[c]
        /\ pc'[c] = (IF StoresToken THEN "store" ELSE "assign")
        /\ UNCHANGED <<authToken, stored>>
    BY <1>8 DEF ReceiveToken, Goto, TypeInv, TypeOK
  <2>2. UsesCache => StoresToken
    BY DEF UsesCache, StoresToken, WritesBack
  <2>3. Parses(reply[c]) => NotOlder(reply[c], authToken)
    BY <2>1 DEF OrderInv, OrderAt
  <2>4. OrderAt(c)'
    BY <2>1, <2>2, <2>3 DEF OrderAt, NotOlder
  <2> QED BY <1>1, <2>1, <2>4
<1>9. ASSUME NEW c \in Callers, StoreToken(c) PROVE OrderInv'
  <2>1. /\ pc[c] = "store" /\ stored' = tok[c] /\ UNCHANGED authToken
        /\ pc'[c] = "idle" \/ (pc'[c] = "assign" /\ tok'[c] = tok[c])
    BY <1>9 DEF StoreToken, Goto, EndCall, TypeInv, TypeOK, WritesBack
  <2>2. Parses(tok[c]) => NotOlder(tok[c], authToken)
    BY <2>1 DEF OrderInv, OrderAt
  <2>3. CachedToken' = None \/ (CachedToken' = tok[c] /\ Parses(tok[c]))
    BY <2>1 DEF CachedToken
  <2>4. Parses(tok[c]) => NotOlder(CachedToken', tok[c])
    BY <1>0, <2>3 DEF NotOlder
  <2>5. NotOlder(CachedToken', authToken')
    BY <2>1, <2>2, <2>3 DEF NotOlder
  <2>6. OrderAt(c)'
    BY <2>1, <2>2, <2>4 DEF OrderAt, NotOlder
  <2> QED BY <2>5, <2>6 DEF OrderInv, OneGoroutine
<1>10. ASSUME NEW c \in Callers, AssignToken(c) PROVE OrderInv'
  <2>1. /\ pc[c] = "assign" /\ Parses(tok[c]) /\ authToken' = tok[c] /\ UNCHANGED stored
        /\ pc'[c] \in {"idle", "useToken"}
    BY <1>10 DEF AssignToken, Goto, EndCall, TypeInv, TypeOK
  <2>2. UsesCache => NotOlder(CachedToken', authToken')
    BY <1>u, <2>1 DEF OrderInv, OrderAt
  <2>3. OrderAt(c)'
    BY <2>1 DEF OrderAt
  <2> QED BY <2>2, <2>3 DEF OrderInv, OneGoroutine
<1>11. ASSUME OtherProcess PROVE OrderInv'
  <2>1. stored' \in {None} \cup Issued("other") /\ UNCHANGED <<authToken, pc, op, since, reply, tok>>
    BY <1>11 DEF OtherProcess
  <2>2. CachedToken' # None => CachedToken'.iat = ServerTime
    BY <1>0, <2>1, IssuedDated DEF CachedToken
  <2>3. NotOlder(CachedToken', authToken')
    BY <1>0, <1>p, <2>1, <2>2 DEF NotOlder
  <2>4. ASSUME NEW c \in Callers PROVE OrderAt(c)'
    <3>1. tok[c] # None /\ Parses(tok[c]) => NotOlder(CachedToken', tok[c])
      BY <1>0, <1>p, <2>2 DEF NotOlder
    <3>2. pc[c] = "setCached" => tok[c] # None /\ Parses(tok[c])
      BY SessionAssumption DEF TypeInv, LocalsOK, Token
    <3>3. OrderAt(c)
      BY DEF OrderInv
    <3>4. tok[c] = None => NotOlder(CachedToken', tok[c])
      BY DEF NotOlder
    <3> QED BY <2>1, <3>1, <3>2, <3>3, <3>4 DEF OrderAt, NotOlder
  <2> QED BY <2>3, <2>4 DEF OrderInv
<1>12. CASE Tick \/ UNCHANGED vars
  BY <1>12, <1>u DEF Tick, vars, OrderInv, OrderAt, NotOlder
<1> QED
  BY <1>3, <1>4, <1>5, <1>6, <1>7, <1>8, <1>9, <1>10, <1>11, <1>12
     DEF Next, LocalStep, NetworkStep, Quiescent


LEMMA OrderInvariant ==
    ASSUME OneGoroutine, WritesBack
    PROVE  Spec => []OrderInv
<1>1. OwnInv => CacheOnly
  BY DEF OwnInv
<1>2. TypeInv /\ CacheOnly /\ PastInv /\ OrderInv /\ [Next]_vars => OrderInv'
  BY OrderStep
<1> QED BY <1>1, <1>2, OrderInit, TypeInvariant, OwnInvariant, PastInvariant, PTL DEF Spec

(* Of two tokens with the same life, the later one becomes due later.      *)
LEMMA LaterDueLater ==
    ASSUME OneLife, NEW a \in Token, NEW b \in Token, Granted(a), Granted(b), a.iat >= b.iat,
           NEW t \in Int, ~ShouldRefresh(b, t)
    PROVE  ~ShouldRefresh(a, t)
<1>1. a.iat \in Int /\ b.iat \in Int
  BY DEF Token, Body
<1>2. CASE b.exp = NoExp
  <2>0. NoExp \in Lives
    <3>1. \A l \in Lives \ {NoExp} : b.iat + l \in Int
      BY <1>1, SessionAssumption
    <3> QED BY <1>2, <3>1, NoExpAssumption DEF Granted
  <2>1. a.exp = NoExp
    BY <2>0 DEF Granted, OneLife
  <2> QED BY <1>1, <1>2, <2>1 DEF ShouldRefresh, RefreshAge
<1>3. CASE b.exp # NoExp
  <2>1. PICK l \in Lives \ {NoExp} : b.exp = b.iat + l
    BY <1>3 DEF Granted
  <2>2. l \in Nat
    BY <2>1, SessionAssumption
  <2>3. a.exp = a.iat + l
    BY <2>1 DEF Granted, OneLife
  <2>4. a.exp \in Int /\ a.exp # NoExp
    BY <1>1, <2>2, <2>3, NoExpAssumption
  <2>5. ~(100 * (t - b.iat) > 85 * l)
    BY <1>1, <1>3, <2>1, <2>2 DEF ShouldRefresh
  <2>6. ~(100 * (t - a.iat) > 85 * l)
    BY <1>1, <2>2, <2>5
  <2> QED BY <1>1, <2>2, <2>3, <2>4, <2>6 DEF ShouldRefresh
<1> QED BY <1>2, <1>3

(* A client of a stored session, which reads the storage before it looks   *)
(* at the token in memory (RefreshToken, authn.go:29), never replaces a    *)
(* token that is still good by one that is due, even if other processes    *)
(* log in and out in the same storage: what it has in memory is in the     *)
(* storage too, unless something newer is.                                 *)
THEOREM StoredTokenKept ==
    ASSUME OneGoroutine, WritesBack, OneLife
    PROVE  Spec => FreshNotDisplaced
<1> DEFINE Kept == authToken # None /\ authToken' # authToken /\ ~ShouldRefresh(authToken, now)
                     => ~ShouldRefresh(authToken', now)
<1>1. TypeInv /\ PastInv /\ OrderInv /\ [Next]_vars => [Kept]_vars
  <2> SUFFICES ASSUME TypeInv, PastInv, OrderInv, Next, authToken # None, authToken' # authToken,
                      ~ShouldRefresh(authToken, now)
               PROVE  ~ShouldRefresh(authToken', now)
    OBVIOUS
  <2>1. PICK c \in Callers : SetCachedToken(c) \/ AssignToken(c)
    BY DEF Next, LocalStep, NetworkStep, StartRequest, StartForced, ReadCachedAccessToken,
           KeepToken, Reauthenticate, StoreToken, RejectToken, SendRequest, ServerAnswers,
           ReceiveToken, ReturnToken, AuthenticationFails, RequestEnds, OtherProcess, Tick,
           Quiescent, vars
  <2>2. /\ authToken' = tok[c] /\ tok[c] \in Token /\ tok[c] # None
        /\ authToken \in Token /\ now \in Int
    BY <2>1, SessionAssumption DEF SetCachedToken, AssignToken, TypeInv, TypeOK, LocalsOK, Token
  <2>3. NotOlder(tok[c], authToken)
    BY <2>1 DEF SetCachedToken, AssignToken, OrderInv, OrderAt
  <2>4. tok[c].iat >= authToken.iat
    BY <2>2, <2>3 DEF NotOlder
  <2>5. Granted(tok[c]) /\ Granted(authToken)
    BY <2>2 DEF PastInv, Dated, Token
  <2> QED BY <2>2, <2>4, <2>5, LaterDueLater
<1>2. Spec => []OrderInv
  BY OrderInvariant
<1> QED
  BY <1>1, <1>2, TypeInvariant, PastInvariant, PTL DEF Spec, FreshNotDisplaced
=============================================================================
