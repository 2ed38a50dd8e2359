--------------------------- MODULE StorageProofs ---------------------------
(***************************************************************************)
(* Proofs about CredentialStorage, for any number of processes, machines,  *)
(* accounts and tokens, whichever system calls fail and whoever crashes.   *)
(***************************************************************************)
EXTENDS CredentialStorage, TLAPS

Files  == [Machines \cup {Default} -> Entry \cup {None}]
Labels == {"idle", "start", "return", "open", "write", "setPassword", "getPassword",
           "deletePassword", "deleteToken"}

(* What a process does at a label, and what it holds there.                *)
AtWork(p) ==
    /\ pc[p] \in {"open", "write"} =>
          call[p].op \in StoreOps \cup {"purge"} /\ buf[p] \in Files /\ backend = "file"
    /\ pc[p] = "setPassword" => call[p].op = "storeCredentials"
    /\ pc[p] \in {"deletePassword", "deleteToken"} => call[p].op = "purge"
    /\ pc[p] = "getPassword" =>
          /\ call[p].op = "readCredentials" /\ buf[p] \in Accounts \cup {None}
          /\ backend = "keyring"

TypeInv ==
    /\ TypeOK
    /\ DOMAIN buf = Procs /\ DOMAIN answer = Procs
    /\ pc \in [Procs -> Labels]
    /\ \A p \in Procs : AtWork(p)

(* A call is of one of the forms that Calls lists.                         *)
LEMMA CallForms ==
    ASSUME NEW c \in Calls
    PROVE  /\ c # None /\ c.machine \in Machines
           /\ c.op = "storeCredentials" => c.value \in Accounts
           /\ c.op = "storeToken" => c.value \in Tokens
           /\ c.op \in StoreOps \cup ReadOps \cup {"purge"}
BY StorageAssumption DEF Calls, StoreOps, ReadOps

(* What NetrcWrite writes is a file again.                                 *)
LEMMA RewrittenFile ==
    ASSUME NEW file \in Files, NEW c \in Calls, c.op \in StoreOps \cup {"purge"}
    PROVE  Rewritten(file, c) \in Files
<1>1. c.op \in {"storeCredentials", "storeToken", "purge"} /\ c.machine \in Machines
    BY CallForms DEF StoreOps
<1>2. CASE c.op = "storeCredentials"
    BY <1>1, <1>2, CallForms DEF Rewritten, WithEntry, Login, Entry, Files
<1>3. CASE c.op = "storeToken"
    BY <1>1, <1>3, CallForms DEF Rewritten, WithEntry, Session, Entry, Files
<1>4. CASE c.op = "purge"
    BY <1>1, <1>4 DEF Rewritten, Files
<1> QED
    BY <1>1, <1>2, <1>3, <1>4

LEMMA TypeInit == Init => TypeInv
<1> SUFFICES ASSUME Init PROVE TypeInv
    OBVIOUS
<1>1. /\ call = [p \in Procs |-> None] /\ pc = [p \in Procs |-> "idle"]
      /\ DOMAIN buf = Procs /\ DOMAIN answer = Procs
    BY DEF Init, ClientInit
<1>2. backend \in {"file", "keyring", "none"} /\ mode \in {"readwrite", "readonly"}
    BY DEF Init, ClientInit, Backends
<1>3. netrc \in Files
    <2>1. EmptyFile \in Files
        BY DEF EmptyFile, Files
    <2>2. NetrcInit => netrc \in Files
        BY DEF NetrcInit, Files, Entry, Login, Session
    <2> QED
        BY <2>1, <2>2 DEF Init
<1>4. keyring \in [Machines -> Items]
    BY DEF Init, KeyringInit, EmptyKeyring, Items
<1>5. \A p \in Procs : call[p] = None /\ pc[p] = "idle"
    BY <1>1
<1> QED
    BY <1>1, <1>2, <1>3, <1>4, <1>5 DEF TypeInv, TypeOK, AtWork, Labels, Files

-----------------------------------------------------------------------------
(* The ways in which a process goes on: with the call it runs, or to its   *)
(* end.                                                                    *)
LEMMA GoesOn ==
    ASSUME TypeInv, NEW p \in Procs, NEW label \in Labels \ {"idle"}, pc[p] # "idle",
           Goto(p, label), UNCHANGED <<backend, mode, call, answer>>,
           DOMAIN buf' = Procs,
           \A q \in Procs \ {p} : buf'[q] = buf[q],
           AtWork(p)', netrc' \in Files, keyring' \in [Machines -> Items]
    PROVE  TypeInv'
<1>1. /\ pc' \in [Procs -> Labels] /\ pc'[p] = label
      /\ \A q \in Procs \ {p} : pc'[q] = pc[q]
    BY DEF TypeInv, Goto
<1>2. \A q \in Procs : AtWork(q)'
    BY <1>1 DEF TypeInv, AtWork
<1> QED
    BY <1>1, <1>2 DEF TypeInv, TypeOK, Files

LEMMA Finishes ==
    ASSUME TypeInv, NEW p \in Procs, NEW a, pc[p] # "idle", Finish(p, a),
           netrc' \in Files, keyring' \in [Machines -> Items]
    PROVE  TypeInv'
<1>1. /\ pc' \in [Procs -> Labels] /\ pc'[p] = "return"
      /\ \A q \in Procs \ {p} : pc'[q] = pc[q] /\ buf'[q] = buf[q]
      /\ DOMAIN buf' = Procs /\ DOMAIN answer' = Procs
    BY DEF TypeInv, Finish, Goto, Labels
<1>2. \A q \in Procs : AtWork(q)'
    BY <1>1 DEF TypeInv, AtWork, Finish
<1> QED
    BY <1>1, <1>2 DEF TypeInv, TypeOK, Files, Finish

LEMMA ClientTypeStep ==
    ASSUME TypeInv, NEW p \in Procs, ClientStep(p), UNCHANGED <<netrc, keyring>>
    PROVE  TypeInv'
<1> USE DEF TypeInv
<1>1. netrc' \in Files /\ keyring' \in [Machines -> Items]
    BY DEF TypeOK, Files
<1>2. CASE StartCall(p)
    <2>1. PICK c \in Calls : call' = [call EXCEPT ![p] = c]
        BY <1>2 DEF StartCall
    <2>2. pc' = [pc EXCEPT ![p] = "start"] /\ UNCHANGED <<backend, mode, buf, answer>>
        BY <1>2 DEF StartCall, Goto
    <2>3. /\ call' \in [Procs -> Calls \cup {None}] /\ call'[p] # None /\ pc'[p] = "start"
          /\ pc' \in [Procs -> Labels]
          /\ \A q \in Procs \ {p} : pc'[q] = pc[q] /\ call'[q] = call[q]
        BY <2>1, <2>2, CallForms DEF TypeOK, Labels
    <2>4. \A q \in Procs : AtWork(q)'
        BY <2>2, <2>3 DEF AtWork
    <2> QED
        BY <1>1, <2>2, <2>3, <2>4 DEF TypeOK, Files
<1>3. CASE Skip(p)
    BY <1>1, <1>3, Finishes DEF Skip
<1>4. CASE Return(p) \/ Crash(p)
    <2>1. /\ pc' = [pc EXCEPT ![p] = "idle"] /\ call' = [call EXCEPT ![p] = None]
          /\ DOMAIN answer' = Procs /\ DOMAIN buf' = Procs
          /\ \A q \in Procs \ {p} : buf'[q] = buf[q]
          /\ UNCHANGED <<backend, mode>>
        BY <1>4 DEF Return, Crash, Goto
    <2>2. /\ call' \in [Procs -> Calls \cup {None}] /\ call'[p] = None /\ pc'[p] = "idle"
          /\ pc' \in [Procs -> Labels]
          /\ \A q \in Procs \ {p} : pc'[q] = pc[q] /\ call'[q] = call[q]
        BY <2>1 DEF TypeOK, Labels
    <2>3. \A q \in Procs : AtWork(q)'
        BY <2>1, <2>2 DEF AtWork
    <2> QED
        BY <1>1, <2>1, <2>2, <2>3 DEF TypeOK, Files
<1> QED
    BY <1>2, <1>3, <1>4 DEF ClientStep

(* A call that is under way is one of those that Calls lists.              *)
LEMMA UnderWay ==
    ASSUME TypeInv, NEW p \in Procs, pc[p] # "idle" PROVE call[p] \in Calls
BY DEF TypeInv, TypeOK

LEMMA NetrcTypeStep ==
    ASSUME TypeInv, NEW p \in Procs, NetrcStep(p), UNCHANGED keyring
    PROVE  TypeInv'
<1>1. netrc \in Files /\ keyring' \in [Machines -> Items] /\ AtWork(p)
    BY DEF TypeInv, TypeOK, Files
<1>2. CASE NetrcReadCredentials(p) \/ NetrcReadAuthnToken(p)
    BY <1>1, <1>2, Finishes DEF NetrcReadCredentials, NetrcReadAuthnToken, Reaches
<1>3. CASE NetrcParse(p)
    <2>1. /\ pc[p] = "start" /\ backend' = "file" /\ call'[p].op \in StoreOps \cup {"purge"}
          /\ Goto(p, "open") /\ UNCHANGED <<backend, mode, call, answer>>
          /\ buf' = [buf EXCEPT ![p] = netrc] /\ UNCHANGED netrc
        BY <1>3 DEF NetrcParse, Reaches
    <2>2. buf'[p] \in Files /\ DOMAIN buf' = Procs /\ pc'[p] = "open"
        BY <1>1, <2>1 DEF TypeInv, Goto
    <2>3. AtWork(p)'
        BY <2>1, <2>2 DEF AtWork
    <2> QED
        BY <1>1, <2>1, <2>2, <2>3, GoesOn DEF Labels
<1>4. CASE NetrcOpenFails(p)
    BY <1>1, <1>4, Finishes DEF NetrcOpenFails
<1>5. CASE NetrcTruncate(p)
    <2>1. pc[p] = "open" /\ pc'[p] = "write" /\ netrc' = EmptyFile
        BY <1>5 DEF NetrcTruncate, Goto, TypeInv
    <2>2. netrc' \in Files
        BY <2>1 DEF EmptyFile, Files
    <2>3. AtWork(p)'
        BY <1>1, <1>5, <2>1 DEF AtWork, NetrcTruncate
    <2> QED
        BY <1>1, <1>5, <2>1, <2>2, <2>3, GoesOn DEF NetrcTruncate, Labels, TypeInv
<1>6. CASE NetrcWrite(p)
    <2>1. netrc' \in Files
        BY <1>1, <1>6, RewrittenFile, UnderWay DEF NetrcWrite, AtWork
    <2> QED
        BY <1>1, <1>6, <2>1, Finishes DEF NetrcWrite
<1> QED
    BY <1>2, <1>3, <1>4, <1>5, <1>6 DEF NetrcStep

(* An item of the keyring takes what is set, and nothing when deleted.     *)
LEMMA SetItem ==
    ASSUME TypeInv, NEW p \in Procs, pc[p] # "idle",
           NEW key \in {"login", "password", "authn_token"}, NEW v,
           v \in (IF key = "authn_token" THEN Tokens ELSE Accounts) \cup {None},
           Set(p, key, v)
    PROVE  keyring' \in [Machines -> Items]
<1>1. call[p].machine \in Machines
    BY UnderWay, CallForms
<1>2. \A i \in Items : [i EXCEPT ![key] = v] \in Items
    BY DEF Items
<1> QED
    BY <1>1, <1>2 DEF Set, TypeInv, TypeOK

LEMMA KeyringTypeStep ==
    ASSUME TypeInv, NEW p \in Procs, KeyringStep(p), UNCHANGED netrc
    PROVE  TypeInv'
<1>1. netrc' \in Files /\ keyring \in [Machines -> Items] /\ AtWork(p)
    BY DEF TypeInv, TypeOK, Files
<1>2. pc[p] # "idle" => call[p] \in Calls
    BY UnderWay
<1>3. CASE KeyringSetLogin(p)
    <2>1. pc[p] = "start" /\ call[p].op = "storeCredentials"
        BY <1>3 DEF KeyringSetLogin, Reaches
    <2>2. keyring' \in [Machines -> Items]
        BY <1>2, <1>3, <2>1, CallForms, SetItem DEF KeyringSetLogin
    <2>3. AtWork(p)'
        BY <1>3, <2>1 DEF KeyringSetLogin, Continue, Goto, AtWork, TypeInv
    <2> QED
        BY <1>1, <1>3, <2>1, <2>2, <2>3, GoesOn
           DEF KeyringSetLogin, Continue, Labels, TypeInv
<1>4. CASE KeyringSetPassword(p)
    <2>1. keyring' \in [Machines -> Items]
        BY <1>1, <1>2, <1>4, CallForms, SetItem DEF KeyringSetPassword, AtWork
    <2> QED
        BY <1>1, <1>4, <2>1, Finishes DEF KeyringSetPassword
<1>5. CASE KeyringStoreAuthnToken(p)
    <2>1. pc[p] = "start" /\ call[p].op = "storeToken"
        BY <1>5 DEF KeyringStoreAuthnToken, Reaches
    <2>2. keyring' \in [Machines -> Items]
        BY <1>2, <1>5, <2>1, CallForms, SetItem DEF KeyringStoreAuthnToken
    <2> QED
        BY <1>1, <1>5, <2>1, <2>2, Finishes DEF KeyringStoreAuthnToken
<1>6. CASE KeyringSetFails(p) \/ KeyringGetFails(p)
    BY <1>1, <1>6, Finishes DEF KeyringSetFails, KeyringGetFails, Reaches
<1>7. CASE KeyringGetLogin(p)
    <2>1. /\ pc[p] = "start" /\ call[p].op = "readCredentials" /\ backend = "keyring"
          /\ pc'[p] = "getPassword"
        BY <1>7 DEF KeyringGetLogin, Reaches, Goto, TypeInv
    <2>2. Item(p, "login") \in Accounts \cup {None}
        BY <1>1, <1>2, <2>1, CallForms DEF Item, Items
    <2>3. AtWork(p)' /\ DOMAIN buf' = Procs
        BY <1>7, <2>1, <2>2 DEF KeyringGetLogin, AtWork, TypeInv
    <2> QED
        BY <1>1, <1>7, <2>1, <2>3, GoesOn DEF KeyringGetLogin, Labels, TypeInv
<1>8. CASE KeyringGetPassword(p) \/ KeyringReadAuthnToken(p)
    BY <1>1, <1>8, Finishes DEF KeyringGetPassword, KeyringReadAuthnToken, Reaches
<1>9. CASE KeyringDeleteLogin(p) \/ KeyringDeletePassword(p)
    <2>1. /\ pc[p] # "idle" /\ call[p].op = "purge"
          /\ pc'[p] \in {"deletePassword", "deleteToken"} /\ Goto(p, pc'[p])
          /\ UNCHANGED <<backend, mode, call, buf, answer>>
        BY <1>1, <1>9 DEF KeyringDeleteLogin, KeyringDeletePassword, Reaches, Continue,
                          Goto, AtWork, TypeInv
    <2>2. keyring' \in [Machines -> Items]
        BY <1>1, <1>9, <2>1, SetItem DEF KeyringDeleteLogin, KeyringDeletePassword, Delete
    <2>3. AtWork(p)'
        BY <2>1 DEF AtWork
    <2> QED
        BY <1>1, <2>1, <2>2, <2>3, GoesOn DEF Labels, TypeInv
<1>10. CASE KeyringDeleteToken(p)
    <2>1. keyring' \in [Machines -> Items]
        BY <1>1, <1>10, SetItem DEF KeyringDeleteToken, Delete
    <2> QED
        BY <1>1, <1>10, <2>1, Finishes DEF KeyringDeleteToken
<1> QED
    BY <1>3, <1>4, <1>5, <1>6, <1>7, <1>8, <1>9, <1>10 DEF KeyringStep

LEMMA TypeStep == TypeInv /\ [Next]_vars => TypeInv'
<1> SUFFICES ASSUME TypeInv, [Next]_vars PROVE TypeInv'
    OBVIOUS
<1>1. CASE UNCHANGED vars
    BY <1>1 DEF vars, client, TypeInv, TypeOK, AtWork, Files
<1>2. CASE Next
    BY <1>2, ClientTypeStep, NetrcTypeStep, KeyringTypeStep DEF Next
<1> QED
    BY <1>1, <1>2

(* Whatever fails or dies half-way, the storage holds entries and items of *)
(* the forms that the providers write.                                     *)
THEOREM TypeCorrect == Spec => []TypeOK
<1>1. TypeInv => TypeOK
    BY DEF TypeInv
<1> QED
    BY TypeInit, TypeStep, <1>1, PTL DEF Spec

-----------------------------------------------------------------------------
Kinds(p, a) == /\ call[p].op = "readCredentials" => a \notin Tokens
               /\ call[p].op = "readToken" => a \notin Accounts

(* None of the words that are no credentials is taken for one.             *)
LEMMA WordsKeepKinds ==
    ASSUME NEW p, NEW a \in {"ok", "error", "torn", None} PROVE Kinds(p, a)
BY StorageAssumption DEF Kinds

LEMMA KindsKept ==
    ASSUME TypeInv, KindsApart, NEW p \in Procs, NEW a, Finish(p, a), Kinds(p, a)
    PROVE  KindsApart'
BY DEF TypeInv, KindsApart, Kinds, Finish, Goto

LEMMA KindsStay ==
    ASSUME TypeInv, KindsApart, NEW p \in Procs, pc'[p] # "return",
           \A q \in Procs \ {p} : pc'[q] = pc[q] /\ call'[q] = call[q] /\ answer'[q] = answer[q]
    PROVE  KindsApart'
BY DEF KindsApart

(* What the two readers of each backend make of what they find.            *)
LEMMA ReadAnswers ==
    ASSUME TypeInv, NEW p \in Procs, NEW a, Finish(p, a)
    PROVE  /\ NetrcReadCredentials(p) \/ KeyringGetPassword(p) =>
                /\ call[p].op = "readCredentials"
                /\ a \in Accounts \cup {None, "torn"}
           /\ NetrcReadAuthnToken(p) \/ KeyringReadAuthnToken(p) =>
                /\ call[p].op = "readToken"
                /\ a \in Tokens \cup {None}
<1> DEFINE e == FindMachine(netrc, call[p].machine)
<1>1. answer'[p] = a
    BY DEF Finish, TypeInv
<1>2. ASSUME NetrcReadCredentials(p)
      PROVE  call[p].op = "readCredentials" /\ a \in Accounts \cup {None, "torn"}
    <2>1. call[p] \in Calls /\ call[p].op = "readCredentials"
        BY <1>2, UnderWay DEF NetrcReadCredentials, Reaches
    <2>2. e \in Entry \cup {None}
        BY <2>1, CallForms DEF FindMachine, TypeInv, TypeOK
    <2>3. a = IF e = None THEN None
              ELSE IF e.login = OidcStorageMarker THEN None
              ELSE Pair(e.login, e.password)
        BY <1>1, <1>2 DEF NetrcReadCredentials, Finish, TypeInv
    <2> QED
        BY <2>1, <2>2, <2>3 DEF Pair, Entry
<1>3. ASSUME KeyringGetPassword(p)
      PROVE  call[p].op = "readCredentials" /\ a \in Accounts \cup {None, "torn"}
    <2>1. AtWork(p) /\ pc[p] = "getPassword"
        BY <1>3 DEF KeyringGetPassword, TypeInv
    <2>2. a = Pair(buf[p], Item(p, "password"))
        BY <1>1, <1>3 DEF KeyringGetPassword, Finish, TypeInv
    <2> QED
        BY <2>1, <2>2 DEF AtWork, Pair
<1>4. ASSUME NetrcReadAuthnToken(p) \/ KeyringReadAuthnToken(p)
      PROVE  call[p].op = "readToken" /\ a \in Tokens \cup {None}
    BY <1>1, <1>4 DEF NetrcReadAuthnToken, KeyringReadAuthnToken, Reaches, Finish, TypeInv,
                      AsToken
<1> QED
    BY <1>2, <1>3, <1>4

LEMMA KindsRead ==
    ASSUME TypeInv, NEW p \in Procs, NEW a,
           \/ NetrcReadCredentials(p) \/ NetrcReadAuthnToken(p)
           \/ KeyringGetPassword(p) \/ KeyringReadAuthnToken(p),
           Finish(p, a)
    PROVE  Kinds(p, a)
BY ReadAnswers, StorageAssumption DEF Kinds

(* The steps of a call that end it, and the others.                        *)
LEMMA StepForms ==
    ASSUME TypeInv, NEW p \in Procs,
           ClientStep(p) \/ NetrcStep(p) \/ KeyringStep(p)
    PROVE  \/ \E a \in {"ok", "error", None} : Finish(p, a)
           \/ /\ \/ NetrcReadCredentials(p) \/ NetrcReadAuthnToken(p)
                 \/ KeyringGetPassword(p) \/ KeyringReadAuthnToken(p)
              /\ \E a : Finish(p, a)
           \/ /\ pc'[p] # "return" /\ answer'[p] \in {answer[p], "pending"}
              /\ backend' = backend /\ DOMAIN answer' = Procs
              /\ \A q \in Procs \ {p} : /\ pc'[q] = pc[q] /\ call'[q] = call[q]
                                        /\ answer'[q] = answer[q]
<1> USE DEF TypeInv, TypeOK, Goto, Continue
<1>1. CASE StartCall(p) \/ Return(p) \/ Crash(p)
    BY <1>1 DEF StartCall, Return, Crash
<1>2. CASE Skip(p)
    BY <1>2 DEF Skip
<1>3. CASE NetrcParse(p) \/ NetrcTruncate(p) \/ NetrcOpenFails(p) \/ NetrcWrite(p)
    BY <1>3 DEF NetrcParse, NetrcTruncate, NetrcOpenFails, NetrcWrite
<1>4. CASE NetrcReadCredentials(p) \/ NetrcReadAuthnToken(p)
    BY <1>4 DEF NetrcReadCredentials, NetrcReadAuthnToken
<1>5. CASE KeyringSetLogin(p) \/ KeyringGetLogin(p)
           \/ KeyringDeleteLogin(p) \/ KeyringDeletePassword(p)
    BY <1>5 DEF KeyringSetLogin, KeyringGetLogin, KeyringDeleteLogin, KeyringDeletePassword
<1>6. CASE KeyringSetPassword(p) \/ KeyringStoreAuthnToken(p) \/ KeyringSetFails(p)
           \/ KeyringGetFails(p) \/ KeyringDeleteToken(p)
    BY <1>6 DEF KeyringSetPassword, KeyringStoreAuthnToken, KeyringSetFails,
                KeyringGetFails, KeyringDeleteToken
<1>7. CASE KeyringGetPassword(p) \/ KeyringReadAuthnToken(p)
    BY <1>7 DEF KeyringGetPassword, KeyringReadAuthnToken
<1> QED
    BY <1>1, <1>2, <1>3, <1>4, <1>5, <1>6, <1>7 DEF ClientStep, NetrcStep, KeyringStep

LEMMA KindsStep == TypeInv /\ KindsApart /\ [Next]_vars => KindsApart'
<1> SUFFICES ASSUME TypeInv, KindsApart, [Next]_vars PROVE KindsApart'
    OBVIOUS
<1>1. CASE UNCHANGED vars
    BY <1>1 DEF vars, client, KindsApart
<1>2. ASSUME NEW p \in Procs, ClientStep(p) \/ NetrcStep(p) \/ KeyringStep(p)
      PROVE  KindsApart'
    BY <1>2, StepForms, KindsKept, KindsRead, WordsKeepKinds, KindsStay
<1> QED
    BY <1>1, <1>2 DEF Next

(* An access token in a .netrc entry is not handed out as an API key, nor  *)
(* an API key as a token, whatever the processes store in turn.            *)
THEOREM KindsNeverMixed == Spec => []KindsApart
<1>1. Init => KindsApart
    BY DEF Init, ClientInit, KindsApart
<1> QED
    BY <1>1, TypeInit, TypeStep, KindsStep, PTL DEF Spec

-----------------------------------------------------------------------------
(* In the file, and in what a process has read of it, a login stands next  *)
(* to its own key, because a provider rewrites an entry as a whole.        *)
WholeFile(file) ==
    \A m \in Machines \cup {Default} :
        file[m] # None =>
            \/ file[m].login = OidcStorageMarker /\ file[m].password \in Tokens
            \/ file[m].login = file[m].password /\ file[m].login \in Accounts

Whole ==
    backend = "file" =>
        /\ WholeFile(netrc)
        /\ \A p \in Procs : pc[p] \in {"open", "write"} => WholeFile(buf[p])
        /\ \A p \in Procs : answer[p] # "torn"

LEMMA WholeInit == Init => Whole
<1> SUFFICES ASSUME Init, backend = "file" PROVE Whole
    BY DEF Whole
<1>1. WholeFile(netrc)
    BY DEF Init, NetrcInit, WholeFile, Login, Session
<1> QED
    BY <1>1 DEF Init, ClientInit, Whole

LEMMA WholeRewritten ==
    ASSUME NEW file \in Files, NEW c \in Calls, c.op \in StoreOps \cup {"purge"},
           WholeFile(file)
    PROVE  WholeFile(Rewritten(file, c))
<1>1. c.op \in {"storeCredentials", "storeToken", "purge"} /\ c.machine \in Machines
    BY CallForms DEF StoreOps
<1>2. CASE c.op = "storeCredentials"
    BY <1>1, <1>2, CallForms DEF Rewritten, WithEntry, Login, Files, WholeFile
<1>3. CASE c.op = "storeToken"
    BY <1>1, <1>3, CallForms DEF Rewritten, WithEntry, Session, Files, WholeFile
<1>4. CASE c.op = "purge"
    BY <1>1, <1>4 DEF Rewritten, Files, WholeFile
<1> QED
    BY <1>1, <1>2, <1>3, <1>4

LEMMA WholeStep == TypeInv /\ Whole /\ [Next]_vars => Whole'
<1> SUFFICES ASSUME TypeInv, Whole, [Next]_vars, backend' = "file" PROVE Whole'
    BY DEF Whole
<1>1. CASE UNCHANGED vars
    BY <1>1 DEF vars, client, Whole
<1>2. ASSUME NEW p \in Procs, NEW a, Finish(p, a), a # "torn", WholeFile(netrc)'
      PROVE  Whole'
    BY <1>2 DEF Finish, Goto, Whole, TypeInv
<1>3. ASSUME NEW p \in Procs, ClientStep(p), UNCHANGED <<netrc, keyring>> PROVE Whole'
    <2>1. backend = "file" /\ WholeFile(netrc)'
        BY <1>3 DEF ClientStep, StartCall, Skip, Finish, Return, Crash, Whole
    <2>2. CASE Skip(p)
        BY <1>2, <2>1, <2>2, StorageAssumption DEF Skip
    <2>3. CASE StartCall(p) \/ Return(p) \/ Crash(p)
        BY <2>1, <2>3 DEF StartCall, Return, Crash, Goto, Whole, TypeInv
    <2> QED
        BY <1>3, <2>2, <2>3 DEF ClientStep
<1>4. ASSUME NEW p \in Procs, NetrcStep(p) PROVE Whole'
    <2>1. backend = "file" /\ WholeFile(netrc) /\ AtWork(p)
        BY <1>4 DEF NetrcStep, NetrcReadCredentials, NetrcReadAuthnToken, NetrcParse,
                    NetrcOpenFails, NetrcTruncate, NetrcWrite, Finish, Whole, TypeInv
    <2>2. CASE NetrcReadCredentials(p)
        <3> DEFINE e == FindMachine(netrc, call[p].machine)
        <3>1. e = None \/ e.login = OidcStorageMarker \/ e.login = e.password
            BY <2>1, <2>2, UnderWay, CallForms
               DEF NetrcReadCredentials, Reaches, FindMachine, WholeFile
        <3>2. e \in Entry \cup {None}
            BY <2>2, UnderWay, CallForms
               DEF NetrcReadCredentials, Reaches, FindMachine, TypeInv, TypeOK
        <3>3. (IF e = None THEN None ELSE IF e.login = OidcStorageMarker THEN None
               ELSE Pair(e.login, e.password)) # "torn"
            BY <3>1, <3>2, StorageAssumption DEF Pair, Entry
        <3> QED
            BY <1>2, <2>1, <2>2, <3>3 DEF NetrcReadCredentials
    <2>3. CASE NetrcReadAuthnToken(p)
        BY <1>2, <2>1, <2>3, StorageAssumption DEF NetrcReadAuthnToken, AsToken
    <2>4. CASE NetrcParse(p)
        BY <2>1, <2>4 DEF NetrcParse, Goto, Whole, TypeInv
    <2>5. CASE NetrcOpenFails(p)
        BY <1>2, <2>1, <2>5 DEF NetrcOpenFails
    <2>6. CASE NetrcTruncate(p)
        BY <2>1, <2>6 DEF NetrcTruncate, EmptyFile, WholeFile, Goto, Whole, TypeInv
    <2>7. CASE NetrcWrite(p)
        <3>1. buf[p] \in Files /\ WholeFile(buf[p]) /\ call[p] \in Calls
              /\ call[p].op \in StoreOps \cup {"purge"}
            BY <2>1, <2>7, UnderWay DEF NetrcWrite, AtWork, Whole
        <3> QED
            BY <1>2, <2>7, <3>1, WholeRewritten DEF NetrcWrite
    <2> QED
        BY <1>4, <2>2, <2>3, <2>4, <2>5, <2>6, <2>7 DEF NetrcStep
<1>5. ASSUME NEW p \in Procs, KeyringStep(p), UNCHANGED netrc PROVE Whole'
    <2>1. backend = "file" /\ WholeFile(netrc)' /\ AtWork(p)
        BY <1>5 DEF KeyringStep, KeyringSetLogin, KeyringSetPassword, KeyringStoreAuthnToken,
                    KeyringSetFails, KeyringGetLogin, KeyringGetPassword,
                    KeyringReadAuthnToken, KeyringGetFails, KeyringDeleteLogin,
                    KeyringDeletePassword, KeyringDeleteToken, Continue, Finish, Whole, TypeInv
    <2>2. CASE \E a \in {"ok", "error", None} : Finish(p, a)
        BY <1>2, <2>1, <2>2, StorageAssumption
    <2>3. CASE KeyringGetPassword(p) \/ KeyringReadAuthnToken(p)
        BY <2>1, <2>3 DEF KeyringGetPassword, KeyringReadAuthnToken, Reaches, AtWork
    <2>4. CASE KeyringSetLogin(p) \/ KeyringGetLogin(p) \/ KeyringDeleteLogin(p)
        BY <2>1, <2>4 DEF KeyringSetLogin, KeyringGetLogin, KeyringDeleteLogin, Reaches
    <2>5. CASE KeyringDeletePassword(p)
        BY <2>1, <2>5 DEF KeyringDeletePassword, Continue, Goto, Whole, TypeInv
    <2> QED
        BY <1>5, <2>2, <2>3, <2>4, <2>5
           DEF KeyringStep, KeyringSetPassword, KeyringStoreAuthnToken, KeyringSetFails,
               KeyringGetFails, KeyringDeleteToken
<1> QED
    BY <1>1, <1>3, <1>4, <1>5 DEF Next

(* Processes log in, purge and die on the same .netrc file: whoever reads  *)
(* a login from it gets the API key of that login with it.                 *)
THEOREM PairsStayWhole == Spec => []WholePairs
<1>1. Whole => WholePairs
    BY DEF Whole, WholePairs
<1> QED
    BY <1>1, WholeInit, WholeStep, TypeInit, TypeStep, PTL DEF Spec

-----------------------------------------------------------------------------
(* One process at a time, and no errors that PurgeCredentials swallows.    *)
Alone == /\ \E p \in Procs : Procs = {p}
         /\ ~Crashes /\ "delete" \notin Faults

DefaultLogin(file) == file[Default] # None => file[Default].login # OidcStorageMarker

(* What the process knows while a call is under way: what it has read is   *)
(* still so, and so is what it has set or deleted.                         *)
Knows(p) ==
    /\ answer[p] = "pending" <=> pc[p] # "return"
    /\ pc[p] \in {"open", "write"} => DefaultLogin(buf[p])
    /\ pc[p] \in {"open", "write"} /\ call[p].op \in StoreOps => mode = "readwrite"
    /\ pc[p] = "open" => buf[p] = netrc
    /\ pc[p] = "setPassword" =>
          backend = "keyring" /\ mode = "readwrite" /\ Item(p, "login") = call[p].value
    /\ pc[p] = "getPassword" => buf[p] = Item(p, "login")
    /\ pc[p] \in {"deletePassword", "deleteToken"} =>
          backend = "keyring" /\ Item(p, "login") = None
    /\ pc[p] = "deleteToken" => Item(p, "password") = None

AloneInv ==
    /\ TypeInv /\ Whole
    /\ backend = "file" => DefaultLogin(netrc)
    /\ \A p \in Procs : Knows(p)

LEMMA AloneInit == Init => AloneInv
<1> SUFFICES ASSUME Init PROVE AloneInv
    OBVIOUS
<1>1. backend = "file" => DefaultLogin(netrc)
    BY StorageAssumption, NetrcAssumption DEF Init, NetrcInit, DefaultLogin, Login, OidcStorageMarker, Default
<1>2. \A p \in Procs : Knows(p)
    BY DEF Init, ClientInit, Knows
<1> QED
    BY <1>1, <1>2, TypeInit, WholeInit DEF AloneInv

(* A call that ends has nothing left to know.                              *)
LEMMA AloneFinishes ==
    ASSUME Alone, AloneInv, TypeInv', Whole', NEW p \in Procs, NEW a, a # "pending",
           Finish(p, a), backend = "file" => DefaultLogin(netrc')
    PROVE  AloneInv'
<1>1. Knows(p)'
    BY DEF Knows, Finish, Goto, AloneInv, TypeInv
<1> QED
    BY <1>1 DEF AloneInv, Alone, Finish

(* What the readers return is never mistaken for no answer.                *)
LEMMA AnswersGiven ==
    ASSUME TypeInv, NEW p \in Procs, NEW a, Finish(p, a),
           \/ NetrcReadCredentials(p) \/ NetrcReadAuthnToken(p)
           \/ KeyringGetPassword(p) \/ KeyringReadAuthnToken(p)
    PROVE  a # "pending"
BY ReadAnswers, StorageAssumption

LEMMA AloneStep == Alone /\ AloneInv /\ [Next]_vars => AloneInv'
<1> SUFFICES ASSUME Alone, AloneInv, [Next]_vars PROVE AloneInv'
    OBVIOUS
<1>1. CASE UNCHANGED vars
    <2>1. TypeInv' /\ Whole'
        BY TypeStep, WholeStep DEF AloneInv
    <2> QED
        BY <1>1, <2>1 DEF vars, client, AloneInv, Knows, Item
<1>2. ASSUME Next PROVE AloneInv'
  <2>1. TypeInv /\ TypeInv' /\ Whole'
      BY <1>2, TypeStep, WholeStep DEF AloneInv
  <2>2. PICK p \in Procs :
            \/ ClientStep(p) /\ UNCHANGED <<netrc, keyring>>
            \/ NetrcStep(p) /\ UNCHANGED keyring
            \/ KeyringStep(p) /\ UNCHANGED netrc
      BY <1>2 DEF Next
  <2>3. Procs = {p} /\ Knows(p) /\ AtWork(p)
      BY DEF Alone, AloneInv, TypeInv
  <2>4. backend = "file" => DefaultLogin(netrc)
      BY DEF AloneInv
  <2>5. ASSUME NEW a, Finish(p, a), a # "pending", UNCHANGED netrc PROVE AloneInv'
      BY <2>1, <2>4, <2>5, AloneFinishes
  <2>6. ASSUME Knows(p)', UNCHANGED netrc, UNCHANGED backend PROVE AloneInv'
      BY <2>1, <2>3, <2>4, <2>6 DEF AloneInv
  <2>7. CASE ClientStep(p) /\ UNCHANGED <<netrc, keyring>>
      <3>1. CASE StartCall(p) \/ Return(p)
          BY <2>1, <2>3, <2>6, <2>7, <3>1
             DEF StartCall, Return, Goto, Knows, TypeInv
      <3>2. CASE Skip(p)
          BY <2>5, <2>7, <3>2, StorageAssumption DEF Skip
      <3>3. ~Crash(p)
          BY DEF Crash, Alone
      <3> QED
          BY <2>7, <3>1, <3>2, <3>3 DEF ClientStep
  <2>8. CASE NetrcStep(p) /\ UNCHANGED keyring
      <3>1. CASE NetrcReadCredentials(p) \/ NetrcReadAuthnToken(p)
          BY <2>1, <2>5, <3>1, AnswersGiven DEF NetrcReadCredentials, NetrcReadAuthnToken
      <3>2. CASE NetrcParse(p)
          BY <2>1, <2>3, <2>4, <2>6, <3>2
             DEF NetrcParse, Reaches, Goto, Knows, TypeInv, TypeOK, shouldStoreCredentials
      <3>3. CASE NetrcOpenFails(p)
          BY <2>5, <3>3 DEF NetrcOpenFails
      <3>4. CASE NetrcTruncate(p)
          <4>1. Knows(p)'
              BY <2>1, <2>3, <3>4 DEF NetrcTruncate, Goto, Knows, TypeInv
          <4>2. DefaultLogin(netrc')
              BY <3>4 DEF NetrcTruncate, EmptyFile, DefaultLogin
          <4> QED
              BY <2>1, <2>3, <4>1, <4>2 DEF AloneInv
      <3>5. CASE NetrcWrite(p)
          <4>1. /\ buf[p] \in Files /\ call[p] \in Calls /\ call[p].machine \in Machines
                /\ DefaultLogin(buf[p])
                /\ call[p].op \in {"storeCredentials", "storeToken", "purge"}
              BY <2>1, <2>3, <3>5, UnderWay, CallForms
                 DEF NetrcWrite, Knows, AtWork, StoreOps
          <4>2. Rewritten(buf[p], call[p])[Default] = buf[p][Default]
              BY <4>1, StorageAssumption DEF Rewritten, WithEntry, Files, Default
          <4> QED
              BY <2>1, <3>5, <4>1, <4>2, AloneFinishes DEF NetrcWrite, DefaultLogin
      <3> QED
          BY <2>8, <3>1, <3>2, <3>3, <3>4, <3>5 DEF NetrcStep
  <2>9. CASE KeyringStep(p) /\ UNCHANGED netrc
      <3> DEFINE m == call[p].machine
      <3>0. pc[p] # "idle" => m \in Machines
          BY <2>1, UnderWay, CallForms
      <3>1. CASE KeyringSetLogin(p) \/ KeyringGetLogin(p)
          BY <2>1, <2>3, <2>6, <2>9, <3>0, <3>1
             DEF KeyringSetLogin, KeyringGetLogin, Reaches, Set, Item, Continue, Goto, Knows,
                 TypeInv, TypeOK, Items, shouldStoreCredentials, StoreOps
      <3>2. CASE KeyringSetPassword(p) \/ KeyringStoreAuthnToken(p) \/ KeyringSetFails(p)
                 \/ KeyringGetFails(p) \/ KeyringDeleteToken(p)
          BY <2>5, <2>9, <3>2
             DEF KeyringSetPassword, KeyringStoreAuthnToken, KeyringSetFails,
                 KeyringGetFails, KeyringDeleteToken
      <3>3. CASE KeyringGetPassword(p) \/ KeyringReadAuthnToken(p)
          BY <2>1, <2>5, <2>9, <3>3, AnswersGiven
             DEF KeyringGetPassword, KeyringReadAuthnToken
      <3>4. CASE KeyringDeleteLogin(p) \/ KeyringDeletePassword(p)
          BY <2>1, <2>3, <2>6, <2>9, <3>0, <3>4
             DEF KeyringDeleteLogin, KeyringDeletePassword, Reaches, Delete, Set, Item,
                 Continue, Goto, Knows, TypeInv, TypeOK, Items, Alone
      <3> QED
          BY <2>9, <3>1, <3>2, <3>3, <3>4 DEF KeyringStep
  <2> QED
      BY <2>2, <2>7, <2>8, <2>9
<1> QED
    BY <1>1, <1>2

-----------------------------------------------------------------------------
(* The vault as a function of a file, and of the keyring's items.          *)
CredsIn(f) ==
    [m \in Machines |-> IF f[m] = None \/ f[m].login = OidcStorageMarker
                        THEN None ELSE f[m].login]
TokenIn(f) ==
    [m \in Machines |-> IF f[m] # None /\ f[m].login = OidcStorageMarker
                        THEN f[m].password ELSE None]
CredsOf(k) ==
    [m \in Machines |-> IF k[m].login = k[m].password THEN k[m].login ELSE "torn"]
TokenOf(k) == [m \in Machines |-> k[m].authn_token]

LEMMA FileView ==
    ASSUME NEW f \in Files, WholeFile(f), NEW m \in Machines
    PROVE  Pair(f[m].login, f[m].password) = f[m].login
           \/ f[m] = None \/ f[m].login = OidcStorageMarker
BY StorageAssumption DEF Files, WholeFile, Pair, Entry

(* The vault of a process that uses the file, and of one that uses the     *)
(* keyring, whose calls take effect with the first request.                *)
FileVault(p) ==
    /\ File = IF pc[p] = "write" THEN buf[p] ELSE netrc
    /\ File \in Files /\ WholeFile(File)
    /\ VaultCreds = CredsIn(File) /\ VaultToken = TokenIn(File)

KeyringVault(p) ==
    LET m == call[p].machine
        deleting == pc[p] \in {"deletePassword", "deleteToken"}
    IN  /\ VaultCreds = IF deleting THEN [CredsOf(keyring) EXCEPT ![m] = None]
                        ELSE IF pc[p] = "setPassword"
                        THEN [CredsOf(keyring) EXCEPT ![m] = call[p].value]
                        ELSE CredsOf(keyring)
        /\ VaultToken = IF deleting THEN [TokenOf(keyring) EXCEPT ![m] = None]
                        ELSE TokenOf(keyring)

Views ==
    Alone /\ AloneInv =>
        \A p \in Procs :
            /\ backend = "file" => FileVault(p)
            /\ backend = "keyring" => KeyringVault(p)
            /\ backend = "none" => /\ VaultCreds = [m \in Machines |-> None]
                                   /\ VaultToken = [m \in Machines |-> None]

LEMMA ViewsHold == Views
<1> SUFFICES ASSUME Alone, AloneInv, NEW p \in Procs
             PROVE  /\ backend = "file" => FileVault(p)
                    /\ backend = "keyring" => KeyringVault(p)
                    /\ backend = "none" => /\ VaultCreds = [m \in Machines |-> None]
                                           /\ VaultToken = [m \in Machines |-> None]
    BY DEF Views
<1>1. Procs = {p} /\ TypeInv /\ Whole
    BY DEF Alone, AloneInv
<1>2. ASSUME backend = "file" PROVE FileVault(p)
    <2>1. File = IF pc[p] = "write" THEN buf[p] ELSE netrc
        BY <1>1 DEF File
    <2>2. File \in Files /\ WholeFile(File)
        BY <1>1, <1>2, <2>1 DEF TypeInv, TypeOK, AtWork, Whole, Files
    <2>3. VaultCreds = [m \in Machines |-> NetrcCreds(m)]
        BY <1>2 DEF VaultCreds, PerMachine
    <2>4. VaultCreds = CredsIn(File)
        BY <2>2, <2>3, FileView DEF NetrcCreds, CredsIn
    <2>5. VaultToken = TokenIn(File)
        BY <1>2 DEF VaultToken, PerMachine, NetrcToken, TokenIn
    <2> QED
        BY <2>1, <2>2, <2>4, <2>5 DEF FileVault
<1>3. ASSUME backend = "keyring" PROVE KeyringVault(p)
    <2>1. ASSUME NEW m \in Machines
          PROVE  /\ Deleting(m) = IF /\ pc[p] \in {"deletePassword", "deleteToken"}
                                     /\ call[p].machine = m THEN {p} ELSE {}
                 /\ Setting(m) = IF pc[p] = "setPassword" /\ call[p].machine = m
                                 THEN {p} ELSE {}
        BY <1>1 DEF Deleting, Setting, Halfway
    <2>2. ASSUME NEW m \in Machines
          PROVE  /\ Deleting(m) # {} <=> /\ pc[p] \in {"deletePassword", "deleteToken"}
                                         /\ call[p].machine = m
                 /\ Setting(m) # {} <=> pc[p] = "setPassword" /\ call[p].machine = m
        BY <2>1
    <2>3. /\ VaultCreds = [m \in Machines |-> KeyringCreds(m)]
          /\ VaultToken = [m \in Machines |-> KeyringToken(m)]
        BY <1>3 DEF VaultCreds, VaultToken, PerMachine
    <2> DEFINE deleting == pc[p] \in {"deletePassword", "deleteToken"}
    <2>4. ASSUME NEW m \in Machines
          PROVE  /\ KeyringCreds(m) =
                      IF deleting /\ call[p].machine = m THEN None
                      ELSE IF pc[p] = "setPassword" /\ call[p].machine = m
                      THEN call[p].value ELSE CredsOf(keyring)[m]
                 /\ KeyringToken(m) = IF deleting /\ call[p].machine = m THEN None
                                      ELSE TokenOf(keyring)[m]
        <3>1. CASE deleting /\ call[p].machine = m
            BY <2>2, <3>1 DEF KeyringCreds, KeyringToken
        <3>2. CASE pc[p] = "setPassword" /\ call[p].machine = m
            <4>1. Deleting(m) = {} /\ Setting(m) = {p}
                BY <2>1, <3>2
            <4>2. KeyringCreds(m) = call[CHOOSE q \in {p} : TRUE].value
                BY <4>1 DEF KeyringCreds
            <4>3. (CHOOSE q \in {p} : TRUE) = p
                OBVIOUS
            <4> QED
                BY <3>2, <4>1, <4>2, <4>3 DEF KeyringToken, TokenOf
        <3>3. CASE Deleting(m) = {} /\ Setting(m) = {}
            BY <2>2, <3>3 DEF KeyringCreds, KeyringToken, CredsOf, TokenOf
        <3> QED
            BY <2>1, <3>1, <3>2, <3>3
    <2>5. /\ DOMAIN CredsOf(keyring) = Machines /\ DOMAIN TokenOf(keyring) = Machines
          /\ CredsOf(keyring) = [m \in Machines |-> CredsOf(keyring)[m]]
          /\ TokenOf(keyring) = [m \in Machines |-> TokenOf(keyring)[m]]
        BY DEF CredsOf, TokenOf
    <2> HIDE DEF deleting
    <2>6. VaultCreds = IF deleting THEN [CredsOf(keyring) EXCEPT ![call[p].machine] = None]
                       ELSE IF pc[p] = "setPassword"
                       THEN [CredsOf(keyring) EXCEPT ![call[p].machine] = call[p].value]
                       ELSE CredsOf(keyring)
        BY <2>3, <2>4, <2>5
    <2>7. VaultToken = IF deleting THEN [TokenOf(keyring) EXCEPT ![call[p].machine] = None]
                       ELSE TokenOf(keyring)
        BY <2>3, <2>4, <2>5
    <2> QED
        BY <2>6, <2>7 DEF KeyringVault, deleting
<1>4. ASSUME backend = "none"
      PROVE  /\ VaultCreds = [m \in Machines |-> None]
             /\ VaultToken = [m \in Machines |-> None]
    BY <1>4 DEF VaultCreds, VaultToken, PerMachine
<1> QED
    BY <1>2, <1>3, <1>4

LEMMA ViewsAfter == Views'
BY ViewsHold, PTL

-----------------------------------------------------------------------------
Midway == {"write", "setPassword", "deletePassword", "deleteToken"}

(* A step that leaves the storage alone leaves the vault alone.            *)
LEMMA VaultStays ==
    ASSUME Alone, AloneInv, AloneInv', NEW p \in Procs,
           UNCHANGED <<backend, mode, netrc, keyring>>,
           pc[p] \notin Midway, pc'[p] \notin Midway
    PROVE  UNCHANGED <<VaultWritable, VaultFallback, VaultCreds, VaultToken>>
<1>1. Procs = {p}
    BY DEF Alone
<1>2. File' = File
    BY <1>1 DEF File, Midway
<1>3. UNCHANGED <<VaultWritable, VaultFallback>>
    BY <1>2 DEF VaultWritable, VaultFallback
<1>4. backend \in {"file", "keyring", "none"}
    BY DEF AloneInv, TypeInv, TypeOK
<1>5. UNCHANGED <<VaultCreds, VaultToken>>
    BY <1>2, <1>4, ViewsHold, ViewsAfter DEF Views, FileVault, KeyringVault, Midway
<1> QED
    BY <1>3, <1>5

LEMMA AnswerChanges ==
    ASSUME TypeInv, NEW p \in Procs, NEW a, Finish(p, a)
    PROVE  VaultAnswer' = [VaultAnswer EXCEPT ![p] = a] /\ UNCHANGED call
BY DEF TypeInv, Finish, Goto, VaultAnswer

LEMMA VaultPending ==
    ASSUME AloneInv, NEW p \in Procs, pc[p] \notin Midway \ {"write"}, pc[p] # "return"
    PROVE  VaultAnswer[p] = "pending"
BY DEF AloneInv, Knows, Midway, VaultAnswer

LEMMA VaultCalls == Vault!Calls = Calls
BY DEF Vault!Calls, Calls, ReadOps

LEMMA ClientVaultStep ==
    ASSUME Alone, AloneInv, AloneInv', NEW p \in Procs, ClientStep(p),
           UNCHANGED <<netrc, keyring>>
    PROVE  Vault!Next
<1>0. TypeInv /\ Knows(p) /\ AtWork(p)
    BY DEF AloneInv, TypeInv
<1>1. CASE StartCall(p)
    <2>1. UNCHANGED <<VaultWritable, VaultFallback, VaultCreds, VaultToken>>
        BY <1>0, <1>1, VaultStays DEF StartCall, Goto, Midway, TypeInv
    <2>2. call[p] = None /\ \E c \in Vault!Calls : call' = [call EXCEPT ![p] = c]
        BY <1>0, <1>1, VaultCalls DEF StartCall, TypeInv, TypeOK
    <2>3. UNCHANGED VaultAnswer
        BY <1>0, <1>1 DEF StartCall, Goto, VaultAnswer, TypeInv
    <2> QED
        BY <2>1, <2>2, <2>3 DEF Vault!Next, Vault!Begin
<1>2. CASE Return(p)
    <2>1. UNCHANGED <<VaultWritable, VaultFallback, VaultCreds, VaultToken>>
        BY <1>0, <1>2, VaultStays DEF Return, Goto, Midway, TypeInv
    <2>2. VaultAnswer[p] # "pending" /\ VaultAnswer' = [VaultAnswer EXCEPT ![p] = "pending"]
        BY <1>0, <1>2 DEF Return, Goto, VaultAnswer, Knows, TypeInv
    <2> QED
        BY <1>2, <2>1, <2>2 DEF Return, Vault!Next, Vault!Return
<1>3. CASE Skip(p)
    <2> DEFINE a == IF call[p].op \in ReadOps THEN None ELSE "ok"
    <2>1. Finish(p, a) /\ pc[p] = "start" /\ pc'[p] = "return"
        BY <1>0, <1>3 DEF Skip, Finish, Goto, TypeInv
    <2>2. UNCHANGED <<VaultWritable, VaultFallback, VaultCreds, VaultToken>>
        BY <2>1, VaultStays DEF Finish, Midway
    <2>3. VaultAnswer[p] = "pending" /\ VaultAnswer' = [VaultAnswer EXCEPT ![p] = a]
          /\ UNCHANGED call
        BY <1>0, <2>1, VaultPending, AnswerChanges DEF Midway
    <2>4. call[p] # None /\ call[p].machine \in Machines
          /\ call[p].op \in StoreOps \cup ReadOps \cup {"purge"}
        BY <1>0, <2>1, UnderWay, CallForms
    <2>5. \/ backend = "none" /\ VaultFallback = None
             /\ VaultCreds = [m \in Machines |-> None]
             /\ VaultToken = [m \in Machines |-> None]
          \/ call[p].op \in StoreOps /\ ~VaultWritable
        BY <1>3, ViewsHold DEF Views, Skip, shouldStoreCredentials, VaultWritable, VaultFallback
    <2>6. ~VaultWritable \/ call[p].op \notin StoreOps
        BY <2>5 DEF VaultWritable
    <2>7. CASE call[p].op = "storeCredentials"
        BY <2>2, <2>3, <2>4, <2>6, <2>7
           DEF StoreOps, ReadOps, Vault!Next, Vault!StoreCredentials, Vault!Runs, Vault!Answer
    <2>8. CASE call[p].op = "storeToken"
        BY <2>2, <2>3, <2>4, <2>6, <2>8
           DEF StoreOps, ReadOps, Vault!Next, Vault!StoreToken, Vault!Runs, Vault!Answer
    <2>9. CASE call[p].op = "readCredentials"
        BY <2>2, <2>3, <2>4, <2>5, <2>9
           DEF StoreOps, ReadOps, Vault!Next, Vault!ReadCredentials, Vault!Runs, Vault!Answer
    <2>10. CASE call[p].op = "readToken"
        BY <2>2, <2>3, <2>4, <2>5, <2>10
           DEF StoreOps, ReadOps, Vault!Next, Vault!ReadToken, Vault!Runs, Vault!Answer
    <2>11. CASE call[p].op = "purge"
        BY <2>2, <2>3, <2>4, <2>5, <2>11
           DEF StoreOps, ReadOps, Vault!Next, Vault!Purge, Vault!Runs, Vault!Answer,
               Vault!With
    <2> QED
        BY <2>4, <2>7, <2>8, <2>9, <2>10, <2>11 DEF StoreOps, ReadOps
<1>4. ~Crash(p)
    BY DEF Crash, Alone
<1> QED
    BY <1>1, <1>2, <1>3, <1>4 DEF ClientStep

(* What writing a file does to the vault that it is.                       *)
LEMMA WrittenFile ==
    ASSUME NEW f \in Files, WholeFile(f), NEW c \in Calls
    PROVE  /\ Rewritten(f, c)[Default] = f[Default] \/ c.op \in ReadOps
           /\ c.op = "storeCredentials" =>
                /\ CredsIn(Rewritten(f, c)) = [CredsIn(f) EXCEPT ![c.machine] = c.value]
                /\ TokenIn(Rewritten(f, c)) = [TokenIn(f) EXCEPT ![c.machine] = None]
           /\ c.op = "storeToken" =>
                /\ CredsIn(Rewritten(f, c)) = [CredsIn(f) EXCEPT ![c.machine] = None]
                /\ TokenIn(Rewritten(f, c)) = [TokenIn(f) EXCEPT ![c.machine] = c.value]
           /\ c.op = "purge" =>
                /\ CredsIn(Rewritten(f, c)) = [CredsIn(f) EXCEPT ![c.machine] = None]
                /\ TokenIn(Rewritten(f, c)) = [TokenIn(f) EXCEPT ![c.machine] = None]
<1>1. c.machine \in Machines /\ c.machine # Default
      /\ c.op \in {"storeCredentials", "storeToken", "purge"} \cup ReadOps
    BY CallForms, StorageAssumption DEF StoreOps, Default
<1>2. CASE c.op = "storeCredentials"
    <2>1. c.value \in Accounts
        BY <1>2, CallForms
    <2>2. Rewritten(f, c) = [f EXCEPT ![c.machine] = Login(c.value)]
        BY <1>2 DEF Rewritten, WithEntry
    <2>3. /\ Login(c.value).login # OidcStorageMarker /\ Login(c.value) # None
          /\ Login(c.value).login = c.value
        BY <2>1, NetrcAssumption DEF Login, Entry
    <2> DEFINE g == [f EXCEPT ![c.machine] = Login(c.value)]
    <2>4. g[Default] = f[Default]
        BY <1>1 DEF Files
    <2>5. CredsIn(g) = [CredsIn(f) EXCEPT ![c.machine] = c.value]
        BY <1>1, <2>3 DEF CredsIn, Files
    <2>6. TokenIn(g) = [TokenIn(f) EXCEPT ![c.machine] = None]
        BY <1>1, <2>3 DEF TokenIn, Files
    <2> HIDE DEF g
    <2> QED
        BY <1>2, <2>2, <2>4, <2>5, <2>6 DEF g
<1>3. CASE c.op = "storeToken"
    <2>1. Rewritten(f, c) = [f EXCEPT ![c.machine] = Session(c.value)]
        BY <1>3 DEF Rewritten, WithEntry
    <2>2. /\ Session(c.value).login = OidcStorageMarker /\ Session(c.value) # None
          /\ Session(c.value).password = c.value
        BY <1>3, CallForms, NetrcAssumption DEF Session, Entry
    <2> DEFINE g == [f EXCEPT ![c.machine] = Session(c.value)]
    <2>3. g[Default] = f[Default]
        BY <1>1 DEF Files
    <2>4. CredsIn(g) = [CredsIn(f) EXCEPT ![c.machine] = None]
        BY <1>1, <2>2 DEF CredsIn, Files
    <2>5. TokenIn(g) = [TokenIn(f) EXCEPT ![c.machine] = c.value]
        BY <1>1, <2>2 DEF TokenIn, Files
    <2> HIDE DEF g
    <2> QED
        BY <1>3, <2>1, <2>3, <2>4, <2>5 DEF g
<1>4. CASE c.op = "purge"
    BY <1>1, <1>4 DEF Rewritten, CredsIn, TokenIn, Files
<1>5. CASE c.op \in ReadOps
    BY <1>5 DEF ReadOps
<1> QED
    BY <1>1, <1>2, <1>3, <1>4, <1>5

(* A call that reports an error and has changed nothing.                   *)
LEMMA VaultFails ==
    ASSUME Alone, AloneInv, AloneInv', NEW p \in Procs, UNCHANGED <<netrc, keyring>>,
           Finish(p, "error"), pc[p] \notin Midway \cup {"idle", "return"}
    PROVE  Vault!Next
<1>1. TypeInv /\ call[p] # None
    BY UnderWay, CallForms DEF AloneInv
<1>2. UNCHANGED <<VaultWritable, VaultFallback, VaultCreds, VaultToken>>
    BY <1>1, VaultStays DEF Finish, Goto, Midway, TypeInv
<1>3. VaultAnswer[p] = "pending" /\ VaultAnswer' = [VaultAnswer EXCEPT ![p] = "error"]
      /\ UNCHANGED call
    BY <1>1, VaultPending, AnswerChanges
<1> QED
    BY <1>1, <1>2, <1>3 DEF Vault!Next, Vault!Fail, Vault!Answer

LEMMA NetrcVaultStep ==
    ASSUME Alone, AloneInv, AloneInv', NEW p \in Procs, NetrcStep(p), UNCHANGED keyring
    PROVE  [Vault!Next]_Vault!vars
<1>0. TypeInv /\ Knows(p) /\ AtWork(p) /\ Procs = {p}
    BY DEF AloneInv, TypeInv, Alone
<1>1. backend = "file" /\ backend' = "file" /\ UNCHANGED <<call, mode, VaultWritable>>
    BY <1>0 DEF NetrcStep, NetrcReadCredentials, NetrcReadAuthnToken, NetrcParse, Reaches,
                NetrcOpenFails, NetrcTruncate, NetrcWrite, Finish, AtWork, VaultWritable
<1>2. FileVault(p) /\ FileVault(p)'
    BY <1>1, ViewsHold, ViewsAfter DEF Views
<1>3. VaultFallback = IF File[Default] = None THEN None ELSE File[Default].login
    BY <1>1 DEF VaultFallback
<1> DEFINE m == call[p].machine
           e == FindMachine(netrc, m)
<1>4. pc[p] # "idle" => m \in Machines /\ call[p] # None
    BY <1>0, UnderWay, CallForms
<1>5. \A a : Finish(p, a) => pc'[p] = "return"
    BY <1>0 DEF Finish, Goto, TypeInv
<1>6. CASE NetrcReadCredentials(p)
    <2>1. PICK a : /\ Finish(p, a)
                   /\ a = IF e = None THEN None
                          ELSE IF e.login = OidcStorageMarker THEN None
                          ELSE Pair(e.login, e.password)
        BY <1>6 DEF NetrcReadCredentials
    <2>2. pc[p] = "start" /\ call[p].op = "readCredentials" /\ UNCHANGED netrc
        BY <1>6 DEF NetrcReadCredentials, Reaches
    <2>3. UNCHANGED <<VaultWritable, VaultFallback, VaultCreds, VaultToken>>
        BY <1>1, <1>5, <2>1, <2>2, VaultStays DEF Midway
    <2>4. VaultAnswer[p] = "pending" /\ VaultAnswer' = [VaultAnswer EXCEPT ![p] = a]
        BY <1>0, <2>1, <2>2, VaultPending, AnswerChanges DEF Midway
    <2>5. File = netrc /\ WholeFile(netrc) /\ netrc \in Files /\ DefaultLogin(netrc)
        BY <1>1, <1>2, <2>2 DEF FileVault, AloneInv
    <2>6. a = IF VaultCreds[m] = None /\ VaultToken[m] = None
              THEN VaultFallback ELSE VaultCreds[m]
        <3>1. CASE netrc[m] = None
            <4>1. netrc[Default] # None =>
                    /\ netrc[Default].login # OidcStorageMarker
                    /\ Pair(netrc[Default].login, netrc[Default].password)
                         = netrc[Default].login
                BY <2>5, StorageAssumption DEF DefaultLogin, WholeFile, Pair
            <4> QED
                BY <1>2, <1>3, <1>4, <2>1, <2>2, <2>5, <3>1, <4>1
                   DEF FindMachine, FileVault, CredsIn, TokenIn
        <3>2. CASE netrc[m] # None /\ netrc[m].login = OidcStorageMarker
            <4>1. netrc[m].password # None /\ netrc[m].password \in Tokens
                BY <1>4, <2>2, <2>5, <3>2, StorageAssumption, NetrcAssumption DEF WholeFile
            <4> QED
                BY <1>2, <1>4, <2>1, <2>2, <2>5, <3>2, <4>1
                   DEF FindMachine, FileVault, CredsIn, TokenIn
        <3>3. CASE netrc[m] # None /\ netrc[m].login # OidcStorageMarker
            <4>1. netrc[m].login # None
                  /\ Pair(netrc[m].login, netrc[m].password) = netrc[m].login
                BY <1>4, <2>2, <2>5, <3>3, StorageAssumption DEF WholeFile, Pair
            <4> QED
                BY <1>2, <1>4, <2>1, <2>2, <2>5, <3>3, <4>1
                   DEF FindMachine, FileVault, CredsIn, TokenIn
        <3> QED
            BY <3>1, <3>2, <3>3
    <2> QED
        BY <1>1, <1>4, <2>2, <2>3, <2>4, <2>6
           DEF Vault!Next, Vault!ReadCredentials, Vault!Runs, Vault!Answer
<1>7. CASE NetrcReadAuthnToken(p)
    <2>1. PICK a : Finish(p, a) /\ a = IF e = None THEN None ELSE AsToken(e.password)
        BY <1>7 DEF NetrcReadAuthnToken
    <2>2. pc[p] = "start" /\ call[p].op = "readToken" /\ UNCHANGED netrc
        BY <1>7 DEF NetrcReadAuthnToken, Reaches
    <2>3. UNCHANGED <<VaultWritable, VaultFallback, VaultCreds, VaultToken>>
        BY <1>1, <1>5, <2>1, <2>2, VaultStays DEF Midway
    <2>4. VaultAnswer[p] = "pending" /\ VaultAnswer' = [VaultAnswer EXCEPT ![p] = a]
        BY <1>0, <2>1, <2>2, VaultPending, AnswerChanges DEF Midway
    <2>5. File = netrc /\ WholeFile(netrc) /\ netrc \in Files /\ DefaultLogin(netrc)
        BY <1>1, <1>2, <2>2 DEF FileVault, AloneInv
    <2>6. \A n \in Machines \cup {Default} :
             netrc[n] # None /\ netrc[n].login # OidcStorageMarker
                => netrc[n].password \notin Tokens
        BY <2>5, StorageAssumption DEF WholeFile
    <2>7. \A n \in Machines :
             netrc[n] # None /\ netrc[n].login = OidcStorageMarker
                => netrc[n].password \in Tokens
        BY <2>5, NetrcAssumption DEF WholeFile
    <2>8. a = VaultToken[m]
        BY <1>2, <1>4, <2>1, <2>2, <2>5, <2>6, <2>7
           DEF FindMachine, FileVault, TokenIn, AsToken, DefaultLogin
    <2> QED
        BY <1>1, <1>4, <2>2, <2>3, <2>4, <2>8
           DEF Vault!Next, Vault!ReadToken, Vault!Runs, Vault!Answer
<1>8. CASE NetrcParse(p) \/ NetrcTruncate(p)
    <2>1. UNCHANGED File
        BY <1>0, <1>8 DEF NetrcParse, NetrcTruncate, Reaches, Goto, File, Knows, TypeInv
    <2>2. UNCHANGED VaultAnswer
        BY <1>0, <1>8 DEF NetrcParse, NetrcTruncate, Reaches, Goto, VaultAnswer, TypeInv
    <2> QED
        BY <1>1, <1>2, <2>1, <2>2 DEF FileVault, VaultFallback, Vault!vars
<1>9. CASE NetrcOpenFails(p)
    BY <1>9, VaultFails DEF NetrcOpenFails, Midway
<1>10. CASE NetrcWrite(p)
    <2>1. pc[p] = "write" /\ netrc' = Rewritten(buf[p], call[p]) /\ Finish(p, "ok")
        BY <1>10 DEF NetrcWrite
    <2>2. call[p] \in Calls /\ call[p].op \in {"storeCredentials", "storeToken", "purge"}
        BY <1>0, <2>1, UnderWay DEF AtWork, StoreOps
    <2>3. File = buf[p] /\ File' = Rewritten(File, call[p])
          /\ File \in Files /\ WholeFile(File)
        BY <1>2, <1>5, <2>1 DEF FileVault
    <2>4. UNCHANGED VaultFallback
        BY <1>1, <2>2, <2>3, WrittenFile DEF ReadOps, VaultFallback
    <2>5. VaultAnswer[p] = "pending" /\ VaultAnswer' = [VaultAnswer EXCEPT ![p] = "ok"]
        BY <1>0, <2>1, VaultPending, AnswerChanges DEF Midway
    <2>6. call[p].op # "purge" => VaultWritable
        BY <1>0, <1>1, <2>1, <2>2 DEF Knows, StoreOps, VaultWritable
    <2>7. /\ VaultCreds = CredsIn(File) /\ VaultCreds' = CredsIn(Rewritten(File, call[p]))
          /\ VaultToken = TokenIn(File) /\ VaultToken' = TokenIn(Rewritten(File, call[p]))
        BY <1>2, <2>3 DEF FileVault
    <2>8. CASE call[p].op = "storeCredentials"
        BY <1>1, <1>4, <2>1, <2>2, <2>3, <2>4, <2>5, <2>6, <2>7, <2>8, WrittenFile
           DEF Vault!Next, Vault!StoreCredentials, Vault!Runs, Vault!Answer, Vault!With
    <2>9. CASE call[p].op = "storeToken"
        BY <1>1, <1>4, <2>1, <2>2, <2>3, <2>4, <2>5, <2>6, <2>7, <2>9, WrittenFile
           DEF Vault!Next, Vault!StoreToken, Vault!Runs, Vault!Answer, Vault!With
    <2>10. CASE call[p].op = "purge"
        BY <1>1, <1>4, <2>1, <2>2, <2>3, <2>4, <2>5, <2>7, <2>10, WrittenFile
           DEF Vault!Next, Vault!Purge, Vault!Runs, Vault!Answer, Vault!With
    <2> QED
        BY <2>2, <2>8, <2>9, <2>10
<1> QED
    BY <1>6, <1>7, <1>8, <1>9, <1>10 DEF NetrcStep

(* Setting an item changes its machine's part of the vault only.           *)
SetTo(k, m, key, v, k2) ==
    /\ k \in [Machines -> Items] /\ k2 \in [Machines -> Items] /\ m \in Machines
    /\ \A n \in Machines \ {m} : k2[n] = k[n]
    /\ \A i \in {"login", "password", "authn_token"} :
          k2[m][i] = IF i = key THEN v ELSE k[m][i]

LEMMA SetView ==
    ASSUME NEW k, NEW m, NEW key, NEW v, NEW k2, SetTo(k, m, key, v, k2)
    PROVE  /\ key # "authn_token" => TokenOf(k2) = TokenOf(k)
           /\ key = "authn_token" =>
                TokenOf(k2) = [TokenOf(k) EXCEPT ![m] = v] /\ CredsOf(k2) = CredsOf(k)
           /\ key = "login" =>
                CredsOf(k2) = [CredsOf(k) EXCEPT ![m] =
                                  IF k[m].password = v THEN v ELSE "torn"]
           /\ key = "password" =>
                CredsOf(k2) = [CredsOf(k) EXCEPT ![m] =
                                  IF k[m].login = v THEN v ELSE "torn"]
<1> USE DEF SetTo, CredsOf, TokenOf
<1>1. CASE key = "login"
    BY <1>1
<1>2. CASE key = "password"
    BY <1>2
<1>3. CASE key = "authn_token"
    BY <1>3
<1> QED
    BY <1>1, <1>2, <1>3

LEMMA Overwrite ==
    ASSUME NEW f, NEW m, NEW a, NEW b
    PROVE  [[f EXCEPT ![m] = a] EXCEPT ![m] = b] = [f EXCEPT ![m] = b]
OBVIOUS

LEMMA KeyringVaultStep ==
    ASSUME Alone, AloneInv, AloneInv', NEW p \in Procs, KeyringStep(p), UNCHANGED netrc
    PROVE  [Vault!Next]_Vault!vars
<1>0. TypeInv /\ Knows(p) /\ AtWork(p) /\ Procs = {p}
    BY DEF AloneInv, TypeInv, Alone
<1>1. backend = "keyring" /\ UNCHANGED <<backend, call, mode>>
    BY <1>0 DEF KeyringStep, KeyringSetLogin, KeyringSetPassword, KeyringStoreAuthnToken,
                KeyringSetFails, KeyringGetLogin, KeyringGetPassword, KeyringReadAuthnToken,
                KeyringGetFails, KeyringDeleteLogin, KeyringDeletePassword,
                KeyringDeleteToken, Continue, Reaches, Finish, AtWork, Knows
<1>2. KeyringVault(p) /\ KeyringVault(p)' /\ VaultFallback = None
      /\ UNCHANGED <<VaultWritable, VaultFallback>>
    BY <1>1, ViewsHold, ViewsAfter DEF Views, VaultFallback, VaultWritable
<1> DEFINE m == call[p].machine
           k == keyring[m]
<1>3. pc[p] # "idle" => call[p] # None /\ call[p] \in Calls /\ m \in Machines
    BY <1>0, UnderWay, CallForms
<1>4. keyring \in [Machines -> Items]
    BY <1>0 DEF TypeInv, TypeOK
<1>5. \A label : Goto(p, label) => pc'[p] = label
    BY <1>0 DEF Goto, TypeInv
<1>6. \A a : Finish(p, a) => pc'[p] = "return"
                             /\ VaultAnswer' = [VaultAnswer EXCEPT ![p] = a]
    BY <1>0, <1>5, AnswerChanges DEF Finish
<1>7. pc[p] \in {"start", "getPassword"} => VaultAnswer[p] = "pending"
    BY VaultPending DEF Midway
<1>8. pc[p] \in {"setPassword", "deletePassword", "deleteToken"} => VaultAnswer[p] = "ok"
    BY <1>0 DEF VaultAnswer
<1>9. \A label : /\ label \in {"setPassword", "deletePassword", "deleteToken"}
                 /\ Goto(p, label)
                 => VaultAnswer' = [VaultAnswer EXCEPT ![p] = "ok"]
    BY <1>0 DEF Goto, VaultAnswer, TypeInv, Alone
<1> DEFINE C == CredsOf(keyring)
           T == TokenOf(keyring)
<1>21. /\ VaultCreds = IF pc[p] \in {"deletePassword", "deleteToken"}
                       THEN [C EXCEPT ![m] = None]
                       ELSE IF pc[p] = "setPassword" THEN [C EXCEPT ![m] = call[p].value]
                       ELSE C
       /\ VaultToken = IF pc[p] \in {"deletePassword", "deleteToken"}
                       THEN [T EXCEPT ![m] = None] ELSE T
    BY <1>2 DEF KeyringVault
<1>22. /\ VaultCreds' = IF pc'[p] \in {"deletePassword", "deleteToken"}
                        THEN [CredsOf(keyring') EXCEPT ![m] = None]
                        ELSE IF pc'[p] = "setPassword"
                        THEN [CredsOf(keyring') EXCEPT ![m] = call[p].value]
                        ELSE CredsOf(keyring')
       /\ VaultToken' = IF pc'[p] \in {"deletePassword", "deleteToken"}
                        THEN [TokenOf(keyring') EXCEPT ![m] = None] ELSE TokenOf(keyring')
    BY <1>1, <1>2 DEF KeyringVault, CredsOf, TokenOf
<1>24. ASSUME NEW key \in {"login", "password", "authn_token"}, NEW v, pc[p] # "idle",
              keyring' = [keyring EXCEPT ![m][key] = v]
       PROVE  SetTo(keyring, m, key, v, keyring')
    <2>1. keyring' \in [Machines -> Items]
        BY DEF AloneInv, TypeInv, TypeOK
    <2> QED
        BY <1>3, <1>4, <1>24, <2>1 DEF SetTo, Items
<1>23. pc[p] # "idle" => C[m] = (IF k.login = k.password THEN k.login ELSE "torn")
                         /\ C = [C EXCEPT ![m] = C[m]]
    BY <1>3 DEF CredsOf
<1>25. ASSUME NEW v, pc[p] # "idle", keyring' = [keyring EXCEPT ![m]["login"] = v]
       PROVE  /\ CredsOf(keyring') = [C EXCEPT ![m] = IF k.password = v THEN v ELSE "torn"]
              /\ TokenOf(keyring') = T
    <2>1. SetTo(keyring, m, "login", v, keyring')
        BY <1>24, <1>25
    <2>2. CredsOf(keyring') =
             [CredsOf(keyring) EXCEPT ![m] = IF keyring[m].password = v THEN v ELSE "torn"]
        BY <2>1, SetView
    <2>3. TokenOf(keyring') = TokenOf(keyring)
        BY <2>1, SetView
    <2> QED
        BY <2>2, <2>3
<1>26. ASSUME NEW v, pc[p] # "idle", keyring' = [keyring EXCEPT ![m]["password"] = v]
       PROVE  /\ CredsOf(keyring') = [C EXCEPT ![m] = IF k.login = v THEN v ELSE "torn"]
              /\ TokenOf(keyring') = T
    <2>1. SetTo(keyring, m, "password", v, keyring')
        BY <1>24, <1>26
    <2>2. CredsOf(keyring') =
             [CredsOf(keyring) EXCEPT ![m] = IF keyring[m].login = v THEN v ELSE "torn"]
        BY <2>1, SetView
    <2>3. TokenOf(keyring') = TokenOf(keyring)
        BY <2>1, SetView
    <2> QED
        BY <2>2, <2>3
<1>27. ASSUME NEW v, pc[p] # "idle", keyring' = [keyring EXCEPT ![m]["authn_token"] = v]
       PROVE  /\ CredsOf(keyring') = C
              /\ TokenOf(keyring') = [T EXCEPT ![m] = v]
    <2>1. SetTo(keyring, m, "authn_token", v, keyring')
        BY <1>24, <1>27
    <2>2. CredsOf(keyring') =
             CredsOf(keyring)
        BY <2>1, SetView
    <2>3. TokenOf(keyring') = [TokenOf(keyring) EXCEPT ![m] = v]
        BY <2>1, SetView
    <2> QED
        BY <2>2, <2>3
<1> HIDE DEF C, T, k
<1>10. CASE KeyringSetLogin(p)
    <2>1. /\ pc[p] = "start" /\ call[p].op = "storeCredentials" /\ VaultWritable
          /\ pc'[p] = "setPassword" /\ VaultAnswer' = [VaultAnswer EXCEPT ![p] = "ok"]
          /\ keyring' = [keyring EXCEPT ![m]["login"] = call[p].value]
        BY <1>0, <1>1, <1>5, <1>9, <1>10
           DEF KeyringSetLogin, Reaches, Continue, Set, StoreOps, shouldStoreCredentials,
               VaultWritable, TypeInv, TypeOK
    <2>2. /\ VaultCreds' = [VaultCreds EXCEPT ![m] = call[p].value]
          /\ UNCHANGED VaultToken
        <3>1. /\ CredsOf(keyring') = [C EXCEPT ![m] = IF k.password = call[p].value
                                                 THEN call[p].value ELSE "torn"]
              /\ TokenOf(keyring') = T
            BY <1>25, <2>1
        <3> QED
            BY <1>21, <1>22, <2>1, <3>1, Overwrite
    <2> QED
        BY <1>1, <1>2, <1>3, <1>7, <2>1, <2>2
           DEF Vault!Next, Vault!StoreCredentials, Vault!Runs, Vault!Answer, Vault!With
<1>11. CASE KeyringSetPassword(p)
    <2>1. /\ pc[p] = "setPassword" /\ Finish(p, "ok") /\ k.login = call[p].value
          /\ keyring' = [keyring EXCEPT ![m]["password"] = call[p].value]
        BY <1>0, <1>11 DEF KeyringSetPassword, Set, Knows, Item, k
    <2>2. UNCHANGED <<VaultCreds, VaultToken>>
        <3>1. CredsOf(keyring') = [C EXCEPT ![m] = call[p].value] /\ TokenOf(keyring') = T
            BY <1>26, <2>1
        <3> QED
            BY <1>21, <1>22, <1>6, <2>1, <3>1, Overwrite
    <2>3. UNCHANGED VaultAnswer
        <3>1. VaultAnswer[p] = "ok" /\ VaultAnswer' = [VaultAnswer EXCEPT ![p] = "ok"]
            BY <1>6, <1>8, <2>1
        <3>2. VaultAnswer = [VaultAnswer EXCEPT ![p] = VaultAnswer[p]]
            BY DEF VaultAnswer
        <3> QED
            BY <3>1, <3>2
    <2> QED
        BY <1>1, <1>2, <2>2, <2>3 DEF Vault!vars
<1>12. CASE KeyringStoreAuthnToken(p)
    <2>1. /\ pc[p] = "start" /\ call[p].op = "storeToken" /\ VaultWritable /\ Finish(p, "ok")
          /\ keyring' = [keyring EXCEPT ![m]["authn_token"] = call[p].value]
        BY <1>0, <1>1, <1>12
           DEF KeyringStoreAuthnToken, Reaches, Set, StoreOps, shouldStoreCredentials,
               VaultWritable, TypeInv, TypeOK
    <2>2. /\ VaultToken' = [VaultToken EXCEPT ![m] = call[p].value]
          /\ UNCHANGED VaultCreds
        <3>1. CredsOf(keyring') = C /\ TokenOf(keyring') = [T EXCEPT ![m] = call[p].value]
            BY <1>27, <2>1
        <3> QED
            BY <1>6, <1>21, <1>22, <2>1, <3>1
    <2> QED
        BY <1>1, <1>2, <1>3, <1>6, <1>7, <2>1, <2>2
           DEF Vault!Next, Vault!StoreToken, Vault!Runs, Vault!Answer, Vault!With
<1>13. CASE KeyringSetFails(p)
    <2>1. Finish(p, "error") /\ UNCHANGED keyring /\ pc[p] \in {"start", "setPassword"}
        BY <1>13 DEF KeyringSetFails, Reaches
    <2>2. CASE pc[p] = "start"
        BY <2>1, <2>2, VaultFails DEF Midway
    <2>3. CASE pc[p] = "setPassword"
        <3>1. call[p].op = "storeCredentials" /\ k.login = call[p].value
            BY <1>0, <2>3 DEF AtWork, Knows, Item, k
        <3>2. /\ \E v \in {"torn", call[p].value} :
                    VaultCreds' = [VaultCreds EXCEPT ![m] = v]
              /\ UNCHANGED VaultToken
            <4>1. CredsOf(keyring') = C /\ TokenOf(keyring') = T
                BY <2>1 DEF C, T
            <4>2. VaultCreds' = [VaultCreds EXCEPT ![m] = C[m]]
                BY <1>6, <1>21, <1>22, <1>23, <2>1, <2>3, <4>1, Overwrite
            <4> QED
                BY <1>6, <1>21, <1>22, <1>23, <2>1, <2>3, <3>1, <4>1, <4>2
        <3> QED
            BY <1>1, <1>2, <1>3, <1>6, <1>8, <2>1, <2>3, <3>1, <3>2
               DEF Vault!Next, Vault!Fail, Vault!Answer, Vault!With, Vault!Torn
    <2> QED
        BY <2>1, <2>2, <2>3
<1>14. CASE KeyringGetLogin(p)
    <2>1. pc[p] = "start" /\ pc'[p] = "getPassword" /\ UNCHANGED <<keyring, answer>>
        BY <1>5, <1>14 DEF KeyringGetLogin, Reaches
    <2>2. UNCHANGED <<VaultCreds, VaultToken>>
        BY <1>1, <2>1, VaultStays DEF Midway
    <2>3. UNCHANGED VaultAnswer
        BY <1>0, <2>1 DEF VaultAnswer
    <2> QED
        BY <1>1, <1>2, <2>2, <2>3 DEF Vault!vars
<1>15. CASE KeyringGetPassword(p)
    <2>1. /\ pc[p] = "getPassword" /\ call[p].op = "readCredentials" /\ UNCHANGED keyring
          /\ Finish(p, Pair(k.login, k.password))
        BY <1>0, <1>15 DEF KeyringGetPassword, AtWork, Knows, Item, k
    <2>2. UNCHANGED <<VaultCreds, VaultToken>>
        BY <1>1, <1>6, <2>1, VaultStays DEF Midway
    <2>3. VaultCreds[m] = IF k.login = k.password THEN k.login ELSE "torn"
        BY <1>21, <1>23, <2>1
    <2>4. \/ Pair(k.login, k.password) = VaultCreds[m]
          \/ VaultCreds[m] = "torn" /\ Pair(k.login, k.password) = None
        BY <2>3 DEF Pair
    <2> QED
        BY <1>1, <1>2, <1>3, <1>6, <1>7, <2>1, <2>2, <2>4
           DEF Vault!Next, Vault!ReadCredentials, Vault!Runs, Vault!Answer, Vault!Torn
<1>16. CASE KeyringReadAuthnToken(p)
    <2>1. /\ pc[p] = "start" /\ call[p].op = "readToken" /\ UNCHANGED keyring
          /\ Finish(p, AsToken(k.authn_token))
        BY <1>16 DEF KeyringReadAuthnToken, Reaches, Item, k
    <2>2. UNCHANGED <<VaultCreds, VaultToken>>
        BY <1>1, <1>6, <2>1, VaultStays DEF Midway
    <2>3. VaultToken[m] = AsToken(k.authn_token)
        BY <1>3, <1>4, <1>21, <2>1 DEF T, k, TokenOf, AsToken, Items
    <2> QED
        BY <1>1, <1>2, <1>3, <1>6, <1>7, <2>1, <2>2, <2>3
           DEF Vault!Next, Vault!ReadToken, Vault!Runs, Vault!Answer
<1>17. CASE KeyringGetFails(p)
    <2>1. Finish(p, "error") /\ UNCHANGED keyring /\ pc[p] \in {"start", "getPassword"}
        BY <1>17 DEF KeyringGetFails, Reaches
    <2> QED
        BY <2>1, VaultFails DEF Midway
<1>18. CASE KeyringDeleteLogin(p)
    <2>1. /\ pc[p] = "start" /\ call[p].op = "purge" /\ pc'[p] = "deletePassword"
          /\ VaultAnswer' = [VaultAnswer EXCEPT ![p] = "ok"]
          /\ keyring' = [keyring EXCEPT ![m]["login"] = None]
        BY <1>5, <1>9, <1>18 DEF KeyringDeleteLogin, Reaches, Continue, Delete, Set, Alone
    <2>2. /\ VaultCreds' = [VaultCreds EXCEPT ![m] = None]
          /\ VaultToken' = [VaultToken EXCEPT ![m] = None]
        <3>1. /\ CredsOf(keyring') = [C EXCEPT ![m] = IF k.password = None THEN None ELSE "torn"]
              /\ TokenOf(keyring') = T
            BY <1>25, <2>1
        <3> QED
            BY <1>21, <1>22, <2>1, <3>1, Overwrite
    <2> QED
        BY <1>1, <1>2, <1>3, <1>7, <2>1, <2>2
           DEF Vault!Next, Vault!Purge, Vault!Runs, Vault!Answer, Vault!With
<1>19. CASE KeyringDeletePassword(p)
    <2>1. /\ pc[p] = "deletePassword" /\ pc'[p] = "deleteToken"
          /\ keyring' = [keyring EXCEPT ![m]["password"] = None] /\ UNCHANGED answer
        BY <1>5, <1>19 DEF KeyringDeletePassword, Continue, Delete, Set, Alone
    <2>2. UNCHANGED <<VaultCreds, VaultToken>>
        <3>1. /\ CredsOf(keyring') = [C EXCEPT ![m] = IF k.login = None THEN None ELSE "torn"]
              /\ TokenOf(keyring') = T
            BY <1>26, <2>1
        <3> QED
            BY <1>21, <1>22, <2>1, <3>1, Overwrite
    <2>3. UNCHANGED VaultAnswer
        BY <1>0, <2>1 DEF VaultAnswer
    <2> QED
        BY <1>1, <1>2, <2>2, <2>3 DEF Vault!vars
<1>20. CASE KeyringDeleteToken(p)
    <2>1. /\ pc[p] = "deleteToken" /\ Finish(p, "ok") /\ k.login = None /\ k.password = None
          /\ keyring' = [keyring EXCEPT ![m]["authn_token"] = None]
        BY <1>0, <1>20 DEF KeyringDeleteToken, Delete, Set, Knows, Item, Alone, k
    <2>2. UNCHANGED <<VaultCreds, VaultToken>>
        <3>1. CredsOf(keyring') = C /\ TokenOf(keyring') = [T EXCEPT ![m] = None]
            BY <1>27, <2>1
        <3>2. C = [C EXCEPT ![m] = None]
            BY <1>23, <2>1
        <3> QED
            BY <1>6, <1>21, <1>22, <2>1, <3>1, <3>2
    <2>3. UNCHANGED VaultAnswer
        BY <1>6, <1>8, <2>1 DEF VaultAnswer
    <2> QED
        BY <1>1, <1>2, <2>2, <2>3 DEF Vault!vars
<1> QED
    BY <1>10, <1>11, <1>12, <1>13, <1>14, <1>15, <1>16, <1>17, <1>18, <1>19, <1>20
       DEF KeyringStep

LEMMA VaultInit == Init /\ Alone => Vault!Init
<1> SUFFICES ASSUME Init, Alone PROVE Vault!Init
    OBVIOUS
<1>1. AloneInv
    BY AloneInit
<1>2. PICK p \in Procs : Procs = {p}
    BY DEF Alone
<1>3. pc[p] = "idle" /\ answer = [q \in Procs |-> "pending"] /\ call = [q \in Procs |-> None]
      /\ pc = [q \in Procs |-> "idle"]
    BY DEF Init, ClientInit
<1>4. VaultAnswer = [q \in Procs |-> "pending"] /\ VaultWritable \in BOOLEAN
    BY <1>3 DEF VaultAnswer, VaultWritable
<1>5. /\ VaultFallback \in Accounts \cup {None}
      /\ VaultCreds \in [Machines -> Accounts \cup {None}]
      /\ VaultToken \in [Machines -> Tokens \cup {None}]
    <2>1. CASE backend = "file"
        <3>1. FileVault(p) /\ File = netrc /\ DefaultLogin(netrc)
            BY <1>1, <1>2, <1>3, <2>1, ViewsHold DEF Views, FileVault, AloneInv
        <3>2. VaultFallback \in Accounts \cup {None}
            <4>1. VaultFallback = IF netrc[Default] = None THEN None ELSE netrc[Default].login
                BY <2>1, <3>1 DEF VaultFallback
            <4>2. WholeFile(netrc) /\ Default \in Machines \cup {Default}
                BY <3>1 DEF FileVault
            <4> QED
                BY <3>1, <4>1, <4>2 DEF WholeFile, DefaultLogin
        <3>3. netrc \in Files /\ WholeFile(netrc)
              /\ VaultCreds = CredsIn(netrc) /\ VaultToken = TokenIn(netrc)
            BY <3>1 DEF FileVault
        <3>4. CredsIn(netrc) \in [Machines -> Accounts \cup {None}]
            BY <3>3 DEF CredsIn, WholeFile
        <3>5. TokenIn(netrc) \in [Machines -> Tokens \cup {None}]
            BY <3>3, NetrcAssumption DEF TokenIn, WholeFile
        <3> QED
            BY <3>2, <3>3, <3>4, <3>5
    <2>2. CASE backend = "keyring"
        BY <1>1, <1>2, <1>3, <2>2, ViewsHold
           DEF Views, KeyringVault, CredsOf, TokenOf, Init, KeyringInit, Items, VaultFallback
    <2>3. CASE backend = "none"
        BY <1>1, <1>2, <2>3, ViewsHold DEF Views, VaultFallback
    <2> QED
        BY <1>1, <2>1, <2>2, <2>3 DEF AloneInv, TypeInv, TypeOK
<1> QED
    BY <1>3, <1>4, <1>5 DEF Vault!Init

LEMMA VaultStep == Alone /\ AloneInv /\ AloneInv' /\ [Next]_vars => [Vault!Next]_Vault!vars
<1> SUFFICES ASSUME Alone, AloneInv, AloneInv', [Next]_vars PROVE [Vault!Next]_Vault!vars
    OBVIOUS
<1>1. CASE UNCHANGED vars
    <2>1. UNCHANGED <<VaultWritable, VaultFallback, VaultAnswer, call>>
        BY <1>1 DEF vars, client, VaultWritable, VaultFallback, VaultAnswer, File
    <2>2. PICK p \in Procs : Procs = {p}
        BY DEF Alone
    <2>3. UNCHANGED <<VaultCreds, VaultToken>>
        <3>1. backend \in {"file", "keyring", "none"}
            BY DEF AloneInv, TypeInv, TypeOK
        <3> QED
            BY <1>1, <2>2, <3>1, ViewsHold, ViewsAfter
               DEF vars, client, Views, FileVault, KeyringVault
    <2> QED
        BY <2>1, <2>3 DEF Vault!vars
<1>2. CASE Next
    BY <1>2, ClientVaultStep, NetrcVaultStep, KeyringVaultStep DEF Next
<1> QED
    BY <1>1, <1>2

(* Used by one process at a time, either backend is the vault that the     *)
(* Client expects: for any number of machines, accounts and tokens, and    *)
(* whatever the requests that report errors do.                            *)
THEOREM ImplementsVault == Alone => (Spec => VaultSpec)
<1> SUFFICES ASSUME Alone PROVE Spec => VaultSpec
    OBVIOUS
<1>1. Init => AloneInv /\ Vault!Init
    BY AloneInit, VaultInit
<1>2. AloneInv /\ [Next]_vars => AloneInv'
    BY AloneStep
<1>3. AloneInv /\ AloneInv' /\ [Next]_vars => [Vault!Next]_Vault!vars
    BY VaultStep
<1> QED
    BY <1>1, <1>2, <1>3, PTL DEF Spec, VaultSpec, Vault!Spec
=============================================================================
