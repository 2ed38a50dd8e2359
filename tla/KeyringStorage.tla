--------------------------- MODULE KeyringStorage ---------------------------
(***************************************************************************)
(* The backend over the system's keyring:                                  *)
(* conjurapi/storage/keyring_storage_provider.go.  A machine has three     *)
(* items of its own, and each Get, Set and Delete is a request of its own  *)
(* to the keyring, which may refuse it.                                    *)
(***************************************************************************)
EXTENDS StorageClient

VARIABLE keyring    \* per machine its login, password and authn_token

Items == [login : Accounts \cup {None}, password : Accounts \cup {None},
          authn_token : Tokens \cup {None}]

EmptyKeyring ==
    [m \in Machines |-> [login |-> None, password |-> None, authn_token |-> None]]

(* The keyring may hold items already.                                     *)
KeyringInit ==
    keyring \in [Machines -> {i \in Items : i.login = i.password}]

Item(p, key) == keyring[call[p].machine][key]

(* keyring.Set, and keyring.Delete when value is None.                     *)
Set(p, key, value) == keyring' = [keyring EXCEPT ![call[p].machine][key] = value]

Continue(p, label) == Goto(p, label) /\ UNCHANGED <<backend, mode, call, buf, answer>>

KeyringSetLogin(p) ==
    /\ Reaches(p, "keyring", {"storeCredentials"})
    /\ Set(p, "login", call[p].value)
    /\ Continue(p, "setPassword")

KeyringSetPassword(p) ==
    /\ pc[p] = "setPassword"
    /\ Set(p, "password", call[p].value)
    /\ Finish(p, "ok")

KeyringStoreAuthnToken(p) ==
    /\ Reaches(p, "keyring", {"storeToken"})
    /\ Set(p, "authn_token", call[p].value)
    /\ Finish(p, "ok")

(* ErrWritingCredentials                                                   *)
KeyringSetFails(p) ==
    /\ "set" \in Faults
    /\ Reaches(p, "keyring", StoreOps) \/ pc[p] = "setPassword"
    /\ Finish(p, "error")
    /\ UNCHANGED keyring

KeyringGetLogin(p) ==
    /\ Reaches(p, "keyring", {"readCredentials"})
    /\ buf' = [buf EXCEPT ![p] = Item(p, "login")]
    /\ Goto(p, "getPassword")
    /\ UNCHANGED <<backend, mode, call, answer, keyring>>

KeyringGetPassword(p) ==
    /\ pc[p] = "getPassword"
    /\ Finish(p, Pair(buf[p], Item(p, "password")))
    /\ UNCHANGED keyring

KeyringReadAuthnToken(p) ==
    /\ Reaches(p, "keyring", {"readToken"})
    /\ Finish(p, AsToken(Item(p, "authn_token")))
    /\ UNCHANGED keyring

(* ErrReadingCredentials                                                   *)
KeyringGetFails(p) ==
    /\ "get" \in Faults
    /\ Reaches(p, "keyring", ReadOps) \/ pc[p] = "getPassword"
    /\ Finish(p, "error")
    /\ UNCHANGED keyring

(* PurgeCredentials tries every key and swallows the errors.               *)
Delete(p, key) ==
    \/ Set(p, key, None)
    \/ "delete" \in Faults /\ UNCHANGED keyring

KeyringDeleteLogin(p) ==
    /\ Reaches(p, "keyring", {"purge"})
    /\ Delete(p, "login")
    /\ Continue(p, "deletePassword")

KeyringDeletePassword(p) ==
    /\ pc[p] = "deletePassword"
    /\ Delete(p, "password")
    /\ Continue(p, "deleteToken")

KeyringDeleteToken(p) ==
    /\ pc[p] = "deleteToken"
    /\ Delete(p, "authn_token")
    /\ Finish(p, "ok")

KeyringStep(p) ==
    \/ KeyringSetLogin(p) \/ KeyringSetPassword(p) \/ KeyringStoreAuthnToken(p)
    \/ KeyringSetFails(p)
    \/ KeyringGetLogin(p) \/ KeyringGetPassword(p) \/ KeyringReadAuthnToken(p)
    \/ KeyringGetFails(p)
    \/ KeyringDeleteLogin(p) \/ KeyringDeletePassword(p) \/ KeyringDeleteToken(p)
=============================================================================
