------------------------- MODULE CredentialStorage -------------------------
(***************************************************************************)
(* The credential storage as a whole: the client's calls over whichever    *)
(* backend createStorageProvider chose, used by one process, which is then *)
(* shown to implement CredentialVault, or by several.                      *)
(***************************************************************************)
EXTENDS NetrcStorage, KeyringStorage

vars == <<client, netrc, keyring>>

(* The backend that is not chosen is left empty.                           *)
Init ==
    /\ ClientInit
    /\ IF backend = "file" THEN NetrcInit ELSE netrc = EmptyFile
    /\ IF backend = "keyring" THEN KeyringInit ELSE keyring = EmptyKeyring

ClientStep(p) == StartCall(p) \/ Skip(p) \/ Return(p) \/ Crash(p)

Next ==
    \E p \in Procs :
        \/ ClientStep(p) /\ UNCHANGED <<netrc, keyring>>
        \/ NetrcStep(p) /\ UNCHANGED keyring
        \/ KeyringStep(p) /\ UNCHANGED netrc

Spec == Init /\ [][Next]_vars

-----------------------------------------------------------------------------
(* The vault that the storage stands for.  The file of a call that has     *)
(* truncated it still is the one the call has read; a call that needs      *)
(* several requests to the keyring takes effect with the first.            *)
File == IF \E p \in Procs : pc[p] = "write"
        THEN buf[CHOOSE p \in Procs : pc[p] = "write"] ELSE netrc

Halfway(m, labels) == {p \in Procs : pc[p] \in labels /\ call[p].machine = m}
Deleting(m) == Halfway(m, {"deletePassword", "deleteToken"})
Setting(m)  == Halfway(m, {"setPassword"})

NetrcCreds(m) ==
    IF File[m] = None \/ File[m].login = OidcStorageMarker THEN None
    ELSE Pair(File[m].login, File[m].password)

NetrcToken(m) ==
    IF File[m] # None /\ File[m].login = OidcStorageMarker THEN File[m].password ELSE None

KeyringCreds(m) ==
    IF Deleting(m) # {} THEN None
    ELSE IF Setting(m) # {} THEN call[CHOOSE p \in Setting(m) : TRUE].value
    ELSE IF keyring[m].login = keyring[m].password THEN keyring[m].login
    ELSE "torn"

KeyringToken(m) == IF Deleting(m) # {} THEN None ELSE keyring[m].authn_token

PerMachine(inFile(_), inKeyring(_)) ==
    [m \in Machines |-> CASE backend = "file"    -> inFile(m)
                          [] backend = "keyring" -> inKeyring(m)
                          [] backend = "none"    -> None]

VaultWritable == mode = "readwrite" /\ backend # "none"
VaultFallback == IF backend = "file" /\ File[Default] # None THEN File[Default].login ELSE None
VaultCreds    == PerMachine(NetrcCreds, KeyringCreds)
VaultToken    == PerMachine(NetrcToken, KeyringToken)
VaultAnswer   == [p \in Procs |->
                     IF pc[p] \in {"setPassword", "deletePassword", "deleteToken"}
                     THEN "ok" ELSE answer[p]]

Vault == INSTANCE CredentialVault WITH
    writable <- VaultWritable,
    fallback <- VaultFallback,
    creds    <- VaultCreds,
    token    <- VaultToken,
    answer   <- VaultAnswer

-----------------------------------------------------------------------------
(* Entries and items hold what a provider can have put there, and a      *)
(* process has a call exactly while it runs one.                         *)
TypeOK ==
    /\ backend \in {"file", "keyring", "none"}
    /\ mode \in {"readwrite", "readonly"}
    /\ call \in [Procs -> Calls \cup {None}]
    /\ \A p \in Procs : call[p] = None <=> pc[p] = "idle"
    /\ netrc \in [Machines \cup {Default} -> Entry \cup {None}]
    /\ keyring \in [Machines -> Items]

(* One process at a time: both backends do what the Client expects of a    *)
(* storage.  What a successful call stored is what the next one reads, a   *)
(* purged machine has neither a pair nor a token, other machines and the   *)
(* user's default entry keep what they have, a read-only client stores     *)
(* nothing, and a call that failed spoils at most its own machine's pair.  *)
VaultSpec == Vault!Spec

(* The login read from the .netrc file belongs to the API key read with    *)
(* it, although other processes log in meanwhile or die in the middle of   *)
(* a write.  (The two items of the keyring give no such guarantee.)        *)
WholePairs ==
    backend = "file" => \A p \in Procs : answer[p] # "torn"

(* An access token never comes back as an API key, nor an API key as an    *)
(* access token, although a .netrc entry holds the one or the other.       *)
KindsApart ==
    \A p \in Procs : pc[p] = "return" =>
        /\ call[p].op = "readCredentials" => answer[p] \notin Tokens
        /\ call[p].op = "readToken" => answer[p] \notin Accounts

(* README: with CredentialStorageModeReadOnly the API will "read cached    *)
(* credentials but suppress writes".                                       *)
ReadOnlyKept ==
    [][mode = "readonly" => UNCHANGED <<netrc, keyring>>]_vars
=============================================================================
