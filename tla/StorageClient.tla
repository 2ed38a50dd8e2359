--------------------------- MODULE StorageClient ---------------------------
(***************************************************************************)
(* The calls through which a conjurapi client uses its credential storage  *)
(* (conjurapi/authn.go, storage.go): Login and CloudHostLogin store a      *)
(* pair, authenticateWithTokenStorage stores a token, a client built from  *)
(* stored credentials reads a pair, readCachedAccessToken reads a token,   *)
(* and PurgeCredentials removes both.  The backends extend this module.    *)
(***************************************************************************)
CONSTANTS
    Procs,      \* processes that use the same storage
    Machines,   \* machine names (getMachineName, keyringServiceName)
    Accounts,   \* account a has a login and an API key; both are named a
    Tokens,     \* access tokens
    Faults,     \* the system calls that may fail: "open", "get", "set", "delete"
    Crashes,    \* may a process die in the middle of a call?
    None        \* an absent entry, an empty string, no call

ReadOps  == {"readCredentials", "readToken"}
StoreOps == {"storeCredentials", "storeToken"}

Calls ==
    [op : {"storeCredentials"}, machine : Machines, value : Accounts]
    \cup [op : {"storeToken"}, machine : Machines, value : Tokens]
    \cup [op : ReadOps \cup {"purge"}, machine : Machines, value : {None}]

ASSUME StorageAssumption ==
    /\ Faults \subseteq {"open", "get", "set", "delete"}
    /\ Crashes \in BOOLEAN
    /\ Accounts \cap Tokens = {}
    /\ None \notin Accounts \cup Tokens
    /\ None \notin Calls
    /\ {"pending", "ok", "error", "torn"} \cap (Accounts \cup Tokens \cup {None}) = {}
    /\ "default" \notin Machines

VARIABLES
    backend,    \* what createStorageProvider built: "file", "keyring", "none"
    mode,       \* config.CredentialStorageMode
    call,       \* the call each process has under way
    pc,         \* and where it stands
    buf,        \* what it has read so far
    answer      \* what it is about to return

client == <<backend, mode, call, pc, buf, answer>>

(* createStorageProvider: an explicit choice, or the keyring if the system *)
(* has one, or the file.  Without its keyring no client is built.          *)
Backends(wanted, keyringUp) ==
    CASE wanted = ""        -> IF keyringUp THEN {"keyring"} ELSE {"file"}
      [] wanted = "keyring" -> IF keyringUp THEN {"keyring"} ELSE {}
      [] OTHER              -> {wanted}

ClientInit ==
    /\ \E wanted \in {"", "file", "keyring", "none"}, keyringUp \in BOOLEAN :
          backend \in Backends(wanted, keyringUp)
    /\ mode \in {"readwrite", "readonly"}
    /\ call = [p \in Procs |-> None]
    /\ pc = [p \in Procs |-> "idle"]
    /\ buf = [p \in Procs |-> None]
    /\ answer = [p \in Procs |-> "pending"]

Goto(p, label) == pc' = [pc EXCEPT ![p] = label]

Finish(p, a) ==
    /\ Goto(p, "return")
    /\ buf' = [buf EXCEPT ![p] = None]
    /\ answer' = [answer EXCEPT ![p] = a]
    /\ UNCHANGED <<backend, mode, call>>

(* Bound of the model: two calls that rewrite the file do not overlap      *)
(* (what they would leave is a mixture of bytes).                          *)
NoOverlap(p) ==
    backend = "file" =>
        \A q \in Procs \ {p} : call[q] # None => call[q].op \in ReadOps

StartCall(p) ==
    /\ pc[p] = "idle"
    /\ \E c \in Calls :
          /\ c.op \notin ReadOps => NoOverlap(p)
          /\ call' = [call EXCEPT ![p] = c]
    /\ Goto(p, "start")
    /\ UNCHANGED <<backend, mode, buf, answer>>

shouldStoreCredentials == mode # "readonly"

(* The client leaves the storage alone: it has none, or may not write to   *)
(* it.  PurgeCredentials does not ask about the mode.                      *)
Skip(p) ==
    /\ pc[p] = "start"
    /\ \/ backend = "none"
       \/ call[p].op \in StoreOps /\ ~shouldStoreCredentials
    /\ Finish(p, IF call[p].op \in ReadOps THEN None ELSE "ok")

(* The call reaches the storage provider.                                  *)
Reaches(p, b, ops) ==
    /\ pc[p] = "start" /\ backend = b /\ call[p].op \in ops
    /\ call[p].op \in StoreOps => shouldStoreCredentials

Return(p) ==
    /\ pc[p] = "return"
    /\ Goto(p, "idle")
    /\ call' = [call EXCEPT ![p] = None]
    /\ answer' = [answer EXCEPT ![p] = "pending"]
    /\ UNCHANGED <<backend, mode, buf>>

(* The process dies, and another one starts.                               *)
Crash(p) ==
    /\ Crashes /\ pc[p] # "idle"
    /\ Goto(p, "idle")
    /\ call' = [call EXCEPT ![p] = None]
    /\ buf' = [buf EXCEPT ![p] = None]
    /\ answer' = [answer EXCEPT ![p] = "pending"]
    /\ UNCHANGED <<backend, mode>>

-----------------------------------------------------------------------------
(* What a client built from stored credentials makes of a login and a      *)
(* password: nothing unless both are there; an account when they belong    *)
(* together.                                                               *)
Pair(login, password) ==
    CASE None \in {login, password} -> None
      [] login = password           -> login
      [] OTHER                      -> "torn"

(* readCachedAccessToken: bytes that are no token count for nothing.       *)
AsToken(bytes) == IF bytes \in Tokens THEN bytes ELSE None
=============================================================================
