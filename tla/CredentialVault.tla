-------------------------- MODULE CredentialVault --------------------------
(***************************************************************************)
(* What a CredentialStorageProvider (conjurapi/client.go) promises to the  *)
(* Client, whichever backend implements it: per machine name one pair of   *)
(* login and API key and one access token, where storing one may evict the *)
(* other, storing and purging touch no other machine, and what a call that *)
(* reports success stored is what the next call reads.                     *)
(***************************************************************************)
CONSTANTS
    Procs,      \* who uses the storage
    Machines,   \* machine names: appliance URL, authenticator and service
    Accounts,   \* account a has a login and an API key; both are named a
    Tokens,     \* access tokens
    None        \* nothing stored, nothing found, no call

VARIABLES
    writable,   \* does the client store what it obtains?
    fallback,   \* the pair found for a machine that has nothing stored
    creds,      \* per machine, the account whose login and key are stored
    token,      \* per machine, the stored access token
    call,       \* the call each process has under way
    answer      \* what it will return

vars == <<writable, fallback, creds, token, call, answer>>

Torn  == "torn"     \* the login of one account with the key of another
Words == {"pending", "ok", "error", Torn}

Calls ==
    [op : {"storeCredentials"}, machine : Machines, value : Accounts]
    \cup [op : {"storeToken"}, machine : Machines, value : Tokens]
    \cup [op : {"readCredentials", "readToken", "purge"},
          machine : Machines, value : {None}]

Init ==
    /\ writable \in BOOLEAN
    /\ fallback \in Accounts \cup {None}
    /\ creds \in [Machines -> Accounts \cup {None}]
    /\ token \in [Machines -> Tokens \cup {None}]
    /\ call = [p \in Procs |-> None]
    /\ answer = [p \in Procs |-> "pending"]

Begin(p) ==
    /\ call[p] = None
    /\ \E c \in Calls : call' = [call EXCEPT ![p] = c]
    /\ UNCHANGED <<writable, fallback, creds, token, answer>>

Runs(p, op) == call[p] # None /\ call[p].op = op /\ answer[p] = "pending"

Answer(p, a) ==
    /\ answer' = [answer EXCEPT ![p] = a]
    /\ UNCHANGED <<writable, fallback, call>>

With(store, p, value) == [store EXCEPT ![call[p].machine] = value]

StoreCredentials(p) ==
    /\ Runs(p, "storeCredentials")
    /\ \/ ~writable /\ UNCHANGED <<creds, token>>
       \/ /\ writable
          /\ creds' = With(creds, p, call[p].value)
          /\ token' \in {token, With(token, p, None)}
    /\ Answer(p, "ok")

StoreToken(p) ==
    /\ Runs(p, "storeToken")
    /\ \/ ~writable /\ UNCHANGED <<creds, token>>
       \/ /\ writable
          /\ token' = With(token, p, call[p].value)
          /\ creds' \in {creds, With(creds, p, None)}
    /\ Answer(p, "ok")

(* The pair of a machine without one is the fallback; of a torn pair, the  *)
(* mixture may be found, or a half that is missing noticed.                *)
ReadCredentials(p) ==
    LET m == call[p].machine IN
    /\ Runs(p, "readCredentials")
    /\ \/ Answer(p, IF creds[m] = None /\ token[m] = None
                    THEN fallback ELSE creds[m])
       \/ creds[m] = Torn /\ Answer(p, None)
    /\ UNCHANGED <<creds, token>>

ReadToken(p) ==
    /\ Runs(p, "readToken")
    /\ Answer(p, token[call[p].machine])
    /\ UNCHANGED <<creds, token>>

Purge(p) ==
    /\ Runs(p, "purge")
    /\ creds' = With(creds, p, None)
    /\ token' = With(token, p, None)
    /\ Answer(p, "ok")

(* A call that reports an error has changed nothing, except that a failed  *)
(* StoreCredentials may leave the pair of its own machine torn.            *)
Fail(p) ==
    /\ call[p] # None
    /\ \/ answer[p] = "pending" /\ UNCHANGED creds
       \/ /\ call[p].op = "storeCredentials" /\ answer[p] = "ok"
          /\ \E v \in {Torn, call[p].value} : creds' = With(creds, p, v)
    /\ Answer(p, "error")
    /\ UNCHANGED token

Return(p) ==
    /\ answer[p] # "pending"
    /\ call' = [call EXCEPT ![p] = None]
    /\ answer' = [answer EXCEPT ![p] = "pending"]
    /\ UNCHANGED <<writable, fallback, creds, token>>

Next ==
    \E p \in Procs :
        \/ Begin(p) \/ StoreCredentials(p) \/ StoreToken(p)
        \/ ReadCredentials(p) \/ ReadToken(p) \/ Purge(p)
        \/ Fail(p) \/ Return(p)

Spec == Init /\ [][Next]_vars
=============================================================================
