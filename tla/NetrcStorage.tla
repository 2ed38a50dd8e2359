---------------------------- MODULE NetrcStorage ----------------------------
(***************************************************************************)
(* The .netrc backend: conjurapi/storage/netrc_storage_provider.go.        *)
(*                                                                         *)
(* The whole file is parsed, changed in memory, truncated and written.  A  *)
(* machine has one entry, so that a pair and a token evict each other; a   *)
(* token is stored under the login "[oidc]".  The "default" entry, which   *)
(* the user may have in the file, answers for the machines without one.    *)
(***************************************************************************)
EXTENDS StorageClient

VARIABLE netrc      \* the file: an entry, or None, per machine and default

OidcStorageMarker == "[oidc]"
Default == "default"

Entry == [login : Accounts \cup {OidcStorageMarker}, password : Accounts \cup Tokens]

ASSUME NetrcAssumption == OidcStorageMarker \notin Accounts /\ None \notin Entry

Login(account) == [login |-> account, password |-> account]

\* Mutant of Session: a token needs no login.
NoLogin(t) == [login |-> None, password |-> t]

Session(t) == [login |-> OidcStorageMarker, password |-> t]

EmptyFile == [m \in Machines \cup {Default} |-> None]

(* The file may hold entries already, a default entry among them.          *)
NetrcInit ==
    \E entries \in [Machines -> {None} \cup {Login(a) : a \in Accounts}
                                       \cup {Session(t) : t \in Tokens}],
      default \in {None} \cup {Login(a) : a \in Accounts} :
        netrc = [m \in Machines \cup {Default} |->
                    IF m = Default THEN default ELSE entries[m]]

(* go-netrc: the entry of the machine, or else the default entry.          *)
FindMachine(file, m) == IF file[m] # None THEN file[m] ELSE file[Default]

\* Mutant of WithEntry: the entry that FindMachine returns is updated,
\* be it the default entry.
UpdatesDefault(file, m, entry) ==
    [file EXCEPT ![IF file[m] = None /\ file[Default] # None THEN Default ELSE m] = entry]

\* Mutant of WithEntry: an entry keeps its password when the login changes.
UpdatesLogin(file, m, entry) ==
    [file EXCEPT ![m] = IF @ = None THEN entry ELSE [@ EXCEPT !.login = entry.login]]

(* StoreCredentials updates the machine's own entry, or adds one.          *)
WithEntry(file, m, entry) == [file EXCEPT ![m] = entry]

(* The file that the call writes.                                          *)
Rewritten(file, c) ==
    CASE c.op = "storeCredentials" -> WithEntry(file, c.machine, Login(c.value))
      [] c.op = "storeToken"       -> WithEntry(file, c.machine, Session(c.value))
      [] c.op = "purge"            -> [file EXCEPT ![c.machine] = None]

\* Mutant of NetrcReadCredentials: the login "[oidc]" is taken for a login.
ReadsAnyLogin(p) ==
    LET e == FindMachine(netrc, call[p].machine) IN
    /\ Reaches(p, "file", {"readCredentials"})
    /\ Finish(p, IF e = None THEN None ELSE e.password)
    /\ UNCHANGED netrc

NetrcReadCredentials(p) ==
    LET e == FindMachine(netrc, call[p].machine) IN
    /\ Reaches(p, "file", {"readCredentials"})
    /\ Finish(p, IF e = None THEN None
                 ELSE IF e.login = OidcStorageMarker THEN None
                 ELSE Pair(e.login, e.password))
    /\ UNCHANGED netrc

NetrcReadAuthnToken(p) ==
    LET e == FindMachine(netrc, call[p].machine) IN
    /\ Reaches(p, "file", {"readToken"})
    /\ Finish(p, IF e = None THEN None ELSE AsToken(e.password))
    /\ UNCHANGED netrc

NetrcParse(p) ==
    /\ Reaches(p, "file", StoreOps \cup {"purge"})
    /\ buf' = [buf EXCEPT ![p] = netrc]
    /\ Goto(p, "open")
    /\ UNCHANGED <<backend, mode, call, answer, netrc>>

NetrcOpenFails(p) ==
    /\ pc[p] = "open" /\ "open" \in Faults
    /\ Finish(p, "error")
    /\ UNCHANGED netrc

(* os.WriteFile opens the file with O_TRUNC, and then writes.              *)
NetrcTruncate(p) ==
    /\ pc[p] = "open"
    /\ netrc' = EmptyFile
    /\ Goto(p, "write")
    /\ UNCHANGED <<backend, mode, call, buf, answer>>

NetrcWrite(p) ==
    /\ pc[p] = "write"
    /\ netrc' = Rewritten(buf[p], call[p])
    /\ Finish(p, "ok")

NetrcStep(p) ==
    \/ NetrcReadCredentials(p) \/ NetrcReadAuthnToken(p)
    \/ NetrcParse(p) \/ NetrcOpenFails(p) \/ NetrcTruncate(p) \/ NetrcWrite(p)
=============================================================================
