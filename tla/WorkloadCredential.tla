-------------------------- MODULE WorkloadCredential --------------------------
(***************************************************************************)
(* Where the credential of a workload comes from, and what its client      *)
(* keeps of it: a JWT from a file or from the cloud's metadata service, a  *)
(* certificate and its key in two files, ambient credentials that are      *)
(* looked up again each time, or a credential given in the configuration   *)
(* (the authenticators of authn/, newMTLSClient, ReadClientCert).          *)
(*                                                                         *)
(* The issuer numbers the credentials.  The server accepts those from      *)
(* oldest to issued; a source need not have received the latest yet, and   *)
(* a file may be found half-written.                                       *)
(***************************************************************************)
EXTENDS Integers

CONSTANTS
    MaxIssued,  \* bound on the credentials issued
    None,       \* no credential
    Torn        \* a part of one

ASSUME CredentialAssumption ==
    /\ MaxIssued \in Nat
    /\ None \notin 0 .. MaxIssued /\ Torn \notin 0 .. MaxIssued /\ None # Torn

VARIABLES
    kind,       \* the kind of credential that the client is configured for
    issued,     \* the latest credential
    oldest,     \* the oldest one that the server accepts
    source,     \* what each file, or the metadata service, holds
    jwt,        \* the authenticator's field JWT
    connection, \* the certificate and key of the open TLS connection
    pem         \* for each caller in a handshake: the certificate it has read

credentialVars == <<kind, issued, oldest, source, jwt, connection, pem>>

Credentials == 0 .. MaxIssued
Readable == Credentials \cup {None, Torn}

Kinds == {"jwt file", "jwt content", "gcp", "azure", "cert files", "cert content", "iam"}
JwtKinds == {"jwt file", "jwt content", "gcp", "azure"}

Files(k) == CASE k = "jwt file"   -> {"jwt"}
              [] k = "cert files" -> {"cert", "key"}
              [] OTHER            -> {}

Places(k) == IF k \in {"gcp", "azure", "iam"} THEN {"service"} ELSE Files(k)

CredentialInit(k) ==
    /\ issued = 0 /\ oldest = 0
    /\ source = [p \in Places(k) |-> 0]
    /\ jwt = IF k = "jwt content" THEN 0 ELSE None
    /\ connection = None

-----------------------------------------------------------------------------
(* The issuer and those who distribute what it issues.                     *)
Whole == \A p \in DOMAIN source : source[p] = issued

Issue == /\ issued < MaxIssued /\ Whole
         /\ issued' = issued + 1
         /\ UNCHANGED <<kind, oldest, source, jwt, connection, pem>>

(* A place gets the latest credential: by a rename, or in two steps.       *)
Truncate(p) == /\ p \in Files(kind) /\ source[p] \notin {issued, Torn}
               /\ source' = [source EXCEPT ![p] = Torn]
               /\ UNCHANGED <<kind, issued, oldest, jwt, connection, pem>>

Distribute(p) == /\ source[p] # issued
                 /\ source' = [source EXCEPT ![p] = issued]
                 /\ UNCHANGED <<kind, issued, oldest, jwt, connection, pem>>

Retire == /\ oldest < issued
          /\ oldest' = issued
          /\ UNCHANGED <<kind, issued, source, jwt, connection, pem>>

Accepts(credential) == credential \in oldest .. issued

-----------------------------------------------------------------------------
(* The JWT authenticators.  A JWT is fetched unless one is kept, and kept  *)
(* unless it is empty.                                                     *)
MustFetch == kind \in JwtKinds /\ jwt = None

\* Reading a half-written file gives the empty string or a part.
Read(p) == IF source[p] = Torn THEN {None, Torn} ELSE {source[p]}

RefreshJWT == /\ MustFetch
              /\ \E p \in Places(kind) : jwt' \in Read(p)
              /\ UNCHANGED <<kind, issued, oldest, source, connection, pem>>

\* GCPAuthenticateToken ends the process when the metadata service is out
\* of reach; AzureAuthenticateToken returns an error.
ExitsWithoutService == kind = "gcp"

-----------------------------------------------------------------------------
(* The handshakes of authn-cert: with the files, the certificate is read,  *)
(* then the key, and the pair has to match.                                *)
Connected == kind # "cert files" \/ connection # None

\* Mutant of ReadCertFile: the files are not read again.
ReadsOnce(c) == /\ ~Connected /\ pem[c] = None
                /\ pem' = [pem EXCEPT ![c] = 0]
                /\ UNCHANGED <<kind, issued, oldest, source, jwt, connection>>

ReadCertFile(c) == /\ ~Connected /\ pem[c] = None
                   /\ pem' = [pem EXCEPT ![c] = source["cert"]]
                   /\ UNCHANGED <<kind, issued, oldest, source, jwt, connection>>

Matches(c) == pem[c] = source["key"] /\ pem[c] # Torn

ReadKeyFile(c) == /\ pem[c] # None /\ Matches(c)
                  /\ connection' = pem[c]
                  /\ pem' = [pem EXCEPT ![c] = None]
                  /\ UNCHANGED <<kind, issued, oldest, source, jwt>>

HandshakeFails(c) == /\ pem[c] # None /\ ~Matches(c)
                     /\ pem' = [pem EXCEPT ![c] = None]
                     /\ UNCHANGED <<kind, issued, oldest, source, jwt, connection>>

\* The server, or either side's idle timeout, ends the connection.
Disconnect == /\ connection # None
              /\ connection' = None
              /\ UNCHANGED <<kind, issued, oldest, source, jwt, pem>>

(* What the client presents to the authenticator's endpoint.               *)
Presented == CASE kind \in JwtKinds     -> jwt
               [] kind = "cert files"   -> connection
               [] kind = "cert content" -> 0
               [] OTHER                 -> source["service"]
=============================================================================
