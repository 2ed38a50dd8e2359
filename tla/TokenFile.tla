----------------------------- MODULE TokenFile -----------------------------
(***************************************************************************)
(* A Client whose access token comes from a file that another process, for *)
(* example an authenticator sidecar, creates and rewrites: conjurapi/      *)
(* authn/token_file_authenticator.go and wait_for_file.go under            *)
(* createAuthRequest of conjurapi/authn.go.                                *)
(*                                                                         *)
(* Every access to the file is a step of its own: the writer may act       *)
(* between the read of the file and the Stat that dates it.                *)
(***************************************************************************)
EXTENDS Integers

CONSTANTS
    Callers,    \* goroutines that share the Client
    MaxWrites,  \* how often the file changes (bound of the model)
    Deployments,\* the ways the writer and the client may be set up
    None        \* no file, no token, nothing read yet

ASSUME TokenFileAssumption ==
    /\ MaxWrites \in Nat
    /\ Deployments \subseteq [inPlace : BOOLEAN, removes : BOOLEAN, bounded : BOOLEAN]
    /\ None \notin Int \cup [content : Int, mtime : Int]

(* inPlace: the writer truncates and rewrites the file, otherwise it       *)
(* renames a complete one into place; removes: it may remove the file;     *)
(* bounded: MaxWaitTime is set (NewClientFromTokenFile leaves it -1).      *)
VARIABLES
    setup,      \* one of Deployments, for the whole behaviour
    file,       \* None, or its content and its modification time
    writes,     \* how often the file has been modified
    authToken,  \* Client.authToken
    mTime,      \* TokenFileAuthenticator.mTime
    due,        \* the tokens that have grown old enough to be refreshed
    lastRead,   \* what the latest ReadFile returned
    pc,         \* where each caller stands
    buf,        \* the bytes each caller has read
    crashed     \* a nil dereference ended the process

vars == <<setup, file, writes, authToken, mTime, due, lastRead, pc, buf, crashed>>
client == <<setup, authToken, mTime, lastRead, pc, buf, crashed>>

(* The file's contents are numbered by the modification that left them;    *)
(* 0 stands for bytes that do not parse: a truncated or half-written file, *)
(* or none at all because ReadFile failed.                                 *)
Partial == 0
Tokens  == 1 .. MaxWrites
Labels  == {"idle", "check", "stat", "wait", "read", "stamp", "parse", "use"}

Goto(c, label) == pc' = [pc EXCEPT ![c] = label]

Init ==
    /\ setup \in Deployments
    /\ file = None /\ writes = 0
    /\ authToken = None /\ mTime = None
    /\ due = {} /\ lastRead = None
    /\ pc = [c \in Callers |-> "idle"]
    /\ buf = [c \in Callers |-> None]
    /\ crashed = FALSE

-----------------------------------------------------------------------------
(* The other process.                                                      *)
Write(content) ==
    /\ writes' = writes + 1
    /\ file' = [content |-> content, mtime |-> writes']

CreateOrReplace ==
    /\ ~setup.inPlace \/ file = None
    /\ writes < MaxWrites
    /\ Write(writes + 1)
    /\ UNCHANGED <<client, due>>

(* Room is left for the write that completes the file.                     *)
Truncate ==
    /\ setup.inPlace /\ file # None /\ file.content # Partial
    /\ writes + 1 < MaxWrites
    /\ Write(Partial)
    /\ UNCHANGED <<client, due>>

Fill ==
    /\ file # None /\ file.content = Partial
    /\ Write(writes + 1)
    /\ UNCHANGED <<client, due>>

Remove ==
    /\ setup.removes /\ file # None
    /\ file' = None
    /\ UNCHANGED <<writes, client, due>>

(* AuthnToken.ShouldRefresh becomes true as time passes.                   *)
GrowOld ==
    /\ \E t \in Tokens \ due : due' = due \cup {t}
    /\ UNCHANGED <<setup, file, writes, client>>

-----------------------------------------------------------------------------
(* createAuthRequest calls RefreshToken.                                   *)
StartCall(c) ==
    /\ ~crashed /\ pc[c] = "idle"
    /\ Goto(c, "check")
    /\ UNCHANGED <<setup, file, writes, authToken, mTime, due, lastRead, buf, crashed>>

\* Mutant of CheckToken: the authenticator is asked before the token is.
CheckFileFirst(c) ==
    /\ ~crashed /\ pc[c] = "check"
    /\ Goto(c, "stat")
    /\ UNCHANGED <<setup, file, writes, authToken, mTime, due, lastRead, buf, crashed>>

\* Mutant of CheckToken: only a missing token is looked up again.
CheckNeverDue(c) ==
    /\ ~crashed /\ pc[c] = "check"
    /\ Goto(c, IF authToken = None THEN "wait" ELSE "stat")
    /\ UNCHANGED <<setup, file, writes, authToken, mTime, due, lastRead, buf, crashed>>

(* Client.NeedsTokenRefresh asks the authenticator only about a token that *)
(* is there and not due.                                                   *)
CheckToken(c) ==
    /\ ~crashed /\ pc[c] = "check"
    /\ Goto(c, IF authToken \in due \cup {None} THEN "wait" ELSE "stat")
    /\ UNCHANGED <<setup, file, writes, authToken, mTime, due, lastRead, buf, crashed>>

(* TokenFileAuthenticator.NeedsTokenRefresh; Stat on a file that is gone   *)
(* returns a nil FileInfo, and ModTime panics.                             *)
StatFile(c) ==
    /\ ~crashed /\ pc[c] = "stat"
    /\ \/ /\ file = None
          /\ crashed' = TRUE
          /\ UNCHANGED pc
       \/ /\ file # None
          /\ Goto(c, IF mTime = file.mtime THEN "use" ELSE "wait")
          /\ UNCHANGED crashed
    /\ UNCHANGED <<setup, file, writes, authToken, mTime, due, lastRead, buf>>

(* waitForTextFile polls until the file exists, or the timeout strikes:    *)
(* the timeout wins when both are ready.                                   *)
FileAppears(c) ==
    /\ ~crashed /\ pc[c] = "wait"
    /\ file # None
    /\ Goto(c, "read")
    /\ UNCHANGED <<setup, file, writes, authToken, mTime, due, lastRead, buf, crashed>>

(* Without a timeout this may go on for ever.                              *)
KeepPolling(c) ==
    /\ ~crashed /\ pc[c] = "wait"
    /\ file = None
    /\ UNCHANGED vars

\* Mutant of WaitTimesOut: the timeout channel is never created.
NoTimeout(c) == FALSE

WaitTimesOut(c) ==
    /\ ~crashed /\ pc[c] = "wait" /\ setup.bounded
    /\ Goto(c, "idle")
    /\ UNCHANGED <<setup, file, writes, authToken, mTime, due, lastRead, buf, crashed>>

(* An error of ReadFile is assigned to a shadowed variable and lost: the   *)
(* caller goes on with no bytes.                                           *)
ReadFile(c) ==
    /\ ~crashed /\ pc[c] = "read"
    /\ lastRead' = IF file = None THEN Partial ELSE file.content
    /\ buf' = [buf EXCEPT ![c] = lastRead']
    /\ Goto(c, "stamp")
    /\ UNCHANGED <<setup, file, writes, authToken, mTime, due, crashed>>

\* Mutant of StampFile: only the first file that is read is dated.
StampOnce(c) ==
    /\ ~crashed /\ pc[c] = "stamp"
    /\ \/ /\ file = None
          /\ crashed' = TRUE
          /\ UNCHANGED <<mTime, pc>>
       \/ /\ file # None
          /\ mTime' = IF mTime = None THEN file.mtime ELSE mTime
          /\ Goto(c, "parse")
          /\ UNCHANGED crashed
    /\ UNCHANGED <<setup, file, writes, authToken, due, lastRead, buf>>

(* RefreshToken dates what was read with a second Stat.                    *)
StampFile(c) ==
    /\ ~crashed /\ pc[c] = "stamp"
    /\ \/ /\ file = None
          /\ crashed' = TRUE
          /\ UNCHANGED <<mTime, pc>>
       \/ /\ file # None
          /\ mTime' = file.mtime
          /\ Goto(c, "parse")
          /\ UNCHANGED crashed
    /\ UNCHANGED <<setup, file, writes, authToken, due, lastRead, buf>>

\* Mutant of ParseToken: whatever was read becomes the token.
ParseAnything(c) ==
    /\ ~crashed /\ pc[c] = "parse"
    /\ authToken' = buf[c]
    /\ Goto(c, "use")
    /\ buf' = [buf EXCEPT ![c] = None]
    /\ UNCHANGED <<setup, file, writes, mTime, due, lastRead, crashed>>

(* Client.refreshToken parses the bytes; the old token survives an error.  *)
ParseToken(c) ==
    /\ ~crashed /\ pc[c] = "parse"
    /\ \/ /\ buf[c] # Partial
          /\ authToken' = buf[c]
          /\ Goto(c, "use")
       \/ /\ buf[c] = Partial
          /\ Goto(c, "idle")
          /\ UNCHANGED authToken
    /\ buf' = [buf EXCEPT ![c] = None]
    /\ UNCHANGED <<setup, file, writes, mTime, due, lastRead, crashed>>

UseToken(c) ==
    /\ ~crashed /\ pc[c] = "use"
    /\ Goto(c, "idle")
    /\ UNCHANGED <<setup, file, writes, authToken, mTime, due, lastRead, buf, crashed>>

Crashed == crashed /\ UNCHANGED vars

Writer == CreateOrReplace \/ Truncate \/ Fill \/ Remove

CallStep(c) ==
    \/ StartCall(c) \/ CheckToken(c) \/ StatFile(c) \/ FileAppears(c)
    \/ ReadFile(c) \/ StampFile(c) \/ ParseToken(c) \/ UseToken(c)

Next ==
    \/ Writer
    \/ GrowOld
    \/ \E c \in Callers : CallStep(c) \/ KeepPolling(c) \/ WaitTimesOut(c)
    \/ Crashed

Spec == Init /\ [][Next]_vars

(* The application keeps making calls and their steps are scheduled; time  *)
(* passes; the writer completes a write it began.  Nothing obliges it to   *)
(* create the file.                                                        *)
FairSpec ==
    /\ Spec
    /\ \A c \in Callers : WF_vars(CallStep(c)) /\ WF_vars(WaitTimesOut(c))
    /\ WF_vars(GrowOld)
    /\ WF_vars(Fill)

-----------------------------------------------------------------------------
(* Types; in particular c.authToken is nil or a token that parses.       *)
TypeOK ==
    /\ setup \in Deployments
    /\ writes \in 0 .. MaxWrites
    /\ file \in {None} \cup [content : {Partial} \cup Tokens, mtime : 1 .. MaxWrites]
    /\ authToken \in Tokens \cup {None}
    /\ mTime \in 1 .. MaxWrites \cup {None}
    /\ due \subseteq Tokens
    /\ lastRead \in {None, Partial} \cup Tokens
    /\ pc \in [Callers -> Labels]
    /\ buf \in [Callers -> {None, Partial} \cup Tokens]
    /\ crashed \in BOOLEAN

(* A client does not panic unless the writer removes the file, however     *)
(* many goroutines wait for the file to appear.                            *)
NoPanic == ~setup.removes => ~crashed

(* NeedsTokenRefresh "checks if the token file has been modified since the *)
(* last read": when it answers no, the file still is what was last read.   *)
UnmodifiedSinceRead ==
    file # None /\ mTime = file.mtime /\ (\A c \in Callers : pc[c] = "idle")
        => file.content = lastRead

(* The token is never newer than mTime, whichever goroutine stored each:   *)
(* when the file holds the very token the client has, NeedsTokenRefresh    *)
(* finds it unmodified and does not send the callers back to it.           *)
KnownUnmodified ==
    file # None /\ authToken = file.content => mTime = file.mtime

(* Once the writer has stopped, the client ends up with the token in the   *)
(* file, whatever it read, and in whatever order, while the file changed.  *)
(* (A bounded wait may time out again and again.)                          *)
EventuallyCurrent ==
    \A t \in Tokens :
        <>[](file # None /\ file.content = t /\ ~setup.bounded /\ ~crashed)
            => <>[](authToken = t)

(* With MaxWaitTime set, every call returns (or a nil dereference ends the *)
(* process), even when the file never appears or is gone for good.         *)
CallsReturn ==
    \A c \in Callers : setup.bounded /\ pc[c] # "idle" ~> crashed \/ pc[c] = "idle"
=============================================================================
