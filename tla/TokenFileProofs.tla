-------------------------- MODULE TokenFileProofs --------------------------
(***************************************************************************)
(* Proofs about TokenFile, for any number of goroutines that share the     *)
(* client, any number of modifications of the file and every writer.       *)
(***************************************************************************)
EXTENDS TokenFile, TLAPS

(* What a caller takes to the parser is what it has read, and a file left  *)
(* half-written can still be completed.                                    *)
BytesRead == \A c \in Callers : pc[c] \in {"stamp", "parse"} => buf[c] \in {Partial} \cup Tokens
RoomLeft  == file # None /\ file.content = Partial => writes < MaxWrites

TypeInv == TypeOK /\ BytesRead /\ RoomLeft

LEMMA TypeInit == Init => TypeInv
<1> SUFFICES ASSUME Init PROVE TypeInv
    OBVIOUS
<1>1. TypeOK
    <2>1. writes \in 0 .. MaxWrites
        BY TokenFileAssumption DEF Init
    <2>2. pc \in [Callers -> Labels]
        BY DEF Init, Labels
    <2>3. buf \in [Callers -> {None, Partial} \cup Tokens]
        BY DEF Init
    <2> QED
        BY <2>1, <2>2, <2>3 DEF Init, TypeOK
<1>2. BytesRead /\ RoomLeft
    BY DEF Init, BytesRead, RoomLeft
<1> QED
    BY <1>1, <1>2 DEF TypeInv

(* Each step keeps the types; the writer's first, then the clock's, then   *)
(* those of a call.                                                        *)
LEMMA TypeStep == TypeInv /\ [Next]_vars => TypeInv'
<1> SUFFICES ASSUME TypeInv, [Next]_vars PROVE TypeInv'
    OBVIOUS
<1> USE TokenFileAssumption DEF TypeInv, TypeOK, BytesRead, RoomLeft, Tokens, Partial
<1>1. CASE CreateOrReplace
    BY <1>1 DEF CreateOrReplace, Write, client
<1>2. CASE Truncate
    BY <1>2 DEF Truncate, Write, client
<1>3. CASE Fill
    BY <1>3 DEF Fill, Write, client
<1>4. CASE Remove
    BY <1>4 DEF Remove, client
<1>5. CASE GrowOld
    BY <1>5 DEF GrowOld, client
<1>6. ASSUME NEW c \in Callers, CallStep(c) \/ WaitTimesOut(c)
      PROVE  TypeInv'
    <2> USE DEF Goto, Labels
    <2>1. CASE StartCall(c)
        BY <2>1 DEF StartCall
    <2>2. CASE CheckToken(c)
        BY <2>2 DEF CheckToken
    <2>3. CASE StatFile(c)
        BY <2>3 DEF StatFile
    <2>4. CASE FileAppears(c)
        BY <2>4 DEF FileAppears
    <2>5. CASE ReadFile(c)
        BY <2>5 DEF ReadFile
    <2>6. CASE StampFile(c)
        BY <2>6 DEF StampFile
    <2>7. CASE ParseToken(c)
        BY <2>7 DEF ParseToken
    <2>8. CASE UseToken(c)
        BY <2>8 DEF UseToken
    <2>9. CASE WaitTimesOut(c)
        BY <2>9 DEF WaitTimesOut
    <2> QED
        BY <1>6, <2>1, <2>2, <2>3, <2>4, <2>5, <2>6, <2>7, <2>8, <2>9 DEF CallStep
<1>7. CASE UNCHANGED vars
    BY <1>7 DEF vars
<1> QED
    BY <1>1, <1>2, <1>3, <1>4, <1>5, <1>6, <1>7 DEF Next, Writer, KeepPolling, Crashed

(* The client's token always is nil or one that parses, although what it   *)
(* reads may be half-written or nothing at all (refreshToken, authn.go).   *)
THEOREM TypeCorrect == Spec => []TypeOK
<1>1. TypeInv => TypeOK
    BY DEF TypeInv
<1> QED
    BY TypeInit, TypeStep, <1>1, PTL DEF Spec

-----------------------------------------------------------------------------
(* Whoever is about to ask the file system for the file's time has seen    *)
(* the file, or shares a client whose token somebody has read from it; as  *)
(* long as nobody removes the file, it is still there.                     *)
Seen ==
    ~setup.removes =>
        /\ ~crashed
        /\ authToken # None => file # None
        /\ \A c \in Callers : pc[c] \in {"stat", "read", "stamp", "parse"} => file # None

LEMMA SeenInit == Init => Seen
BY DEF Init, Seen

LEMMA SeenStep == TypeInv /\ Seen /\ [Next]_vars => Seen'
<1> SUFFICES ASSUME TypeInv, Seen, [Next]_vars PROVE Seen'
    OBVIOUS
<1> USE TokenFileAssumption DEF Seen
<1>1. ASSUME NEW content \in Int, Write(content), TypeOK PROVE file' # None
    BY <1>1 DEF Write, TypeOK
<1>2. CASE CreateOrReplace \/ Truncate \/ Fill
    <2>1. file' # None
        BY <1>1, <1>2 DEF CreateOrReplace, Truncate, Fill, Partial, TypeInv, TypeOK
    <2> QED
        BY <1>2, <2>1 DEF CreateOrReplace, Truncate, Fill, client
<1>3. CASE Remove
    BY <1>3 DEF Remove, client
<1>4. CASE GrowOld
    BY <1>4 DEF GrowOld, client
<1>5. ASSUME NEW c \in Callers, CallStep(c) \/ WaitTimesOut(c)
      PROVE  Seen'
    <2> USE DEF Goto, TypeInv, TypeOK
    <2>1. CASE StartCall(c) \/ FileAppears(c) \/ UseToken(c) \/ WaitTimesOut(c)
        BY <2>1 DEF StartCall, FileAppears, UseToken, WaitTimesOut
    <2>2. CASE CheckToken(c)
        BY <2>2 DEF CheckToken
    <2>3. CASE StatFile(c)
        BY <2>3 DEF StatFile
    <2>4. CASE ReadFile(c)
        BY <2>4 DEF ReadFile
    <2>5. CASE StampFile(c)
        BY <2>5 DEF StampFile
    <2>6. CASE ParseToken(c)
        BY <2>6 DEF ParseToken
    <2> QED
        BY <1>5, <2>1, <2>2, <2>3, <2>4, <2>5, <2>6 DEF CallStep
<1>6. CASE UNCHANGED vars
    BY <1>6 DEF vars
<1> QED
    BY <1>2, <1>3, <1>4, <1>5, <1>6 DEF Next, Writer, KeepPolling, Crashed

(* NeedsTokenRefresh and RefreshToken take ModTime of what Stat returned   *)
(* without looking at its error: no panic unless the file can go away.     *)
THEOREM NeverPanics == Spec => []NoPanic
<1>1. Seen => NoPanic
    BY DEF Seen, NoPanic
<1> QED
    BY TypeInit, TypeStep, SeenInit, SeenStep, <1>1, PTL DEF Spec

-----------------------------------------------------------------------------
(* The file's time is its latest modification, and complete contents are   *)
(* numbered by it.                                                         *)
FileDated ==
    file # None => file.mtime = writes /\ file.content \in {Partial, writes}

(* From the read of the file on, what a caller carries is no newer than    *)
(* the file; from the stamp on, no newer than mTime, which only grows; and *)
(* so is the token, whichever caller parsed it and whoever stamped last.   *)
Dated ==
    /\ mTime # None => mTime <= writes
    /\ authToken # None => mTime # None /\ authToken <= mTime
    /\ \A c \in Callers : pc[c] = "stamp" => buf[c] <= writes
    /\ \A c \in Callers : pc[c] = "parse" => mTime # None /\ buf[c] <= mTime

DatedInv == FileDated /\ Dated

LEMMA DatedInit == Init => DatedInv
BY DEF Init, DatedInv, FileDated, Dated

LEMMA DatedStep == TypeInv /\ DatedInv /\ [Next]_vars => DatedInv'
<1> SUFFICES ASSUME TypeInv, DatedInv, [Next]_vars PROVE DatedInv'
    OBVIOUS
<1> USE TokenFileAssumption DEF DatedInv, FileDated, Dated, TypeInv, TypeOK, BytesRead,
        Tokens, Partial
<1>1. CASE CreateOrReplace
    BY <1>1 DEF CreateOrReplace, Write, client
<1>2. CASE Truncate
    BY <1>2 DEF Truncate, Write, client
<1>3. CASE Fill
    BY <1>3 DEF Fill, Write, client
<1>4. CASE Remove
    BY <1>4 DEF Remove, client
<1>5. CASE GrowOld
    BY <1>5 DEF GrowOld, client
<1>6. ASSUME NEW c \in Callers, CallStep(c) \/ WaitTimesOut(c)
      PROVE  DatedInv'
    <2> USE DEF Goto
    <2>1. CASE StartCall(c) \/ FileAppears(c) \/ UseToken(c) \/ WaitTimesOut(c)
        BY <2>1 DEF StartCall, FileAppears, UseToken, WaitTimesOut
    <2>2. CASE CheckToken(c)
        BY <2>2 DEF CheckToken
    <2>3. CASE StatFile(c)
        BY <2>3 DEF StatFile
    <2>4. CASE ReadFile(c)
        BY <2>4 DEF ReadFile
    <2>5. CASE StampFile(c)
        BY <2>5 DEF StampFile
    <2>6. CASE ParseToken(c)
        BY <2>6 DEF ParseToken
    <2> QED
        BY <1>6, <2>1, <2>2, <2>3, <2>4, <2>5, <2>6 DEF CallStep
<1>7. CASE UNCHANGED vars
    BY <1>7 DEF vars
<1> QED
    BY <1>1, <1>2, <1>3, <1>4, <1>5, <1>6, <1>7 DEF Next, Writer, KeepPolling, Crashed

(* TokenFileAuthenticator dates what it read by a second Stat, after the   *)
(* read: mTime may be newer than the token, but it is never older, for any *)
(* number of goroutines and any writer.                                    *)
THEOREM KnownFileUnmodified == Spec => []KnownUnmodified
<1>1. TypeInv /\ DatedInv => KnownUnmodified
    BY TokenFileAssumption
       DEF TypeInv, TypeOK, DatedInv, FileDated, Dated, KnownUnmodified, Tokens, Partial
<1> QED
    BY TypeInit, TypeStep, DatedInit, DatedStep, <1>1, PTL DEF Spec
=============================================================================
