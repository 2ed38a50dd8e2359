---------------------------- MODULE AccessToken ----------------------------
(***************************************************************************)
(* The Conjur access token as the client sees it: conjurapi/authn/         *)
(* auth_token.go.  A token travels as bytes (a Body); NewToken accepts or  *)
(* rejects the bytes, ShouldRefresh compares the token with the client's   *)
(* clock, and the server, whose clock differs by a skew, decides whether   *)
(* the token has expired.                                                  *)
(*                                                                         *)
(* Times are integers in minutes.  The JSON and base64 decoding is         *)
(* abstracted to the shape of the body: "complete" when every field that   *)
(* the decoder insists on is present and decodes, "malformed" otherwise.   *)
(***************************************************************************)
EXTENDS Integers

CONSTANT NoExp      \* the absent "exp" claim: a nil *time.Time

ASSUME NoExpAssumption == NoExp \notin Int

\* "By default tokens expire 8 minutes after issue"; refreshed after 5.
DefaultLife == 8
RefreshAge  == 5

Body == [shape : {"complete", "malformed"},
         iat   : Int,
         exp   : Int \cup {NoExp},
         owner : {"self", "other"}]

(* NewToken and FromJSON succeed: all fields decode, and a token that      *)
(* carries exp was not issued after it.                                    *)
Parses(b) == /\ b.shape = "complete"
             /\ b.exp # NoExp => b.iat <= b.exp

Token == {b \in Body : Parses(b)}

(* The token is due for a refresh on a client whose clock shows t: past    *)
(* 85% of its life when it carries exp, 5 minutes after issue otherwise.   *)
ShouldRefresh(tok, t) ==
    IF tok.exp # NoExp
    THEN 100 * (t - tok.iat) > 85 * (tok.exp - tok.iat)
    ELSE t > tok.iat + RefreshAge

(* The server no longer accepts the token when its clock shows t.          *)
Expired(tok, t) ==
    IF tok.exp # NoExp THEN t >= tok.exp ELSE t >= tok.iat + DefaultLife
=============================================================================
