-------------------------------- MODULE Login --------------------------------
(***************************************************************************)
(* lmsrp_login (file/login/lmsrp_login.c): the AUTH request is sent to a   *)
(* relay, a challenge is answered with an Authorization                    *)
(* (core/auth/lmsrp_auth.c), and the relay's 200 brings the session id of  *)
(* its Use-Path.  The relay is external: what it may send is every answer  *)
(* lmsrp_login tells apart, whole or cut by the transport.                 *)
(***************************************************************************)
EXTENDS Integers

CONSTANTS
  Tries,    \* dem: how often the request is sent
  Room,     \* octets of the half of buff that receives
  Lengths   \* octets an answer may have

ASSUME LoginAssumption == Tries \in Nat /\ Room \in Nat \ {0} /\ Lengths \subseteq Nat \ {0}

VARIABLES
  pc,       \* "connect", "send", "recv" or "done"
  dem,      \* tries left
  slen,     \* m_recv.slen: the room for the next answer
  out,      \* [fits, nonce]: the text to send, and the challenge it answers (0: none)
  result,   \* what was returned; "gone" when a NULL was dereferenced
  request,  \* what the relay has still to answer
  answer,   \* what is on its way back; the connection may be closed behind it
  closed,
  mood,     \* the relay is "kind", "busy", which answers everything somehow, or "any"
  nonce,    \* its latest challenge
  granted,  \* it has accepted an Authorization
  shortest  \* history: octets of the shortest answer received

client == <<pc, dem, slen, out, result>>
relay  == <<closed, mood, nonce, granted>>
vars   == <<client, request, answer, relay, shortest>>

Codes == {200, 401, 407, 500}

\* What lmsrp_login reads of an answer.  header: the WWW-Authenticate, the Use-Path
\* is there; whole: its end line is in the packet; fits: with the Authorization for
\* it the request is not too long.
AnswerOf ==
  [request : BOOLEAN, code : Codes, nonce : Nat, header : BOOLEAN, leng : Lengths,
   whole : BOOLEAN, fits : BOOLEAN]

Init ==
  /\ pc = "connect" /\ dem = Tries /\ slen = Room
  /\ out = [fits |-> TRUE, nonce |-> 0] /\ result = "none"
  /\ request = {} /\ answer = {} /\ closed = FALSE
  /\ mood \in {"kind", "busy", "any"}
  /\ nonce = 0 /\ granted = FALSE /\ shortest = Room

-----------------------------------------------------------------------------
(* lmsrp_login.                                                            *)

Return(r) == pc' = "done" /\ result' = r

Connected == pc = "connect" /\ pc' = "send" /\ UNCHANGED result

ConnectFails == pc = "connect" /\ mood # "kind" /\ Return("NULL")

Connect ==
  /\ Connected \/ ConnectFails
  /\ UNCHANGED <<dem, slen, out, request, answer, relay, shortest>>

\* Slip: the tries are not counted.
SendForever ==
  /\ pc = "send"
  /\ pc' = "recv" /\ request' = {out.nonce}
  /\ UNCHANGED <<dem, result, slen, out, answer, relay, shortest>>

\* car->send, whose status nobody looks at: a text of length -1 is not sent.
Send ==
  /\ pc = "send" /\ dem' = dem - 1
  /\ IF dem = 0
       THEN Return("NULL") /\ UNCHANGED request
       ELSE /\ pc' = "recv" /\ UNCHANGED result
            /\ request' = IF out.fits /\ ~closed THEN {out.nonce} ELSE request
  /\ UNCHANGED <<slen, out, answer, relay, shortest>>

\* Slip: the next answer goes behind this one.
ReadBehind(a) == slen' = IF a.leng < slen THEN slen - a.leng ELSE 0

\* car->recv writes no more than slen octets and leaves in slen how many it wrote.
ReadIn(a) == slen' = IF a.leng < slen THEN a.leng ELSE slen

\* lmsrp_mess_prase_from_buff finds the end line.
Readable(a) == a.whole /\ a.leng <= slen

\* It is NULL, or the header is, and is dereferenced.
TakeBroken(a) ==
  /\ ~Readable(a) \/ (~a.request /\ a.code # 500 /\ ~a.header)
  /\ Return("gone") /\ UNCHANGED out

TakeRequest(a) ==
  /\ Readable(a) /\ a.request
  /\ Return("NULL") /\ UNCHANGED out

\* Slip: an answer with a header that is no challenge is a success.
TakeSuccessAny(a) ==
  /\ Readable(a) /\ ~a.request /\ a.code \notin {401, 407} /\ a.header
  /\ Return("session") /\ UNCHANGED out

TakeSuccess(a) ==
  /\ Readable(a) /\ ~a.request /\ a.code = 200 /\ a.header
  /\ Return("session") /\ UNCHANGED out

\* Slip: once there is an Authorization, it stays.
AuthorizateOnce(a) ==
  out' = IF out.nonce = 0 THEN [fits |-> a.fits, nonce |-> a.nonce] ELSE out

\* lmsrp_authorizate_mess: the request is written again, with an Authorization for
\* this challenge in the place of the one before.
Authorizate(a) == out' = [fits |-> a.fits, nonce |-> a.nonce]

TakeChallenge(a) ==
  /\ Readable(a) /\ ~a.request /\ a.code \in {401, 407} /\ a.header
  /\ Authorizate(a)
  /\ pc' = "send" /\ UNCHANGED result

\* Any other code: the same text again.
TakeOther(a) ==
  /\ Readable(a) /\ ~a.request /\ a.code = 500
  /\ pc' = "send" /\ UNCHANGED <<out, result>>

Recv ==
  /\ pc = "recv"
  /\ \E a \in answer :
       /\ ReadIn(a)
       /\ shortest' = IF a.leng < shortest THEN a.leng ELSE shortest
       /\ \/ TakeBroken(a) \/ TakeRequest(a) \/ TakeSuccess(a)
          \/ TakeChallenge(a) \/ TakeOther(a)
  /\ answer' = {}
  /\ UNCHANGED <<dem, request, relay>>

\* car->recv returns with nothing; what is parsed is no message.
RecvClosed ==
  /\ pc = "recv" /\ answer = {} /\ closed
  /\ slen' = 0 /\ Return("gone")
  /\ UNCHANGED <<dem, out, request, answer, relay, shortest>>

-----------------------------------------------------------------------------
(* The relay.  It accepts only an Authorization for its latest challenge,  *)
(* and no two of its challenges have the same nonce.                       *)

Challenges(a) == ~a.request /\ a.code \in {401, 407} /\ a.header

\* A kind relay says what is needed, and nothing longer than before.
Kind(a, n) ==
  /\ ~a.request /\ a.header /\ a.whole /\ a.fits /\ a.leng <= shortest
  /\ a.code = IF n = nonce /\ n # 0 THEN 200 ELSE 401

Honest(a, n) ==
  /\ a.code = 200 /\ ~a.request => n = nonce /\ n # 0
  /\ a.nonce = IF Challenges(a) THEN nonce + 1 ELSE 0

Answer ==
  /\ request # {} /\ answer = {} /\ ~closed
  /\ \E n \in request,
        a \in [request : BOOLEAN, code : Codes, nonce : {0, nonce + 1}, header : BOOLEAN,
               leng : Lengths, whole : BOOLEAN, fits : BOOLEAN] :
       /\ Honest(a, n)
       /\ mood = "kind" => Kind(a, n)
       /\ mood = "busy" => a.fits
       /\ answer' = {a}
       /\ nonce' = IF Challenges(a) THEN a.nonce ELSE nonce
       /\ granted' = (granted \/ (a.code = 200 /\ ~a.request))
  /\ request' = {}
  /\ UNCHANGED <<client, closed, mood, shortest>>

\* The relay closes the connection, and what it has not answered is lost.
Close ==
  /\ mood = "any" /\ ~closed
  /\ closed' = TRUE /\ request' = {}
  /\ UNCHANGED <<client, answer, mood, nonce, granted, shortest>>

Next == Connect \/ Send \/ Recv \/ RecvClosed \/ Answer \/ Close

\* The client runs while it does not wait; a relay that is not silent answers.
Fairness ==
  /\ WF_vars(Connect \/ Send \/ Recv \/ RecvClosed)
  /\ WF_vars(mood # "any" /\ Answer)

Spec == Init /\ [][Next]_vars /\ Fairness

-----------------------------------------------------------------------------
(* Properties.                                                             *)

TypeOK ==
  /\ pc \in {"connect", "send", "recv", "done"}
  /\ dem \in -1 .. Tries /\ slen \in 0 .. Room /\ shortest \in 0 .. Room
  /\ out \in [fits : BOOLEAN, nonce : Nat]
  /\ result \in {"none", "session", "NULL", "gone"}
  /\ request \subseteq Nat /\ answer \subseteq AnswerOf
  /\ closed \in BOOLEAN /\ mood \in {"kind", "busy", "any"}
  /\ nonce \in Nat /\ granted \in BOOLEAN

\* A session is returned only when the relay has accepted the Authorization.
OnlyGranted == result = "session" => granted

\* What the relay reads is an answer to its latest challenge, unless it was sent
\* before there was one: after a second challenge no stale Authorization is sent.
LatestChallenge == \A n \in request : n = nonce

\* The process goes only over an answer without its header, a connection that was
\* closed, or an answer that did not come whole: cut by the transport, or longer
\* than one before it, since the room is never set back to what it was.
GoneFor ==
  [][result # "gone" /\ result' = "gone" =>
       \/ closed
       \/ \E a \in answer : \/ ~a.header \/ ~a.whole
                            \/ a.leng > shortest]_vars

\* A kind relay is asked, challenges, and grants the session.
KindGrants == mood = "kind" /\ Tries >= 2 ~> result = "session"

\* The login returns when it is always answered, whatever the answers are, and does
\* not send forever.
LoginEnds == mood # "any" ~> pc = "done"

=============================================================================
