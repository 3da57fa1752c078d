----------------------------- MODULE LoginProofs -----------------------------
(***************************************************************************)
(* Proofs about Login for every number of tries, every room, and every set *)
(* of lengths: the types, that a session is a granted one, that an         *)
(* Authorization answers the latest challenge, and what the process may go *)
(* over.                                                                   *)
(***************************************************************************)
EXTENDS Login, TLAPS

\* Before it waits the client has nothing on its way.
IdleInv == pc \in {"connect", "send", "done"} => request = {} /\ answer = {}

\* What the relay has still to answer is the text that was sent last, and then there
\* is no answer yet.
RequestInv == request # {} => request = {out.nonce} /\ answer = {}

\* The text answers the latest challenge, but when that is on its way.
NonceInv ==
  /\ \A a \in answer : Challenges(a) => a.nonce = nonce
  /\ pc # "done" /\ (\A a \in answer : ~Challenges(a)) => out.nonce = nonce

\* A success on its way was granted.
AcceptInv == \A a \in answer : a.code = 200 /\ ~a.request => granted

\* There is one answer at a time.
OneAnswer == \A a, b \in answer : a = b

\* What the relay has not answered is lost when it closes.
ClosedInv == closed => request = {}

\* The tries end with the login.
TriesInv == pc # "done" => dem \in 0 .. Tries

\* The room is what the shortest answer needed.
RoomInv == pc # "done" => slen = shortest

IInv ==
  /\ TypeOK /\ IdleInv /\ RequestInv /\ NonceInv /\ AcceptInv /\ RoomInv
  /\ OneAnswer /\ ClosedInv /\ TriesInv /\ OnlyGranted

\* The login starts with nothing on its way.
LEMMA InitLemma == Init => IInv
<1> SUFFICES ASSUME Init PROVE IInv
  OBVIOUS
<1>1. /\ dem \in -1 .. Tries /\ dem \in 0 .. Tries
      /\ slen \in 0 .. Room /\ shortest \in 0 .. Room
  BY LoginAssumption DEF Init
<1>2. TypeOK
  BY <1>1 DEF Init, TypeOK
<1> QED
  BY <1>1, <1>2
  DEF Init, IInv, IdleInv, RequestInv, NonceInv, AcceptInv, OneAnswer, ClosedInv, TriesInv,
      RoomInv, OnlyGranted

\* The client's steps.
LEMMA ConnectStep == IInv /\ Connect => IInv'
<1> SUFFICES ASSUME IInv, Connect PROVE IInv'
  OBVIOUS
<1> QED
  BY DEF IInv, TypeOK, IdleInv, RequestInv, NonceInv, AcceptInv, OneAnswer, ClosedInv,
         TriesInv, RoomInv, OnlyGranted, Connect, Connected, ConnectFails, Return, relay,
         Challenges, AnswerOf

\* A request is sent and costs a try, or the login ends without one left.
LEMMA SendStep == IInv /\ Send => IInv'
<1> SUFFICES ASSUME IInv, Send PROVE IInv'
  OBVIOUS
<1>1. dem' \in -1 .. Tries /\ (pc' # "done" => dem' \in 0 .. Tries)
  BY LoginAssumption DEF IInv, TypeOK, TriesInv, Send, Return
<1>2. out.nonce \in Nat /\ pc' \in {"recv", "done"} /\ result' \in {result, "NULL"}
        /\ request' \subseteq Nat
  BY DEF IInv, TypeOK, Send, Return, IdleInv
<1>3. TypeOK'
  BY <1>1, <1>2 DEF IInv, TypeOK, Send, relay
<1> QED
  BY <1>1, <1>2, <1>3
  DEF IInv, TypeOK, IdleInv, RequestInv, NonceInv, AcceptInv, OneAnswer, ClosedInv,
      TriesInv, RoomInv, OnlyGranted, Send, Return, relay, Challenges

\* An answer is received, of any of the five kinds the login tells apart.
LEMMA RecvStep == IInv /\ Recv => IInv'
<1> SUFFICES ASSUME IInv, Recv PROVE IInv'
  OBVIOUS
<1> USE DEF IInv, relay
<1>1. PICK a \in answer :
        /\ ReadIn(a)
        /\ shortest' = IF a.leng < shortest THEN a.leng ELSE shortest
        /\ \/ TakeBroken(a) \/ TakeRequest(a) \/ TakeSuccess(a)
           \/ TakeChallenge(a) \/ TakeOther(a)
  BY DEF Recv
<1>2. a \in AnswerOf /\ a.leng \in Nat /\ a.leng \in Lengths /\ a.nonce \in Nat
        /\ a.fits \in BOOLEAN
  BY LoginAssumption DEF TypeOK, AnswerOf
<1>3. request = {} /\ answer' = {} /\ request' = {}
  BY DEF Recv, RequestInv
<1>4. /\ TypeOK'
      /\ pc' \in {"send", "done"}
      /\ slen' = shortest'
      /\ pc' # "done" => out'.nonce = nonce
      /\ result' = "session" => granted
      /\ pc' # "done" => dem' \in 0 .. Tries
  <2>1. slen' = shortest' /\ slen' \in 0 .. Room /\ shortest' \in 0 .. Room
    BY <1>1, <1>2, LoginAssumption DEF Recv, ReadIn, RoomInv, TypeOK
  <2>2. CASE TakeBroken(a)
    BY <1>3, <2>1, <2>2 DEF TypeOK, TakeBroken, Return, Recv, TriesInv, OnlyGranted
  <2>3. CASE TakeRequest(a)
    BY <1>3, <2>1, <2>3 DEF TypeOK, TakeRequest, Return, Recv, TriesInv, OnlyGranted
  <2>4. CASE TakeSuccess(a)
    BY <1>3, <2>1, <2>4 DEF TypeOK, TakeSuccess, Return, Recv, TriesInv, OnlyGranted, AcceptInv
  <2>5. CASE TakeChallenge(a)
    <3>1. a.nonce = nonce
      BY <2>5 DEF TakeChallenge, NonceInv, Challenges
    <3> QED
      BY <1>2, <1>3, <2>1, <2>5, <3>1
      DEF TypeOK, TakeChallenge, Authorizate, Recv, TriesInv, OnlyGranted
  <2>6. CASE TakeOther(a)
    <3>1. out.nonce = nonce
      <4>1. ~Challenges(a)
        BY <2>6 DEF TakeOther, Challenges
      <4>2. \A b \in answer : ~Challenges(b)
        BY <4>1 DEF OneAnswer
      <4> QED
        BY <4>2 DEF NonceInv, Recv
    <3> QED
      BY <1>2, <1>3, <2>1, <2>6, <3>1
      DEF TypeOK, TakeOther, Recv, TriesInv, OnlyGranted, NonceInv, Challenges
  <2> QED
    BY <1>1, <2>2, <2>3, <2>4, <2>5, <2>6
<1> QED
  BY <1>3, <1>4
  DEF IdleInv, RequestInv, NonceInv, AcceptInv, OneAnswer, ClosedInv, TriesInv, RoomInv,
      OnlyGranted, Recv

\* On a closed connection the receive ends without an answer.
LEMMA RecvClosedStep == IInv /\ RecvClosed => IInv'
<1> SUFFICES ASSUME IInv, RecvClosed PROVE IInv'
  OBVIOUS
<1>1. 0 \in 0 .. Room
  BY LoginAssumption
<1>2. request' = {}
  BY DEF RecvClosed, IInv, ClosedInv
<1> QED
  BY <1>1, <1>2
  DEF IInv, TypeOK, IdleInv, RequestInv, NonceInv, AcceptInv, OneAnswer, ClosedInv, TriesInv,
      RoomInv, OnlyGranted, RecvClosed, Return, relay, Challenges

\* The relay's.
LEMMA AnswerStep == IInv /\ Answer => IInv'
<1> SUFFICES ASSUME IInv, Answer PROVE IInv'
  OBVIOUS
<1> USE DEF IInv, client
<1>1. PICK n \in request,
           a \in [request : BOOLEAN, code : Codes, nonce : {0, nonce + 1}, header : BOOLEAN,
                  leng : Lengths, whole : BOOLEAN, fits : BOOLEAN] :
        /\ Honest(a, n)
        /\ answer' = {a}
        /\ nonce' = IF Challenges(a) THEN a.nonce ELSE nonce
        /\ granted' = (granted \/ (a.code = 200 /\ ~a.request))
  BY DEF Answer
<1>2. nonce \in Nat /\ a \in AnswerOf /\ a.nonce \in Nat
  BY <1>1 DEF TypeOK, AnswerOf
<1>3. TypeOK'
  BY <1>1, <1>2 DEF TypeOK, Answer
<1>4. answer = {} /\ pc = "recv" /\ request' = {}
  BY DEF Answer, IdleInv, TypeOK
<1>5. NonceInv'
  <2>1. out.nonce = nonce
    BY <1>4 DEF NonceInv
  <2> QED
    BY <1>1, <2>1 DEF NonceInv, Challenges, Answer
<1> QED
  BY <1>1, <1>3, <1>4, <1>5
  DEF IdleInv, RequestInv, AcceptInv, OneAnswer, ClosedInv, TriesInv, RoomInv,
      OnlyGranted, Answer

\* The relay may close the connection between any two steps.
LEMMA CloseStep == IInv /\ Close => IInv'
BY DEF IInv, TypeOK, IdleInv, RequestInv, NonceInv, AcceptInv, OneAnswer, ClosedInv, TriesInv,
       RoomInv, OnlyGranted, Close, client, Challenges

\* The parts of the invariant hold together at every time of a login.
THEOREM Inductive == Spec => []IInv
<1>1. IInv /\ [Next]_vars => IInv'
  <2>1. IInv /\ UNCHANGED vars => IInv'
    BY DEF IInv, TypeOK, IdleInv, RequestInv, NonceInv, AcceptInv, OneAnswer, ClosedInv, TriesInv,
           RoomInv, OnlyGranted, vars, client, relay, Challenges
  <2> QED
    BY <2>1, ConnectStep, SendStep, RecvStep, RecvClosedStep, AnswerStep, CloseStep DEF Next
<1> QED
  BY <1>1, InitLemma, PTL DEF Spec

\* The types.
THEOREM TypeCorrect == Spec => []TypeOK
<1>1. IInv => TypeOK
  BY DEF IInv
<1> QED
  BY <1>1, Inductive, PTL

\* A session is returned only when the relay has accepted the Authorization.
THEOREM OnlyGrantedCorrect == Spec => []OnlyGranted
<1>1. IInv => OnlyGranted
  BY DEF IInv
<1> QED
  BY <1>1, Inductive, PTL

\* No stale Authorization is sent after a second challenge.
THEOREM LatestChallengeCorrect == Spec => []LatestChallenge
<1>1. IInv => LatestChallenge
  BY DEF IInv, IdleInv, RequestInv, NonceInv, LatestChallenge, TypeOK
<1> QED
  BY <1>1, Inductive, PTL

\* What the process may go over.
THEOREM GoneForCorrect == Spec => GoneFor
<1>1. IInv /\ [Next]_vars =>
        [result # "gone" /\ result' = "gone" =>
           \/ closed
           \/ \E a \in answer : \/ ~a.header \/ ~a.whole
                                \/ a.leng > shortest]_vars
  <2> SUFFICES ASSUME IInv, Next, result # "gone", result' = "gone", ~closed
               PROVE  \E a \in answer : \/ ~a.header \/ ~a.whole
                                        \/ a.leng > shortest
    OBVIOUS
  <2>1. CASE Recv
    <3>1. PICK a \in answer : TakeBroken(a)
      BY <2>1 DEF Recv, TakeRequest, TakeSuccess, TakeChallenge, TakeOther, Return
    <3>2. slen = shortest /\ a.leng \in Int /\ shortest \in Int
      <4>1. slen = shortest /\ shortest \in Int
        <5>1. pc = "recv" /\ shortest \in 0 .. Room
          BY <2>1 DEF Recv, IInv, TypeOK
        <5>2. slen = shortest
          BY <5>1 DEF IInv, RoomInv
        <5> QED
          BY <5>1, <5>2
      <4>2. a \in AnswerOf
        BY <3>1 DEF IInv, TypeOK
      <4>3. a.leng \in Lengths
        BY <4>2 DEF AnswerOf
      <4>4. a.leng \in Nat
        BY <4>3, LoginAssumption
      <4> QED
        BY <4>1, <4>4
    <3> QED
      BY <3>1, <3>2 DEF TakeBroken, Readable
  <2>2. CASE RecvClosed
    BY <2>2 DEF RecvClosed
  <2>3. CASE Connect \/ Send
    BY <2>3 DEF Connect, Connected, ConnectFails, Send, Return
  <2>4. CASE Answer \/ Close
    BY <2>4 DEF Answer, Close, client
  <2> QED
    BY <2>1, <2>2, <2>3, <2>4 DEF Next
<1> QED
  BY <1>1, Inductive, PTL DEF Spec, GoneFor

=============================================================================
