-------------------------------- MODULE Wire --------------------------------
(***************************************************************************)
(* A message from its construction to the peer that parses it: the         *)
(* functions of core/create make it, header after header, it is written    *)
(* into a buffer, and the peer's one-shot parser reads the text.  A user   *)
(* answers a challenge that was read with core/auth, and the answer goes   *)
(* the same way back.  Beside it, a block of a file: octets are read one   *)
(* after the other and may be encoded at any time.                         *)
(***************************************************************************)
EXTENDS Codec, Headers

CONSTANTS
  Room,      \* how long a text may be
  Tids, Methods, Answers,  \* [code, reason] of an answer
  Routes,    \* sequences of uris, as the arguments of lmsrp_uri_create
  Reports,   \* [code, rfc_code, reason] of a Status
  Words,     \* values of Message-ID and of the two report headers
  Times,     \* values of the three expiries
  Ranges,    \* [start, end, total]
  Challenges, Credentials,  \* what is in a WWW-Authenticate, an Authorization
  Users,     \* [username, realm, data_type, data, session_id, port] of a login
  Cnonce,    \* what pj_create_random_string gives
  Types,     \* sequences of [name, value] for Content-Type
  Contents,
  MaxHeaders,\* how many headers a message has at most
  Octets, MaxOctets, MaxBlock

\* The lengths of what is encoded do not go round.
ASSUME WireAssumption ==
  /\ Octets \subseteq 0 .. 255
  /\ MaxOctets \in Nat /\ 8 * MaxOctets + 6 < Word

\* Words do not have the marks in them that end them, and a text is of one line.
WordsWithout(chars) == Seq(STRING \ (chars \cup {CR, LF})) \ {<<>>}

UriWords  == WordsWithout({" ", ":", "/", "@", ";"})
TypeWords == WordsWithout({" ", "/", ":"})
Ids       == WordsWithout({" ", ":", Quote, Dashes})
OneLine      == Seq(STRING \ {CR, LF})

\* A value that may stand between quotes, and one that may stand without them: the
\* entries of a list that are not read as its value are no names.
Quotable == Seq(STRING \ {Quote, CR, LF})
Lists ==
  {l \in Seq(STRING \ {Quote, "=", CR, LF}) :
     \A i \in DOMAIN l :
       IF i = 1 THEN l[i] \notin {" ", ","} ELSE l[i] \notin Www \cup Auth \cup {"Digest"}}

\* What an application hands to the constructors.
ASSUME TextAssumption ==
  /\ Tids \subseteq Ids /\ Words \subseteq WordsWithout({" ", ":"})
  /\ Methods \subseteq WordsWithout({" ", ":"})
  /\ \A method \in Methods \cup {<<"AUTH">>} : Strtol(method) = 0
  /\ Answers \subseteq [code : Numbers \ {0}, reason : OneLine]
  /\ Reports \subseteq [code : Numbers, rfc_code : Numbers, reason : Seq(STRING \ {CR, LF, ":"})]
  /\ \A a \in Answers \cup Reports : ~StartsWith(a.reason, " ")
  /\ \A a \in Answers : a.reason # <<>> => Last(a.reason) # " "
  /\ \A r \in Routes :
       r \in Seq([host : UriWords, port : Numbers, session_id : UriWords \cup {<<>>},
                  user : UriWords \cup {<<>>}, transport : STRING])
         /\ \A i \in DOMAIN r : <<r[i].transport>> \in UriWords
  /\ Times \subseteq Numbers \ {0}
  /\ Ranges \subseteq [start : Numbers, end : Numbers, total : Numbers]
  /\ \A a \in Challenges \cup Credentials : \A n \in DOMAIN a :
       a[n] \in IF n \in Unquoted THEN Lists ELSE Quotable
  /\ Users \subseteq [username : UriWords \cap Quotable, realm : UriWords,
                     data_type : {"plain", "digest"}, data : Seq(STRING),
                     session_id : UriWords \cap Ids, port : Numbers]
  /\ Cnonce \in Quotable
  /\ Types \subseteq Seq([name : TypeWords, value : TypeWords]) \ {<<>>}
  /\ Contents \subseteq Seq(STRING)

VARIABLES
  mess,      \* the message, {} before it is made
  text,      \* what was written, <<>> before and when there was no room
  got,       \* what the peer made of it
  phase,     \* "make", "written", "read"; "octets" or "block" without a message
  asked,     \* history: [www, user], the challenge a message answers, and for whom
  octets,    \* what was read of the file
  block      \* a block size of the file streams

vars == <<mess, text, got, phase, asked, octets, block>>

-----------------------------------------------------------------------------
(* core/create.                                                            *)

CreateRequest(tid, method) ==
  [NoMess EXCEPT !.tid = tid, !.info.method = method, !.flag = "$"]

\* What lmsrp_uri_create makes of a transport.
SchemeOf(transport)    == IF transport = "tls" THEN <<"msrps">> ELSE <<"msrp">>
TransportOf(transport) == IF transport = "none" THEN <<>> ELSE <<transport>>

UriCreate(a) ==
  [scheme |-> SchemeOf(a.transport), user |-> a.user, host |-> a.host, port |-> a.port,
   session_id |-> a.session_id, transport |-> TransportOf(a.transport)]

\* lmsrp_list_uri_create, and lmsrp_list_uri_add for the uris after the first.
ListUriCreate(route) == [i \in DOMAIN route |-> UriCreate(route[i])]

StatusCreate(a)    == [code |-> a.code, rfc_code |-> a.rfc_code, reason |-> a.reason]
ByteRangeCreate(a) == [start |-> a.start, end |-> a.end, total |-> a.total]

\* lmsrp_authorization_h_create; what is not given stays empty.
AuthorizationCreate(a) ==
  [NoValues(Auth) EXCEPT !.scheme = <<"Digest">>,
     !.value = [n \in Auth |-> IF n \in DOMAIN a THEN a[n] ELSE <<>>]]

-----------------------------------------------------------------------------
(* core/auth.  The hash of a text stands for its 32 digits: it is a word   *)
(* without marks, and different texts have different ones.                 *)

Md5(s) == IF ToString(s) \in STRING \ Marks THEN <<ToString(s)>> ELSE <<"0">>

\* Slip: nonce-count and cnonce change places.
AuthCreateDigestSwapped(nonce, nc, cnonce, qop, uri, realm, user, method) ==
  LET ha1 == IF user.data_type = "plain"
               THEN Md5(user.username \o <<":">> \o realm \o <<":">> \o user.data)
               ELSE user.data
      mid == IF qop = <<>> THEN <<>>
               ELSE cnonce \o <<":">> \o nc \o <<":">> \o qop \o <<":">>
  IN  Md5(ha1 \o <<":">> \o nonce \o <<":">> \o mid \o Md5(method \o <<":">> \o uri))

\* lmsrp_auth_create_digest: of the words as they are given, whatever algorithm the
\* challenge names.
AuthCreateDigest(nonce, nc, cnonce, qop, uri, realm, user, method) ==
  LET ha1 == IF user.data_type = "plain"
               THEN Md5(user.username \o <<":">> \o realm \o <<":">> \o user.data)
               ELSE user.data
      mid == IF qop = <<>> THEN <<>>
               ELSE nc \o <<":">> \o cnonce \o <<":">> \o qop \o <<":">>
  IN  Md5(ha1 \o <<":">> \o nonce \o <<":">> \o mid \o Md5(method \o <<":">> \o uri))

\* lmsrp_gen_auth_mess: to and from are the same list.
GenAuthMess(user) ==
  LET path == ListUriCreate(<<[transport |-> "tcp", user |-> user.username,
                               host |-> user.realm, port |-> user.port,
                               session_id |-> user.session_id]>>)
  IN  [CreateRequest(user.session_id, <<"AUTH">>) EXCEPT
         !.head["to_path"] = {path}, !.head["from_path"] = {path}]

\* msrp_make_authorization_header: the id of the answer is taken for the uri.
MakeAuthorizationHeader(response, www, user) ==
  LET nc == <<"00000001">>
      v  == www.value
  IN  [AuthorizationCreate(
        [username |-> user.username, realm |-> v["realm"], nonce |-> v["nonce"],
         uri |-> response.tid, cnonce |-> Cnonce, opaque |-> v["opaque"], qop |-> v["qop"],
         nc |-> nc,
         response |-> AuthCreateDigest(v["nonce"], nc, Cnonce, v["qop"], response.tid,
                                       v["realm"], user, <<"AUTH">>)])
       EXCEPT !.scheme = www.scheme]

\* lmsrp_authorizate_mess, but for the writing.
AuthorizateMess(m, response, user) ==
  [m EXCEPT !.head["auth"] = {MakeAuthorizationHeader(response, www, user) :
                                www \in response.head["www"]}]

-----------------------------------------------------------------------------
\* The values a program of this library may put into the header f.
ValuesOf(f) ==
  CASE f \in Paths         -> {ListUriCreate(r) : r \in Routes}
    [] f = "status"        -> {StatusCreate(a) : a \in Reports}
    [] f \in Expiries      -> Times
    [] f = "byte_range"    -> {ByteRangeCreate(a) : a \in Ranges}
    [] f = "www"           -> {[NoValues(Www) EXCEPT !.scheme = <<"Digest">>,
                                  !.value = [n \in Www |-> IF n \in DOMAIN a THEN a[n] ELSE <<>>]] :
                                 a \in Challenges}
    [] f = "auth"          -> {AuthorizationCreate(a) : a \in Credentials}
    [] f = "content_type"  -> Types
    [] OTHER               -> Words

-----------------------------------------------------------------------------
Init ==
  /\ mess = {} /\ text = <<>> /\ got = {}
  /\ phase \in {"make", "octets", "block"}
  /\ asked = {} /\ octets = <<>> /\ block = 3

\* A request, or the answer that the writer makes of a message with a code.
Create ==
  /\ phase = "make" /\ mess = {}
  /\ \E tid \in Tids :
       \/ \E m \in Methods : mess' = {CreateRequest(tid, m)}
       \/ \E a \in Answers :
            mess' = {[CreateRequest(tid, <<>>) EXCEPT !.info.code = a.code,
                                                      !.info.reason = a.reason]}
  /\ UNCHANGED <<text, got, phase, asked, octets, block>>

Has(m, i) == m.head[Order[i]] # {}

\* One more header, in the order of the writer: any other makes the same message.
Add ==
  /\ phase = "make"
  /\ \E m \in mess, i \in DOMAIN Order :
       /\ \A j \in i .. Len(Order) : ~Has(m, j)
       /\ Cardinality({j \in DOMAIN Order : Has(m, j)}) < MaxHeaders
       /\ \E v \in ValuesOf(Order[i]) : mess' = {[m EXCEPT !.head[Order[i]] = {v}]}
  /\ UNCHANGED <<text, got, phase, asked, octets, block>>

AddContents ==
  /\ phase = "make"
  /\ \E m \in mess, c \in Contents, flag \in Flags :
       m.contend = <<>> /\ mess' = {[m EXCEPT !.contend = c, !.flag = flag]}
  /\ UNCHANGED <<text, got, phase, asked, octets, block>>

Write ==
  /\ phase = "make" /\ mess # {}
  /\ phase' = "written" /\ \E m \in mess : text' = MessToString(m, Room)
  /\ UNCHANGED <<mess, got, asked, octets, block>>

Prase ==
  /\ phase = "written" /\ text # <<>>
  /\ phase' = "read" /\ got' = MessPraseFromBuff(text)
  /\ UNCHANGED <<mess, text, asked, octets, block>>

\* A login reads a challenge and makes the answer.
Authorizate ==
  /\ phase = "read"
  /\ \E response \in got, user \in Users :
       /\ response.info.code \in {401, 407} /\ response.head["www"] # {}
       /\ mess' = {AuthorizateMess(GenAuthMess(user), response, user)}
       /\ asked' = UNION {{[www |-> www.value, user |-> user] : www \in m.head["www"]} :
                            m \in mess}
  /\ phase' = "make" /\ text' = <<>> /\ got' = {}
  /\ UNCHANGED <<octets, block>>

Read ==
  /\ phase = "octets" /\ Len(octets) < MaxOctets
  /\ \E o \in Octets : octets' = Append(octets, o)
  /\ UNCHANGED <<mess, text, got, phase, asked, block>>

Resize ==
  /\ phase = "block" /\ block < MaxBlock
  /\ block' = block + 1
  /\ UNCHANGED <<mess, text, got, phase, asked, octets>>

Next == Create \/ Add \/ AddContents \/ Write \/ Prase \/ Authorizate \/ Read \/ Resize

Spec == Init /\ [][Next]_vars

-----------------------------------------------------------------------------
(* Properties.                                                             *)

\* The words of w before its first separator.
FirstPart(w, chars) ==
  LET at == FirstIn(w, chars)
  IN  IF at = 0 THEN w ELSE SubSeq(w, 1, at - 1)

\* What arrives of a header: of a reason its first word, of a list in qop or domain
\* and of an nc the first entry, of content types the ones behind the first in the
\* reverse order.
Arrives(f, v) ==
  CASE f = "status" ->
         [v EXCEPT !.reason = IF @ = <<>> THEN <<"report">> ELSE FirstPart(@, {" "})]
    [] f \in {"www", "auth"} ->
         [v EXCEPT !.value = [n \in DOMAIN @ |->
            IF n \in Unquoted THEN FirstPart(@[n], {",", " "}) ELSE @[n]]]
    [] f = "content_type" -> <<v[1]>> \o Reverse(Tail(v))
    [] OTHER -> v

\* The peer refuses what has an expiry, whose name the writer and the parser spell
\* differently, and what has a challenge and an Authorization.
Refused(m) ==
  \/ \E f \in Expiries : m.head[f] # {}
  \/ m.head["www"] # {} /\ m.head["auth"] # {}

\* The peer reads the message that was written, with its contents whatever they are,
\* but for what Arrives and Refused say, and never dereferences NULL over it.
RoundTrip ==
  phase = "read" =>
    got = {[m EXCEPT !.head = [f \in DOMAIN @ |-> {Arrives(f, v) : v \in @[f]}]] :
             m \in {n \in mess : ~Refused(n)}}

\* The text with the line of a header once more behind the first line.
Twice(m, i) ==
  LET first == FirstIn(text, {LF})
  IN  SubSeq(text, 1, first) \o HeaderLines(m, i) \o SubSeq(text, first + 1, Len(text))

\* A message that says a header twice is refused, unless it is its Authorization.
HeaderOnce ==
  phase = "read" =>
    \A m \in mess, i \in DOMAIN Order :
      Has(m, i) /\ Order[i] # "auth" => MessPraseFromBuff(Twice(m, i)) = {}

\* Challenges this library can answer: with MD5, and auth the first thing offered;
\* a user that has a hash instead of a password has it for one realm.
Answerable(www, user) ==
  /\ www["algorithm"] \in {<<>>, <<"MD5">>}
  /\ FirstPart(www["qop"], {","}) \in {<<>>, <<"auth">>}
  /\ user.data_type = "plain" \/ www["realm"] = user.realm

Colon == <<":">>

\* The response a relay computes from the credentials a that it reads (RFC 2617,
\* 3.2.2.1), and from the hash ha1 it has of the user's password.
Expected(a, ha1) ==
  LET ha2 == Md5(<<"AUTH">> \o Colon \o a["uri"])
  IN  IF a["qop"] = <<>>
        THEN Md5(ha1 \o Colon \o a["nonce"] \o Colon \o ha2)
        ELSE Md5(ha1 \o Colon \o a["nonce"] \o Colon \o a["nc"] \o Colon \o a["cnonce"]
                   \o Colon \o a["qop"] \o Colon \o ha2)

HashOf(user, realm) ==
  IF user.data_type = "plain"
    THEN Md5(user.username \o Colon \o realm \o Colon \o user.data) ELSE user.data

\* The relay whose challenge was read, answered, written and sent back finds its
\* realm, nonce and opaque in the Authorization, and the response it expects.
ResponseAccepted ==
  phase = "read" =>
    \A q \in asked :
      Answerable(q.www, q.user) =>
        \E m \in got : \E auth \in m.head["auth"] :
          /\ \A n \in {"realm", "nonce", "opaque"} : auth.value[n] = q.www[n]
          /\ auth.value["username"] = q.user.username
          /\ auth.value["response"] = Expected(auth.value, HashOf(q.user, q.www["realm"]))

\* The codecs give back the octets they were given, as their standards say, and with
\* the room they ask for.
Base64RoundTrip ==
  Base64Trip(octets) /\ \A at \in 0 .. 2 * MaxOctets : BreaksIgnored(octets, at)
R128RoundTrip   == R128Trip(octets)

\* What a sender reads for a block fits into it when it is encoded.
BlockFits == Base64Fits(block) /\ R128Fits(block)

=============================================================================
