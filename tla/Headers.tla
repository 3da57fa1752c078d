------------------------------- MODULE Headers -------------------------------
(***************************************************************************)
(* How a message is written (core/to_string) and how the one-shot parser   *)
(* reads it (core/prase): lmsrp_mess_tostring and                          *)
(* lmsrp_mess_prase_from_buff with the writer and the parser of every      *)
(* header.                                                                 *)
(*                                                                         *)
(* A text is a sequence of tokens: each character a parser stops at is a   *)
(* token of its own, and so are the dashes of an end line and every run of *)
(* other characters.  Names are compared without regard to case in the     *)
(* code; here one token stands for all the ways to write one.  A header    *)
(* that is not there (NULL, a string of no length, an Expires of zero) is  *)
(* {}, and one that is there is the set of its value.                      *)
(***************************************************************************)
EXTENDS Integers, SequencesExt

CONSTANT Numbers  \* the numbers that are written and read in decimal

CR == "CR"
LF == "LF"
Quote  == "\""
Dashes == "-------"
CRLF   == <<CR, LF>>
Flags  == {"$", "+", "#"}
Marks  == {CR, LF, Quote, Dashes, " ", ":", "/", "-", "@", ";", ",", "=", "*"} \cup Flags

\* A number is printed as a word that says which number it is.
ASSUME NumbersAssumption ==
  /\ Numbers \subseteq Nat
  /\ \A n \in Numbers : ToString(n) \in STRING \ Marks
  /\ \A m, n \in Numbers : ToString(m) = ToString(n) => m = n

\* %d, and pj_strtol, which takes what is no number for zero.
Decimal(n) == <<ToString(n)>>
Strtol(w)  == IF \E n \in Numbers : w = Decimal(n)
                THEN CHOOSE n \in Numbers : w = Decimal(n) ELSE 0

-----------------------------------------------------------------------------
(* Words.                                                                  *)

None == [read |-> FALSE, word |-> <<>>, rest |-> <<>>]

\* lmsrp_get_str, where the characters at the places sep are separators: the first
\* word and what follows it.  Where nothing is left the octet behind the line, the
\* CR, is taken for a word.
GetStr(s, sep) ==
  LET from  == Min(DOMAIN s \ sep)
      after == {i \in sep : i > from}
      to    == IF after = {} THEN Len(s) ELSE Min(after) - 1
  IN  CASE s = <<>> -> [read |-> TRUE, word |-> <<CR>>, rest |-> <<>>]
        [] s # <<>> /\ DOMAIN s \subseteq sep -> None
        [] OTHER -> [read |-> TRUE, word |-> SubSeq(s, from, to),
                     rest |-> SubSeq(s, to + 1, Len(s))]

Places(s, chars) == {i \in DOMAIN s : s[i] \in chars}

\* The first place of s where one of chars stands, the first and the last one where
\* something else does; 0 when there is none.
FirstIn(s, chars)  == SelectInSeq(s, LAMBDA c : c \in chars)
FirstOut(s, chars) == SelectInSeq(s, LAMBDA c : c \notin chars)
LastOut(s, chars)  == SelectLastInSeq(s, LAMBDA c : c \notin chars)

StartsWith(s, c) == s # <<>> /\ s[1] = c

\* lmsrp_mess_check: the end of a line is a separator, too.
MessWord(s) ==
  IF s = <<>> THEN None ELSE GetStr(s, Places(s, {" ", ":", CR, LF}))

\* s without the blanks around it.
Strtrim(s) ==
  LET from == FirstOut(s, {" ", CR, LF})
      to   == LastOut(s, {" ", CR, LF})
  IN  IF from = 0 THEN <<>> ELSE SubSeq(s, from, to)

-----------------------------------------------------------------------------
(* Uris.                                                                   *)

UriWord(s) == GetStr(s, Places(s, {" ", ":", "/", "@", ";"}))

\* A part that is there only behind its mark.
Optional(mark, s) ==
  IF StartsWith(s, mark) THEN UriWord(s) ELSE [read |-> TRUE, word |-> <<>>, rest |-> s]

\* lmsrp_uri_prase
UriPrase(s) ==
  LET scheme    == UriWord(s)
      first     == UriWord(scheme.rest)
      named     == StartsWith(first.rest, "@")
      host      == IF named THEN UriWord(first.rest) ELSE first
      port      == Optional(":", host.rest)
      session   == Optional("/", port.rest)
      transport == Optional(";", session.rest)
  IN  [read |-> \A w \in {scheme, first, host, port, session, transport} : w.read,
       rest |-> transport.rest,
       uri  |-> [scheme |-> scheme.word, user |-> IF named THEN first.word ELSE <<>>,
                 host |-> host.word, port |-> Strtol(port.word),
                 session_id |-> session.word, transport |-> transport.word]]

\* lmsrp_list_uri_prase
ListUriPrase[s \in Seq(STRING)] ==
  LET u == UriPrase(s)
  IN  IF s = <<>> \/ ~u.read THEN <<>> ELSE <<u.uri>> \o ListUriPrase[u.rest]

\* lmsrp_uri_tostring
UriToString(u) ==
  <<" ">> \o u.scheme \o <<":", "/", "/">>
    \o (IF u.user # <<>> THEN u.user \o <<"@">> ELSE <<>>) \o u.host
    \o (IF u.port > 0 THEN <<":">> \o Decimal(u.port) ELSE <<>>)
    \o (IF u.session_id # <<>> THEN <<"/">> \o u.session_id ELSE <<>>)
    \o (IF u.transport # <<>> THEN <<";">> \o u.transport ELSE <<>>)

\* lmsrp_list_uri_tostring
ListUriToString(us) == FlattenSeq([i \in DOMAIN us |-> UriToString(us[i])])

-----------------------------------------------------------------------------
(* WWW-Authenticate and Authorization: a scheme and named values.          *)

Www  == {"realm", "nonce", "opaque", "algorithm", "domain", "qop"}
Auth == {"realm", "nonce", "opaque", "algorithm", "uri", "qop", "username", "nc",
         "cnonce", "response"}

Values(names)   == [gone : BOOLEAN, scheme : Seq(STRING), value : [names -> Seq(STRING)]]
NoValues(names) == [gone |-> FALSE, scheme |-> <<>>, value |-> [n \in names |-> <<>>]]

\* lmsrp_www_check and lmsrp_auth_check: between quotes only the quote ends a word.
\* quoted says how the text before s left it.
InQuotes(s, quoted, i) ==
  (Cardinality({j \in 1 .. i - 1 : s[j] = Quote}) % 2 = 1) # quoted

AuthWord(s, quoted) ==
  LET sep == {i \in DOMAIN s : \/ s[i] = Quote
                               \/ s[i] \in {",", " ", "="} /\ ~InQuotes(s, quoted, i)}
      w   == GetStr(s, sep)
  IN  [read |-> w.read, word |-> w.word, rest |-> w.rest,
       quoted |-> InQuotes(s, quoted, IF w.rest = <<>> THEN Len(s) + 1
                                      ELSE Len(s) - Len(w.rest) + 2)]

\* lmsrp_header_check_equal: is there a '=' before the next word?
CheckEqual(s) ==
  LET at == FirstOut(s, {" ", ",", "="})
  IN  [read |-> at # 0, equal |-> \E i \in 1 .. at - 1 : s[i] = "=",
       rest |-> IF at = 0 THEN <<>> ELSE SubSeq(s, at, Len(s))]

\* _lmsrp_set_pro and lmsrp_authorization_set_pro.  Names they do not know go to a
\* list that nothing reads; one they know and that has no value is copied from
\* NULL.
SetPro(h, name, value) ==
  CASE \E n \in DOMAIN h.value : name = <<n>> ->
         [h EXCEPT !.value[name[1]] = value]
    [] name = <<"Digest">> -> [h EXCEPT !.scheme = name]
    [] OTHER -> h

SetName(h, name) ==
  CASE \E n \in DOMAIN h.value : name = <<n>> -> [h EXCEPT !.gone = TRUE]
    [] name = <<"Digest">> -> [h EXCEPT !.scheme = name]
    [] OTHER -> h

\* Slip: the quote at the end of a value stays in front of the next name.
BehindKept(w) == w.rest

\* What follows a value: its closing quote is passed over.
Behind(w) == IF StartsWith(w.rest, Quote) THEN Tail(w.rest) ELSE w.rest

\* lmsrp_auth_common_prase
AuthCommonPrase(names, text) ==
  LET prase[x \in [head : Values(names), text : Seq(STRING), quoted : BOOLEAN]] ==
        LET name  == AuthWord(x.text, x.quoted)
            eq    == CheckEqual(name.rest)
            value == AuthWord(eq.rest, FALSE)
            alone == SetName(x.head, name.word)
            set   == SetPro(x.head, name.word, value.word)
        IN  CASE x.head.gone \/ ~name.read -> x.head
              [] ~x.head.gone /\ name.read /\ ~eq.read -> alone
              [] ~x.head.gone /\ name.read /\ eq.read /\ ~eq.equal ->
                   prase[[head |-> alone, text |-> eq.rest, quoted |-> FALSE]]
              [] OTHER ->
                   IF value.read
                     THEN prase[[head |-> set, text |-> Behind(value), quoted |-> value.quoted]]
                     ELSE set
  IN  prase[[head |-> NoValues(names), text |-> text, quoted |-> FALSE]]

WwwPrase(s)           == AuthCommonPrase(Www, s)
AuthorizationPrase(s) == AuthCommonPrase(Auth, s)

\* The values that are written without quotes.
Unquoted == {"qop", "domain", "nc"}

\* One value as it is written: all but the realm behind a comma.
Named(h, name) ==
  LET quote == IF name \in Unquoted THEN <<>> ELSE <<Quote>>
  IN  IF h.value[name] = <<>> THEN <<>>
        ELSE (IF name = "realm" THEN <<>> ELSE <<",">>)
               \o (<<name, "=">> \o (quote \o (h.value[name] \o quote)))

Scheme(h) == IF h.scheme = <<>> THEN <<>> ELSE h.scheme \o <<" ">>

InOrder(h, order) == Scheme(h) \o FlattenSeq([i \in DOMAIN order |-> Named(h, order[i])])

WwwOrder  == <<"realm", "algorithm", "nonce", "opaque", "qop", "domain">>
AuthOrder == <<"realm", "algorithm", "nc", "nonce", "cnonce", "opaque", "username",
               "response", "uri", "qop">>

\* lmsrp_www_h_to_string
WwwToString(h) == InOrder(h, WwwOrder)

\* lmsrp_authorization_header_to_string
AuthorizationToString(h) == InOrder(h, AuthOrder)

-----------------------------------------------------------------------------
(* The short headers.                                                      *)

RangeWord(s) == GetStr(s, Places(s, {" ", "/", "-", ":"}))

\* lmsrp_byte_range_prase; a number that is missing, and the star, are zero.
ByteRangePrase(s) ==
  LET start == RangeWord(s)
      end   == RangeWord(start.rest)
      total == RangeWord(end.rest)
  IN  [start |-> Strtol(start.word), end |-> Strtol(end.word), total |-> Strtol(total.word)]

Star(n) == IF n = 0 THEN <<"*">> ELSE Decimal(n)

ByteRangeToString(r) ==
  <<" ">> \o Star(r.start) \o <<"-">> \o Star(r.end) \o <<"/">> \o Star(r.total)

StatusWord(s) == GetStr(s, Places(s, {" ", ":"}))

\* lmsrp_status_h_prase: of the reason the first word.
StatusPrase(s) ==
  LET code   == StatusWord(s)
      rfc    == StatusWord(code.rest)
      reason == StatusWord(rfc.rest)
  IN  [code |-> Strtol(code.word), rfc_code |-> Strtol(rfc.word),
       reason |-> Strtrim(reason.word)]

StatusToString(h) ==
  <<" ", ":", " ">> \o Decimal(h.code) \o <<" ">> \o Decimal(h.rfc_code) \o <<" ">>
    \o (IF h.reason = <<>> THEN <<"report">> ELSE h.reason)

TypeWord(s) == GetStr(s, Places(s, {" ", "/", ":"}))

\* lmsrp_content_type_prase, with its list: a new entry is put behind the first.
ContentTypePrase(text) ==
  LET prase[x \in [list : Seq([name : Seq(STRING), value : Seq(STRING)]), text : Seq(STRING)]] ==
        LET name  == TypeWord(x.text)
            value == TypeWord(name.rest)
            entry == [name |-> name.word, value |-> value.word]
            more  == IF x.list = <<>> THEN <<entry>> ELSE InsertAt(x.list, 2, entry)
        IN  IF ~name.read \/ ~StartsWith(name.rest, "/") THEN x.list
              ELSE IF value.read THEN prase[[list |-> more, text |-> value.rest]] ELSE more
  IN  prase[[list |-> <<>>, text |-> text]]

\* lmsrp_content_type_to_string
ContentTypeToString(list) ==
  FlattenSeq([i \in DOMAIN list |-> <<" ">> \o list[i].name \o <<"/">> \o list[i].value])

\* lmsrp_info_prase: a request's method or an answer's code and reason.
InfoPrase(s) ==
  LET w == StatusWord(s)
  IN  IF Strtol(w.word) = 0
        THEN [method |-> w.word, code |-> 0, reason |-> <<>>]
        ELSE [method |-> <<>>, code |-> Strtol(w.word), reason |-> Strtrim(w.rest)]

InfoToString(info) ==
  IF info.code = 0 THEN info.method ELSE Decimal(info.code) \o <<" ">> \o info.reason

-----------------------------------------------------------------------------
(* Messages.                                                               *)

Paths    == {"to_path", "from_path", "use_path"}
Expiries == {"expries", "max_expries", "min_expries"}

\* The headers in the order lmsrp_mess_tostring writes them, and the names it gives
\* them: those of the three expiries are not the ones that are read.
Order ==
  <<"to_path", "from_path", "use_path", "status", "messid", "failure_report",
    "success_report", "expries", "max_expries", "min_expries", "byte_range", "www",
    "auth", "content_type">>

NameRead ==
  <<"To-Path", "From-Path", "Use-Path", "Status", "Message-ID", "Failure-Report",
    "Success-Report", "Expires", "Max-Expires", "Min-Expires", "Byte-Range",
    "WWW-Authenticate", "Authorization", "Content-Type">>

NameWritten ==
  <<"To-Path", "From-Path", "Use-Path", "Status", "Message-ID", "Failure-Report",
    "Success-Report", "Expries", "Max-Expries", "Min-Expries", "Byte-Range",
    "WWW-Authenticate", "Authorization", "Content-Type">>

\* The words that are written as they stand here; a prover has to be told that they
\* are strings.
Written ==
  Marks \cup Www \cup Auth \cup ToSet(NameWritten)
    \cup {"MSRP", "AUTH", "Digest", "MD5", "msrp", "msrps", "tcp", "report", "00000001", "0"}

ASSUME WrittenAssumption == \A word \in Written : word \in STRING

NoMess ==
  [tid |-> <<>>, info |-> [method |-> <<>>, code |-> 0, reason |-> <<>>],
   head |-> [f \in ToSet(Order) |-> {}], contend |-> <<>>, flag |-> "$"]

ValueToString(f, v) ==
  CASE f \in Paths         -> <<":">> \o ListUriToString(v)
    [] f = "status"        -> StatusToString(v)
    [] f \in Expiries      -> <<":", " ">> \o Decimal(v)
    [] f = "byte_range"    -> <<":">> \o ByteRangeToString(v)
    [] f = "www"           -> <<":", " ">> \o WwwToString(v)
    [] f = "auth"          -> <<":", " ">> \o AuthorizationToString(v)
    [] f = "content_type"  -> <<":">> \o ContentTypeToString(v)
    [] OTHER               -> <<":", " ">> \o v

HeaderLines(m, i) ==
  FlattenSeq(SetToSeq({<<NameWritten[i]>> \o ValueToString(Order[i], v) \o CRLF :
                         v \in m.head[Order[i]]}))

FirstLine(m) == <<"MSRP", " ">> \o m.tid \o <<" ">> \o InfoToString(m.info) \o CRLF

\* The contents and the end line.
Ending(m) ==
  (IF m.contend = <<>> THEN <<>> ELSE <<LF>> \o m.contend \o <<LF>>)
    \o (<<Dashes>> \o m.tid \o <<m.flag>> \o CRLF)

\* lmsrp_mess_tostring; nothing when there is no room for all of it.
MessToString(m, size) ==
  LET text == FirstLine(m) \o (FlattenSeq([i \in DOMAIN Order |-> HeaderLines(m, i)]) \o Ending(m))
  IN  IF Len(text) <= size THEN text ELSE <<>>

\* rm_colon
RmColon(s) ==
  LET at == FirstOut(s, {" "})
  IN  CASE at = 0 -> <<>>
        [] at # 0 /\ s[at] = ":" -> SubSeq(s, at + 1, Len(s))
        [] OTHER -> SubSeq(s, at, Len(s))

ValuePrase(f, s) ==
  LET w == MessWord(s).word
  IN  CASE f \in Paths        -> {ListUriPrase[s]}
        [] f = "status"       -> {StatusPrase(s)}
        [] f \in Expiries     -> {Strtol(w)} \ {0}
        [] f = "byte_range"   -> {ByteRangePrase(s)}
        [] f = "www"          -> {WwwPrase(s)}
        [] f = "auth"         -> {AuthorizationPrase(s)}
        [] f = "content_type" -> {ContentTypePrase(s)}
        [] OTHER              -> {w} \ {<<>>}

\* Slip: a second Message-ID takes the place of the first.
AlreadyButId(m, f) == f # "messid" /\ m.head[IF f = "auth" THEN "www" ELSE f] # {}

\* The header was there before.  For Authorization it is the challenge that is looked
\* for.
Already(m, f) == m.head[IF f = "auth" THEN "www" ELSE f] # {}

\* Where the name stands in the tables; 0 when it is no header's.
HeaderAt(name) == SelectInSeq(NameRead, LAMBDA n : name = <<n>>)

IsEndLine(m, name) ==
  /\ IsPrefix(<<Dashes>> \o m.tid, name)
  /\ Len(name) > 1 + Len(m.tid) /\ Last(name) \in Flags

\* lmsrp_mess_set_header: the messages after the line, none when it is refused.
SetHeader(m, name, s) ==
  LET i   == HeaderAt(name)
      tid == MessWord(s)
  IN  CASE name = <<"MSRP">> ->
             IF m.tid # <<>> THEN {}
               ELSE {[m EXCEPT !.tid = tid.word, !.info = InfoPrase(tid.rest)]}
        [] i # 0 ->
             IF Already(m, Order[i]) THEN {}
               ELSE {[m EXCEPT !.head[Order[i]] = ValuePrase(Order[i], s)]}
        [] OTHER -> IF IsEndLine(m, name) THEN {m} ELSE {}

\* lmsrp_check_end2: where the end line is; the id in it is not compared.
CheckEnd2(t) ==
  LET flag == LastOut(t, {" ", Quote, CR, LF})
  IN  IF flag = 0 \/ t[flag] \notin Flags
        THEN [vt |-> 0, flag |-> "$"]
        ELSE [vt |-> SelectLastInSubSeq(t, 1, flag, LAMBDA c : c = Dashes), flag |-> t[flag]]

\* The line up to its LF, without a CR in front of it, and the lines after it.
LineOf(s) ==
  LET lf   == FirstIn(s, {LF})
      line == IF lf = 0 THEN s ELSE SubSeq(s, 1, lf - 1)
  IN  [text |-> IF line # <<>> /\ Last(line) = CR THEN Front(line) ELSE line,
       after |-> IF lf = 0 THEN <<>> ELSE SubSeq(s, lf + 1, Len(s))]

\* An empty line ends the headers; or one that has a single character.
Blank(s) ==
  CASE StartsWith(s, LF) -> 1
    [] ~StartsWith(s, LF) /\ Len(s) > 1 /\ s[2] = LF -> 2
    [] OTHER -> 0

\* Line after line, up to an end line: their names and what follows them; and the
\* contents, which go up to the character before the end line, the last tail tokens
\* of the text.
Lines(text, tail) ==
  LET lines[s \in Seq(STRING)] ==
        LET name  == MessWord(s)
            line  == LineOf(name.rest)
            blank == Blank(line.after)
            this  == [name |-> name.word, text |-> RmColon(line.text)]
        IN  CASE ~name.read -> [all |-> <<>>, contend |-> <<>>]
              [] name.read /\ name.word[1] = Dashes -> [all |-> <<this>>, contend |-> <<>>]
              [] name.read /\ name.word[1] # Dashes /\ blank # 0 ->
                   [all |-> <<this>>,
                    contend |-> SubSeq(line.after, blank + 1, Len(line.after) - tail)]
              [] OTHER -> [lines[line.after] EXCEPT !.all = <<this>> \o @]
  IN  lines[text]

\* The messages after all of the lines, one after the other.
SetHeaders(ms, lines) ==
  LET set[n \in 0 .. Len(lines)] ==
        IF n = 0 THEN ms
          ELSE UNION {SetHeader(m, lines[n].name, lines[n].text) : m \in set[n - 1]}
  IN  set[Len(lines)]

\* lmsrp_mess_prase_from_buff: the message, or none.
MessPraseFromBuff(t) ==
  LET end   == CheckEnd2(t)
      lines == Lines(t, Len(t) - end.vt + 2)
  IN  IF end.vt = 0 THEN {}
        ELSE {[m EXCEPT !.contend = lines.contend] :
                m \in SetHeaders({[NoMess EXCEPT !.flag = end.flag]}, lines.all)}

=============================================================================
