---------------------------- MODULE MsrpContext ----------------------------
(***************************************************************************)
(* How messages are put together from packets: lmsrp_context_update        *)
(* (core/stream/lmsrp_ctx.c) and the stream parser lmsrp_stream_prase      *)
(* (core/prase/lmsrp_mess.c).  One thread runs both.  One call of          *)
(* _lmsrp_context_update2 is a Begin step, the steps of the parser, one    *)
(* for each header line and each place where an end line may be, and a     *)
(* Finish step.                                                            *)
(*                                                                         *)
(* A stream is a sequence of symbols.  A symbol stands for some octets the *)
(* parser does not tell apart, and packets are cut between symbols: a line *)
(* of headers is a word, CR and LF, an end line the dashes with the        *)
(* message's id, a flag, CR and LF.  Counts of octets are counts of        *)
(* symbols.                                                                *)
(***************************************************************************)
EXTENDS Integers, Sequences, SequencesExt

CONSTANTS
  Feeds,     \* [sent, cut]: messages a peer sends, how packets cut them
  MaxByte    \* ctx->max_byte, the size of ctx->tmp

VARIABLES
  feed,      \* the feed of this behaviour
  source,    \* symbols not arrived yet
  buff,      \* what lmsrp_context_update has still to look at of the packet
  state,     \* ctx->state
  tmp,       \* ctx->tmp, ctx->sum symbols of it
  dataRead,  \* ctx->data_read
  seen, tid, \* ctx->mess: the headers it has, its id (0: none)
  lent,      \* words of ctx->mess that lie in a packet, not in tmp
  slen,      \* ctx->mess->contend.slen
  pc,        \* where the call is
  copied,    \* cpy: what BeginMore put into tmp
  data, keep,\* the parser's data up to end, and its keep
  find,      \* the search for the end line
  ok,        \* *report
  exported   \* history: what ctx->export was called with

context == <<state, tmp, dataRead, seen, tid, lent, slen>>
parser  == <<data, keep, find>>
vars    == <<feed, source, buff, context, pc, copied, parser, ok, exported>>

(***************************************************************************)
(* Symbols and messages.                                                   *)
(***************************************************************************)
CR   == [kind |-> "cr", id |-> 0]
LF   == [kind |-> "lf", id |-> 0]
Flag == [kind |-> "flag", id |-> 0]      \* one of $ + #
Hdr  == [kind |-> "head", id |-> 0]      \* a header that may come once, a path
Mid  == [kind |-> "messid", id |-> 0]    \* a Message-ID, or one of the reports
Types == [kind |-> "types", id |-> 0]    \* a Content-Type with two entries, or none
Word == [kind |-> "word", id |-> 0]      \* anything else
Msrp(t) == [kind |-> "msrp", id |-> t]   \* "MSRP", the id and the method
Dash(t) == [kind |-> "dash", id |-> t]   \* "-------" and the id

\* As lmsrp_mess_tostring writes a message: contents only when there are any.
Text(m) ==
  <<Msrp(m.id), CR, LF>> \o FlattenSeq([i \in DOMAIN m.head |-> <<m.head[i], CR, LF>>])
    \o (IF m.body = <<>> THEN <<>> ELSE <<LF>> \o m.body \o <<LF>>)
    \o <<Dash(m.id), Flag, CR, LF>>

Headers == {Hdr, Mid, Types}

\* What follows the id in the first line: words of the message, too.
Method == [kind |-> "method", id |-> 0]

Symbol ==
  [kind : {"cr", "lf", "flag", "head", "messid", "types", "word", "msrp", "dash"},
   id : Nat]

\* The id 0 stands for none.
Sent == [id : Nat \ {0}, head : Seq(Symbol), body : Seq(Symbol)]

ASSUME ContextAssumption ==
  /\ MaxByte \in Nat
  /\ \A f \in Feeds : f.sent \in Seq(Sent) /\ f.cut \in {"one", "whole", "any"}

Stream(ms) == FlattenSeq([i \in DOMAIN ms |-> Text(ms[i])])

-----------------------------------------------------------------------------
(* Helpers of the parser.                                                  *)

Separator(s) == s \in {CR, LF}

Drop(s, n) == SubSeq(s, n + 1, Len(s))

IsWord(s) == ~Separator(s)
IsLF(s)   == s = LF

\* lmsrp_get_str: the word after the first separators, and where it ends.
WordEnd(d) ==
  LET e == SelectInSubSeq(d, SelectInSeq(d, IsWord), Len(d), Separator)
  IN  IF e = 0 THEN Len(d) ELSE e - 1

FirstWord(d) == SubSeq(d, SelectInSeq(d, IsWord), WordEnd(d))

\* find_CRLF: the end of the word's line; 0 when the line is not complete.
LineEnd(d) == SelectInSubSeq(d, WordEnd(d) + 1, Len(d), IsLF)

\* The empty line before the contents.
Blank(d) == IF d[1] = LF THEN 1 ELSE IF d[2] = LF THEN 2 ELSE 0

\* lmsrp_mess_set_header.  Without an id any end line is taken for an end.
IsEnd(w) ==
  /\ Len(w) >= 2 /\ w[1].kind = "dash" /\ (tid = 0 \/ w[1].id = tid)
  /\ w[Len(w)] = Flag
IsMsrp(w)   == Len(w) = 1 /\ w[1].kind = "msrp" /\ tid = 0
IsHeader(w) == Len(w) = 1 /\ w[1] \in Headers \ seen

\* tid: "\n-------" and the message's id, two symbols.
MarkerLen == 2
EolLen    == 2

\* pj_strstr(&find, &tid): the places of the marker in the part searched.
Markers ==
  {p \in find.at .. find.at + find.len - MarkerLen :
     /\ p + MarkerLen <= Len(data) /\ data[p + 1] = LF
     /\ data[p + 2].kind = "dash" /\ (tid = 0 \/ data[p + 2].id = tid)}

FirstMarker(p) == p \in Markers /\ \A q \in Markers : p <= q

-----------------------------------------------------------------------------
NoFind == [at |-> 0, len |-> 0, left |-> 0, all |-> FALSE]

\* lmsrp_context_init.
Init ==
  /\ feed \in Feeds /\ source = Stream(feed.sent)
  /\ buff = <<>>
  /\ state = "done" /\ tmp = <<>> /\ dataRead = 0
  /\ seen = {} /\ tid = 0 /\ lent = {} /\ slen = 0
  /\ pc = "idle" /\ copied = 0 /\ data = <<>> /\ keep = 0 /\ find = NoFind
  /\ ok = TRUE /\ exported = <<>>

\* The place p of the stream is inside a message without contents.
InsideBare(p) ==
  \E i \in DOMAIN feed.sent :
    LET first == Len(Stream(SubSeq(feed.sent, 1, i - 1)))
    IN  feed.sent[i].body = <<>> /\ first < p /\ p < first + Len(Text(feed.sent[i]))

\* Where the network may end a packet: "one" symbol at a time, as test_prase.c
\* feeds the context; anywhere but inside a message without contents; anywhere.
MayCut(n) ==
  CASE feed.cut = "one"   -> n = 1
    [] feed.cut = "whole" -> ~InsideBare(Len(Stream(feed.sent)) - Len(source) + n)
    [] feed.cut = "any"   -> TRUE

\* lmsrp_context_update is called with the next packet.
Update(n) ==
  /\ pc = "idle" /\ buff = <<>>
  /\ MayCut(n)
  /\ buff' = SubSeq(source, 1, n) /\ source' = Drop(source, n)
  /\ UNCHANGED <<feed, context, pc, copied, parser, ok, exported>>

-----------------------------------------------------------------------------
(* _lmsrp_context_update2, until it calls the parser.                      *)

\* Nothing is pending: a new message, parsed where it lies.
BeginFresh ==
  /\ pc = "idle" /\ buff # <<>> /\ state = "done"
  /\ state' = "unknow" /\ tmp' = <<>> /\ dataRead' = 0
  /\ seen' = {} /\ tid' = 0 /\ lent' = {} /\ slen' = 0
  /\ pc' = "parse" /\ copied' = 0 /\ data' = buff /\ keep' = 0
  /\ UNCHANGED <<feed, source, buff, find, ok, exported>>

\* Slip: the room left in tmp is not looked at.
CopyLenAll == Len(buff)

\* cpy: what fits into tmp.
CopyLen == LET room == MaxByte - Len(tmp)
           IN  IF room > Len(buff) THEN Len(buff) ELSE room

\* More of the pending message is put behind what tmp has of it.
BeginMore ==
  /\ pc = "idle" /\ buff # <<>> /\ state # "done" /\ CopyLen > 0
  /\ tmp' = tmp \o SubSeq(buff, 1, CopyLen)
  /\ data' = Drop(tmp', dataRead) /\ keep' = 0
  /\ pc' = "parse" /\ copied' = CopyLen
  /\ UNCHANGED <<feed, source, buff, state, dataRead, seen, tid, lent, slen, find, ok,
                 exported>>

\* tmp is full: the message is given up.
OverData ==
  /\ pc = "idle" /\ buff # <<>> /\ state # "done" /\ CopyLen <= 0
  /\ state' = "done" /\ ok' = FALSE
  /\ buff' = Drop(buff, dataRead)
  /\ UNCHANGED <<feed, source, tmp, dataRead, seen, tid, lent, slen, pc, copied, parser,
                 exported>>

-----------------------------------------------------------------------------
(* lmsrp_stream_prase.                                                     *)

Return(result) == ok' = result /\ pc' = "return"

callFrame == <<feed, source, buff, tmp, copied, exported>>

\* The parser goes on where the last packet left it.
Enter ==
  /\ pc = "parse"
  /\ CASE state = "content" -> pc' = "content" /\ UNCHANGED <<state, data, keep, ok>>
       [] state # "content" /\ Len(data) < 2 ->
            Return(TRUE) /\ UNCHANGED <<state, data, keep>>
       [] state = "header" /\ Len(data) >= 2 /\ Blank(data) > 0 ->
            /\ state' = "content" /\ pc' = "content"
            /\ data' = Drop(data, Blank(data)) /\ keep' = Blank(data)
            /\ UNCHANGED ok
       [] OTHER -> pc' = "line" /\ UNCHANGED <<state, data, keep, ok>>
  /\ UNCHANGED <<dataRead, seen, tid, lent, slen, find, callFrame>>

\* Nothing but separators: what follows is taken for contents.
LineNoWord ==
  /\ pc = "line" /\ SelectInSeq(data, IsWord) = 0
  /\ state' = "content" /\ pc' = "content"
  /\ UNCHANGED <<dataRead, seen, tid, lent, slen, parser, ok, callFrame>>

Wordy == pc = "line" /\ SelectInSeq(data, IsWord) > 0

\* The line is not complete: it waits for more.
LineCut ==
  /\ Wordy /\ LineEnd(data) = 0
  /\ dataRead' = dataRead + keep
  /\ Return(TRUE)
  /\ UNCHANGED <<state, seen, tid, lent, slen, parser, callFrame>>

\* Slip: what is refused does not count as read.
RefusedAtNothing == dataRead + keep

RefusedAt == dataRead + keep + WordEnd(data)

\* A header that came before, or one nobody knows.
LineRefused ==
  /\ Wordy /\ LineEnd(data) > 0
  /\ LET w == FirstWord(data) IN ~IsMsrp(w) /\ ~IsHeader(w) /\ ~IsEnd(w)
  /\ dataRead' = RefusedAt
  /\ Return(FALSE)
  /\ UNCHANGED <<state, seen, tid, lent, slen, parser, callFrame>>

\* A header: the next line follows, or the contents, or the next packet.
LineHeader ==
  /\ Wordy /\ LineEnd(data) > 0
  /\ LET w == FirstWord(data)
         n == LineEnd(data)
         d == Drop(data, n)
         b == IF Len(d) < 2 THEN 0 ELSE Blank(d)
     IN  /\ \/ IsMsrp(w) /\ tid' = w[1].id /\ seen' = seen
            \/ IsHeader(w) /\ seen' = seen \cup {w[1]} /\ tid' = tid
         /\ lent' = IF copied > 0 THEN lent
                      ELSE lent \cup {IF IsMsrp(w) THEN Method ELSE w[1]}
         /\ state' = IF b > 0 THEN "content" ELSE IF IsMsrp(w) THEN "mess" ELSE "header"
         /\ data' = Drop(d, b) /\ keep' = keep + n + b
         /\ IF Len(d) < 2
              THEN Return(TRUE) /\ dataRead' = dataRead + keep'
              ELSE /\ pc' = IF b > 0 THEN "content" ELSE "line"
                   /\ UNCHANGED <<ok, dataRead>>
  /\ UNCHANGED <<slen, find, callFrame>>

\* The end line of a message without contents.  Blanks that follow it are read
\* but for the last; fewer than two, and the message is refused.
LineEndLine ==
  /\ Wordy /\ LineEnd(data) > 0 /\ IsEnd(FirstWord(data))
  /\ LET n == LineEnd(data)
         d == Drop(data, n)
         w == SelectInSeq(d, IsWord)
         i == IF w = 0 THEN Len(d) ELSE w - 1
     IN  /\ dataRead' = dataRead + keep + n + i - 1
         /\ Return(i >= 2)
  /\ state' = "done"
  /\ UNCHANGED <<seen, tid, lent, slen, parser, callFrame>>

\* CONTENT: the search starts where it ended last time.
Content ==
  /\ pc = "content"
  /\ find' = [at |-> slen, len |-> Len(data) - slen, left |-> Len(data),
              all |-> slen + Len(data) > MaxByte]
  /\ pc' = "find"
  /\ UNCHANGED <<context, data, keep, ok, callFrame>>

\* Slip: a marker that begins in this packet and ends in the next is missed.
SearchedAll == find.left

\* A marker may begin in the last symbols.
Searched == LET n == find.left - (MarkerLen - 1) IN IF n < 0 THEN 0 ELSE n

NoMarker ==
  /\ pc = "find" /\ Markers = {} /\ ~find.all
  /\ slen' = Searched
  /\ dataRead' = dataRead + keep
  /\ Return(TRUE)
  /\ UNCHANGED <<state, seen, tid, lent, parser, callFrame>>

\* No marker and too many contents: data_read gets the difference of a null
\* pointer and data.  What is read after that is anyone's guess, or the process
\* is gone.
Garbage ==
  /\ pc = "find" /\ Markers = {} /\ find.all
  /\ \/ \E n \in 1 .. Len(buff) : dataRead' = n /\ Return(FALSE)
     \/ pc' = "gone" /\ UNCHANGED <<dataRead, ok>>
  /\ UNCHANGED <<state, seen, tid, lent, slen, parser, callFrame>>

\* The flag and the end of the line are not there yet.
MarkerCut ==
  /\ pc = "find"
  /\ \E p \in Markers :
       /\ FirstMarker(p) /\ find.left - p - MarkerLen < 1 + EolLen
       /\ IF find.all
            THEN Return(FALSE) /\ UNCHANGED <<slen, dataRead>>
            ELSE slen' = p /\ dataRead' = dataRead + keep /\ Return(TRUE)
  /\ UNCHANGED <<state, seen, tid, lent, parser, callFrame>>

IsFlag(p) == tid # 0 /\ data[p + MarkerLen + 1] = Flag
IsEol(p)  == SubSeq(data, p + MarkerLen + 2, p + MarkerLen + 3) = <<CR, LF>>

\* A marker without a flag or without the end of a line: contents.  The code
\* takes the place found away from what is left once more for every marker.
MarkerFalse ==
  /\ pc = "find"
  /\ \E p \in Markers :
       /\ FirstMarker(p) /\ find.left - p - MarkerLen >= 1 + EolLen
       /\ ~(IsFlag(p) /\ IsEol(p))
       /\ LET n == p + MarkerLen + (IF IsFlag(p) THEN 1 + EolLen ELSE 1)
          IN  find' = [find EXCEPT !.at = n, !.len = @ - n, !.left = @ - p]
  /\ UNCHANGED <<context, pc, data, keep, ok, callFrame>>

\* The end line of a message with contents.
MarkerEnd ==
  /\ pc = "find"
  /\ \E p \in Markers :
       /\ FirstMarker(p) /\ find.left - p - MarkerLen >= 1 + EolLen
       /\ IsFlag(p) /\ IsEol(p)
       /\ slen' = p
       /\ dataRead' = dataRead + keep + p + MarkerLen + 1 + EolLen
  /\ state' = "done"
  /\ Return(TRUE)
  /\ UNCHANGED <<seen, tid, lent, parser, callFrame>>

Prase ==
  \/ Enter \/ LineNoWord \/ LineCut \/ LineRefused \/ LineHeader \/ LineEndLine
  \/ Content \/ NoMarker \/ Garbage \/ MarkerCut \/ MarkerFalse \/ MarkerEnd

-----------------------------------------------------------------------------
(* _lmsrp_context_update2, after the parser.                               *)

Complete == ok /\ state = "done"

\* Slip: the rest of tmp counts as used.
UsedCopyAll == copied

\* The rest of tmp belongs to the next message: it is read again.
UsedCopy == copied - (Len(tmp) - dataRead)

\* What the call returns, how much of the packet it used.  After a refusal it is
\* the count of what was read of the message, in this packet or in earlier ones.
Used ==
  CASE ~ok                        -> dataRead
    [] Complete /\ copied = 0     -> dataRead
    [] Complete /\ copied > 0     -> UsedCopy
    [] ok /\ state # "done" /\ copied = 0 ->
         IF Len(buff) > MaxByte THEN dataRead ELSE Len(buff)
    [] ok /\ state # "done" /\ copied > 0 -> copied

\* A pending message began in this packet, and tmp can keep it.
Kept == ok /\ state # "done" /\ copied = 0 /\ Len(buff) <= MaxByte

\* Slip: the words stay in the packet.
ChangePointNone == lent

\* The words that lie in the packet lie in tmp now: the id, the contents, and these.
ChangePoint == lent \ {Hdr, Types}

\* Its loop over the entries of a Content-Type never gets past the second.
Hang ==
  /\ pc = "return" /\ Kept /\ Types \in lent
  /\ pc' = "gone"
  /\ UNCHANGED <<feed, source, buff, context, copied, parser, ok, exported>>

\* A complete message is exported.  What of it lies in a packet that was there
\* before this one is lost.
Message ==
  [id |-> tid, head |-> seen, body |-> SubSeq(data, 1, slen),
   lost |-> IF copied > 0 THEN lent ELSE {}]

\* With false end lines in the contents less than nothing of the packet may have been
\* used: the next call reads what lies before it.
Backwards ==
  /\ pc = "return" /\ Used < 0
  /\ exported' = Append(exported, Message)
  /\ pc' = "gone"
  /\ UNCHANGED <<feed, source, buff, context, copied, parser, ok>>

Finish ==
  /\ pc = "return" /\ ~(Kept /\ Types \in lent) /\ Used >= 0
  /\ exported' = IF Complete THEN Append(exported, Message) ELSE exported
  /\ tmp' = IF Kept THEN buff ELSE tmp
  /\ lent' = IF Kept THEN ChangePoint ELSE lent
  /\ state' = IF ok THEN state ELSE "done"
  /\ buff' = Drop(buff, Used)
  /\ pc' = "idle" /\ data' = <<>> /\ keep' = 0 /\ find' = NoFind /\ copied' = 0
  /\ UNCHANGED <<feed, source, dataRead, seen, tid, slen, ok>>

Update2 ==
  BeginFresh \/ BeginMore \/ OverData \/ Prase \/ Hang \/ Backwards \/ Finish

\* The stream has ended or the process is gone: the model stutters.
Terminating ==
  /\ pc = "gone" \/ (pc = "idle" /\ buff = <<>> /\ source = <<>>)
  /\ UNCHANGED vars

Next == Update2 \/ Terminating \/ \E n \in 1 .. Len(source) : Update(n)

\* The thread that parses is scheduled; packets come when they come.
Spec == Init /\ [][Next]_vars /\ WF_vars(Update2)

-----------------------------------------------------------------------------
(* Properties.                                                             *)

Export == [id : Nat, head : SUBSET Headers, body : Seq(Symbol),
           lost : SUBSET (Headers \cup {Method})]

\* Types; tmp never gets more than it has room for, and what was read of a
\* pending message is in it.
TypeOK ==
  /\ feed \in Feeds
  /\ source \in Seq(Symbol) /\ buff \in Seq(Symbol) /\ data \in Seq(Symbol)
  /\ state \in {"mess", "header", "content", "unknow", "done"}
  /\ tmp \in Seq(Symbol) /\ Len(tmp) <= MaxByte
  /\ dataRead \in Nat /\ slen \in Nat /\ keep \in Nat /\ tid \in Nat
  /\ seen \subseteq Headers /\ lent \subseteq seen \cup {Method}
  /\ pc \in {"idle", "parse", "line", "content", "find", "return", "gone"}
  /\ copied \in 0 .. MaxByte
  /\ ok \in BOOLEAN
  /\ exported \in Seq(Export)

\* The messages with contents, as the user's callback should see them.
WithBody ==
  FlattenSeq([i \in DOMAIN feed.sent |->
    LET m == feed.sent[i]
    IN  IF m.body = <<>> THEN <<>>
          ELSE <<[id |-> m.id, head |-> Range(m.head), body |-> m.body]>>])

Exported ==
  [i \in DOMAIN exported |->
     [id |-> exported[i].id, head |-> exported[i].head, body |-> exported[i].body]]

\* tmp has room for twice each message; messages with contents have headers the
\* parser knows, but no Content-Type with two entries, and not their own end line in
\* the contents: the sender of a message sees to that (the contents this library
\* sends are base64).
Fitting ==
  \A m \in Range(feed.sent) :
    /\ 2 * Len(Text(m)) <= MaxByte
    /\ m.body # <<>> => /\ m.head \in {<<Hdr>>, <<Hdr, Mid>>}
                        /\ Dash(m.id) \notin Range(m.body)

\* Messages with contents are exported unchanged, in order, none twice and none
\* left out, however packets cut the stream.
InOrder == Fitting => IsPrefix(Exported, WithBody)

\* The words of an exported message are there: those that lay in an earlier packet
\* were moved with it, all but the method and the headers change_point passes over.
WordsKept == Fitting => \A m \in Range(exported) : m.lost \subseteq {Method, Mid}

\* Once the stream has arrived, nothing is left behind in the context.
AllExported ==
  Fitting /\ pc = "idle" /\ buff = <<>> /\ source = <<>> =>
    Len(exported) = Len(WithBody)

\* The loop of lmsrp_context_update ends: every call uses some of the packet,
\* also when it refuses what it reads.
UpdateReturns == Fitting /\ buff # <<>> ~> buff = <<>>

-----------------------------------------------------------------------------
(* What the headers say and the code does not do.                          *)

\* ctx->data_read is the "number of data is prase in mess": of the message, not
\* of the packet.  After a refusal _lmsrp_context_update2 returns it as the part
\* of the packet that was used, and what follows a message without contents that
\* came in two packets is skipped with it.
NothingSkipped == InOrder /\ AllExported

=============================================================================
