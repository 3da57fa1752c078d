-------------------------- MODULE MsrpContextProofs --------------------------
(***************************************************************************)
(* Proofs about MsrpContext for every stream: the types, and that messages *)
(* with contents are put together unchanged and in order however packets   *)
(* cut the stream.                                                         *)
(***************************************************************************)
EXTENDS MsrpContext, SequenceLemmas

-----------------------------------------------------------------------------
(* Where the context is in a stream of messages with contents.             *)

AllBodies == \A m \in Range(feed.sent) : m.body # <<>>
Whole     == Stream(feed.sent)

\* How many symbols the first k messages are, those that were exported, and all that
\* arrived; the place of the first symbol of buff.
Place(k) == Len(Stream(SubSeq(feed.sent, 1, k)))
Start    == Place(Len(exported))
Arrived  == Len(Whole) - Len(source)
Behind   == Arrived - Len(buff)

\* The message that comes next, its symbols, and those before the empty line.
Current == feed.sent[Len(exported) + 1]
Id      == Current.id
Heads   == Range(Current.head)
Size    == Len(Text(Current))
HeadLen == 3 + 3 * Len(Current.head)
BodyLen == Len(Current.body)

\* What the parser's data is the end of, and how much of it was read.
Base == IF copied = 0 THEN buff ELSE tmp
Total == Len(Base)
Read == Total - Len(data)

StreamInv ==
  /\ Len(source) <= Len(Whole) /\ source = Part(Whole, Arrived, Len(Whole))
  /\ Len(buff) <= Arrived /\ buff = Part(Whole, Behind, Arrived)

\* What was exported is what was sent.
Faithful(e, m) ==
  /\ e.id = m.id /\ e.head = Range(m.head) /\ e.body = m.body
  /\ e.lost \subseteq {Method, Mid}

HistoryInv ==
  /\ Len(exported) <= Len(feed.sent)
  /\ \A i \in 1 .. Len(exported) : Faithful(exported[i], feed.sent[i])

\* The parser has read x symbols of the message.
Progress(x) ==
  \/ state = "unknow" /\ x = 0 /\ tid = 0 /\ seen = {} /\ slen = 0
  \/ state = "mess" /\ x = 3 /\ tid = Id /\ seen = {} /\ slen = 0
  \/ /\ state = "header" /\ x \in {6, HeadLen} /\ tid = Id /\ slen = 0
     /\ seen = IF x = 6 THEN {Hdr} ELSE {Hdr, Mid}
  \/ /\ state = "content" /\ x = HeadLen + 1 /\ tid = Id
     /\ seen = Heads /\ slen \in 0 .. BodyLen

\* Between two calls nothing is pending, or a part of the message is in tmp.
IdleInv ==
  pc = "idle" =>
    \/ state = "done" /\ Behind = Start
    \/ /\ state # "done" /\ Len(exported) < Len(feed.sent)
       /\ Behind = Start + Len(tmp) /\ tmp = Part(Whole, Start, Behind) /\ Len(tmp) < Size
       /\ dataRead <= Len(tmp) /\ Progress(dataRead)
       /\ lent \subseteq {Method, Mid}

\* In a call the parser's data is from the place it has come to.
CallInv ==
  pc # "idle" =>
    /\ Len(exported) < Len(feed.sent)
    /\ copied = 0 => Behind = Start /\ Len(buff) > 0
    /\ copied # 0 => /\ copied <= Len(tmp) /\ copied <= Len(buff)
                     /\ tmp = Part(Whole, Start, Start + Len(tmp))
                     /\ Behind = Start + Len(tmp) - copied /\ Len(tmp) - copied < Size
                     /\ lent \subseteq {Method, Mid}
    /\ Len(data) <= Total /\ data = Part(Whole, Start + Read, Start + Total)

ParseInv ==
  /\ pc \in {"idle", "parse", "line", "content", "find", "return"}
  /\ pc = "parse" => keep = 0 /\ Read = dataRead /\ Progress(Read)
  /\ pc = "line" => /\ Read = dataRead + keep /\ Progress(Read) /\ state # "content"
                    /\ Len(data) >= 2 /\ Read # HeadLen
  /\ pc \in {"content", "find"} =>
       Read = dataRead + keep /\ Progress(Read) /\ state = "content"
  /\ pc = "find" => find = [at |-> slen, len |-> Len(data) - slen, left |-> Len(data),
                            all |-> slen + Len(data) > MaxByte]
  /\ pc = "return" =>
       /\ ok
       /\ \/ state # "done" /\ dataRead = Read /\ Progress(Read) /\ Total < Size
          \/ /\ state = "done" /\ dataRead = Size /\ Size <= Total
             /\ Read = HeadLen + 1 /\ slen = BodyLen /\ tid = Id /\ seen = Heads

Fit  == Fitting /\ AllBodies
Good == StreamInv /\ HistoryInv /\ IdleInv /\ CallInv /\ ParseInv

GoodInv == Fit => Good

-----------------------------------------------------------------------------
(* Messages and the stream.                                                *)

\* Symbols of messages.
LEMMA SymbolTypes ==
  /\ CR \in Symbol /\ LF \in Symbol /\ Flag \in Symbol /\ Hdr \in Symbol
  /\ Mid \in Symbol /\ Types \in Symbol
  /\ \A t \in Nat : Msrp(t) \in Symbol /\ Dash(t) \in Symbol
BY DEF Symbol, CR, LF, Flag, Hdr, Mid, Types, Msrp, Dash

\* The lines of headers.
Lines(head) == [i \in DOMAIN head |-> <<head[i], CR, LF>>]

\* They are sequences of symbols, one for each header.
LEMMA LinesType ==
  ASSUME NEW head \in Seq(Symbol)
  PROVE  Lines(head) \in Seq(Seq(Symbol)) /\ Len(Lines(head)) = Len(head)
<1>1. Len(head) \in Nat /\ DOMAIN head = 1 .. Len(head)
  BY LenProperties
<1>2. \A i \in 1 .. Len(head) : <<head[i], CR, LF>> \in Seq(Symbol)
  <2> SUFFICES ASSUME NEW i \in 1 .. Len(head) PROVE <<head[i], CR, LF>> \in Seq(Symbol)
    OBVIOUS
  <2>1. head[i] \in Symbol /\ CR \in Symbol /\ LF \in Symbol
    BY ElementOfSeq, SymbolTypes
  <2> QED
    BY <2>1
<1>3. Lines(head) \in [1 .. Len(head) -> Seq(Symbol)]
  BY <1>1, <1>2 DEF Lines
<1> QED
  BY <1>1, <1>3

\* A message is written in symbols.
LEMMA TextType ==
  ASSUME NEW m \in Sent
  PROVE  Text(m) \in Seq(Symbol)
<1>1. m.id \in Nat /\ m.head \in Seq(Symbol) /\ m.body \in Seq(Symbol)
  BY DEF Sent
<1>2. <<Msrp(m.id), CR, LF>> \in Seq(Symbol)
  BY <1>1, SymbolTypes
<1>3. FlattenSeq(Lines(m.head)) \in Seq(Symbol)
  BY <1>1, LinesType, FlattenType
<1>4. <<Dash(m.id), Flag, CR, LF>> \in Seq(Symbol) /\ <<LF>> \in Seq(Symbol)
  BY <1>1, SymbolTypes
<1>5. (IF m.body = <<>> THEN <<>> ELSE <<LF>> \o m.body \o <<LF>>) \in Seq(Symbol)
  BY <1>1, <1>4, ConcatProperties, EmptySeq
<1> QED
  BY <1>2, <1>3, <1>4, <1>5, ConcatProperties DEF Text, Lines

Texts(ms) == [i \in DOMAIN ms |-> Text(ms[i])]

\* The stream is the texts of the messages one behind the other.
LEMMA TextsType ==
  ASSUME NEW ms \in Seq(Sent)
  PROVE  /\ Texts(ms) \in Seq(Seq(Symbol)) /\ Len(Texts(ms)) = Len(ms)
         /\ \A i \in 1 .. Len(ms) : Texts(ms)[i] = Text(ms[i])
         /\ Stream(ms) = FlattenSeq(Texts(ms)) /\ Stream(ms) \in Seq(Symbol)
<1>1. Len(ms) \in Nat /\ DOMAIN ms = 1 .. Len(ms)
  BY LenProperties
<1>2. \A i \in 1 .. Len(ms) : Text(ms[i]) \in Seq(Symbol)
  BY ElementOfSeq, TextType
<1>3. Texts(ms) \in [1 .. Len(ms) -> Seq(Symbol)]
  BY <1>1, <1>2 DEF Texts
<1>4. Texts(ms) \in Seq(Seq(Symbol)) /\ Len(Texts(ms)) = Len(ms)
  BY <1>1, <1>3
<1>5. Stream(ms) = FlattenSeq(Texts(ms))
  BY DEF Stream, Texts
<1> QED
  BY <1>1, <1>4, <1>5, FlattenType DEF Texts

\* The first messages of a stream.
LEMMA TextsFirst ==
  ASSUME NEW ms \in Seq(Sent), NEW k \in 0 .. Len(ms)
  PROVE  Len(Stream(SubSeq(ms, 1, k))) = Reach(Texts(ms), k)
<1> DEFINE p == SubSeq(ms, 1, k)
           q == SubSeq(Texts(ms), 1, k)
<1>1. Len(ms) \in Nat /\ k \in Nat /\ k <= Len(ms) /\ 1 \in Int /\ k \in Int
        /\ \A i \in 1 .. k : i \in 1 .. Len(ms) /\ i \in 1 .. k - 1 + 1 /\ 1 + i - 1 = i
  BY LenProperties
<1>2. /\ p \in Seq(Sent) /\ Len(p) = (IF 1 <= k THEN k - 1 + 1 ELSE 0)
      /\ \A i \in 1 .. k - 1 + 1 : p[i] = ms[1 + i - 1]
  <2>1. \A i \in 1 .. k : ms[i] \in Sent
    BY <1>1, ElementOfSeq
  <2> QED
    BY <1>1, <2>1, SubSeqProperties
<1>3. /\ q \in Seq(Seq(Symbol)) /\ Len(q) = (IF 1 <= k THEN k - 1 + 1 ELSE 0)
      /\ \A i \in 1 .. k - 1 + 1 : q[i] = Texts(ms)[1 + i - 1]
  <2>1. \A i \in 1 .. k : Texts(ms)[i] \in Seq(Symbol)
    BY <1>1, TextsType, ElementOfSeq
  <2> QED
    BY <1>1, <2>1, SubSeqProperties
<1> HIDE DEF p, q
<1>4. Len(p) = k /\ Len(q) = k
  BY <1>1, <1>2, <1>3
<1>5. \A i \in 1 .. k : p[i] = ms[i] /\ q[i] = Text(ms[i])
  BY <1>1, <1>2, <1>3, TextsType
<1>6. Texts(p) = q
  <2>1. /\ Texts(p) \in Seq(Seq(Symbol)) /\ Len(Texts(p)) = k
        /\ \A i \in 1 .. k : Texts(p)[i] = Text(p[i])
    BY <1>2, <1>4, TextsType
  <2> QED
    BY <1>3, <1>4, <1>5, <2>1, SeqEqual
<1> QED
  BY <1>2, <1>6, TextsType DEF p, q, Reach

\* The lines of the headers that Fitting allows.
LEMMA LinesShape ==
  ASSUME NEW head \in {<<Hdr>>, <<Hdr, Mid>>}
  PROVE  LET w == FlattenSeq(Lines(head))
         IN  /\ head \in Seq(Symbol) /\ Len(head) \in {1, 2} /\ w \in Seq(Symbol)
             /\ Len(w) = 3 * Len(head)
             /\ w[1] = Hdr /\ w[2] = CR /\ w[3] = LF
             /\ Len(head) = 2 => w[4] = Mid /\ w[5] = CR /\ w[6] = LF
             /\ Range(head) = IF Len(head) = 1 THEN {Hdr} ELSE {Hdr, Mid}
<1> DEFINE ss == Lines(head)
           w  == FlattenSeq(ss)
<1>1. head \in Seq(Symbol) /\ Len(head) \in {1, 2} /\ head[1] = Hdr
        /\ (Len(head) = 2 => head[2] = Mid)
  <2>1. CASE head = <<Hdr>>
    <3>1. <<Hdr>> \in Seq(Symbol) /\ Len(<<Hdr>>) = 1 /\ <<Hdr>>[1] = Hdr
      BY SymbolTypes
    <3> QED
      BY <2>1, <3>1
  <2>2. CASE head = <<Hdr, Mid>>
    <3>1. /\ <<Hdr, Mid>> \in Seq(Symbol) /\ Len(<<Hdr, Mid>>) = 2
          /\ <<Hdr, Mid>>[1] = Hdr /\ <<Hdr, Mid>>[2] = Mid
      BY SymbolTypes
    <3> QED
      BY <2>2, <3>1
  <2> QED
    BY <2>1, <2>2
<1>2. ss \in Seq(Seq(Symbol)) /\ Len(ss) = Len(head)
  BY <1>1, LinesType
<1>3. At(ss, 1) = <<Hdr, CR, LF>> /\ (Len(head) = 2 => At(ss, 2) = <<Mid, CR, LF>>)
  <2>1. DOMAIN head = 1 .. Len(head)
    BY <1>1, LenProperties
  <2> QED
    BY <1>1, <2>1 DEF Lines, At
<1> HIDE DEF ss
<1>4. PICK f : Joins(f, ss, Symbol)
  BY <1>2, JoinsExist
<1>5. w = At(f, Len(ss)) /\ w \in Seq(Symbol)
  BY <1>2, <1>4, FlattenLemma, FlattenType DEF At
<1>6. At(f, 0) = <<>> /\ Len(<<>>) = 0
  BY <1>4 DEF Joins, At
<1>7. /\ Len(At(f, 1)) = Len(At(f, 0)) + Len(At(ss, 1))
      /\ \A j \in 1 .. Len(At(ss, 1)) : At(f, 1)[Len(At(f, 0)) + j] = At(ss, 1)[j]
  <2>1. 0 \in 0 .. Len(ss) /\ 1 \in 1 .. Len(ss) /\ 1 = 0 + 1
    BY <1>1, <1>2
  <2> QED
    BY <1>2, <1>4, <2>1, JoinsStep
<1> DEFINE u == At(f, 1)
<1> HIDE DEF w
<1>8. Len(u) = 3 /\ u[1] = Hdr /\ u[2] = CR /\ u[3] = LF
  <2>1. Len(At(ss, 1)) = 3 /\ Len(At(f, 0)) = 0
    BY <1>3, <1>6
  <2>2. Len(u) = 0 + 3 /\ \A j \in 1 .. 3 : u[0 + j] = <<Hdr, CR, LF>>[j]
    BY <1>3, <1>7, <2>1
  <2> HIDE DEF u
  <2>3. u[0 + 1] = Hdr /\ u[0 + 2] = CR /\ u[0 + 3] = LF
    BY <2>2
  <2> QED
    BY <2>2, <2>3
<1>9. CASE Len(head) = 1
  <2>1. w = u
    BY <1>2, <1>5, <1>9
  <2>2. Range(head) = {Hdr}
    BY <1>1, <1>9, RangeEquality
  <2> HIDE DEF u
  <2> QED
    BY <1>1, <1>5, <1>8, <1>9, <2>1, <2>2 DEF w, ss
<1>10. CASE Len(head) = 2
  <2>1. /\ Len(At(f, 2)) = Len(u) + Len(At(ss, 2))
        /\ \A j \in 1 .. Len(u) : At(f, 2)[j] = u[j]
        /\ \A j \in 1 .. Len(At(ss, 2)) : At(f, 2)[Len(u) + j] = At(ss, 2)[j]
    <3>1. 1 \in 0 .. Len(ss) /\ 2 \in 1 .. Len(ss) /\ 2 = 1 + 1
      BY <1>2, <1>10
    <3> QED
      BY <1>2, <1>4, <3>1, JoinsStep
  <2> HIDE DEF u
  <2>2. At(f, 2) = w /\ Len(At(ss, 2)) = 3 /\ Len(u) = 3
    BY <1>2, <1>3, <1>5, <1>8, <1>10
  <2>3. /\ Len(w) = 3 + 3
        /\ \A j \in 1 .. 3 : w[j] = u[j]
        /\ \A j \in 1 .. 3 : w[3 + j] = <<Mid, CR, LF>>[j]
    BY <1>3, <1>10, <2>1, <2>2
  <2>4. /\ w[1] = Hdr /\ w[2] = CR /\ w[3] = LF
        /\ w[3 + 1] = Mid /\ w[3 + 2] = CR /\ w[3 + 3] = LF
    BY <1>8, <2>3
  <2>5. Range(head) = {Hdr, Mid}
    BY <1>1, <1>10, RangeEquality
  <2> QED
    BY <1>1, <1>5, <1>10, <2>3, <2>4, <2>5 DEF w, ss
<1> QED
  BY <1>1, <1>9, <1>10

\* u is s and then t.
Follows(u, s, t) ==
  /\ Len(u) = Len(s) + Len(t)
  /\ \A i \in 1 .. Len(s) : u[i] = s[i]
  /\ \A i \in 1 .. Len(t) : u[Len(s) + i] = t[i]

\* Two sequences one behind the other are in each other's place.
LEMMA ConcatAt ==
  ASSUME NEW S, NEW s \in Seq(S), NEW t \in Seq(S)
  PROVE  s \o t \in Seq(S) /\ Follows(s \o t, s, t)
<1>1. Len(s) \in Nat /\ Len(t) \in Nat
  BY LenProperties
<1>2. /\ s \o t \in Seq(S) /\ Len(s \o t) = Len(s) + Len(t)
      /\ \A i \in 1 .. Len(s) + Len(t) :
           (s \o t)[i] = IF i <= Len(s) THEN s[i] ELSE t[i - Len(s)]
  BY ConcatProperties
<1>3. \A i \in 1 .. Len(s) : i \in 1 .. Len(s) + Len(t) /\ i <= Len(s)
  BY <1>1
<1>4. \A i \in 1 .. Len(t) : /\ Len(s) + i \in 1 .. Len(s) + Len(t)
                             /\ ~(Len(s) + i <= Len(s)) /\ Len(s) + i - Len(s) = i
  BY <1>1
<1>5. \A i \in 1 .. Len(t) : (s \o t)[Len(s) + i] = t[i]
  <2> SUFFICES ASSUME NEW i \in 1 .. Len(t) PROVE (s \o t)[Len(s) + i] = t[i]
    OBVIOUS
  <2> QED
    BY <1>2, <1>4
<1> QED
  BY <1>1, <1>2, <1>3, <1>5 DEF Follows

\* t is a, w, l, y, l and e, as Text has them.
TextParts(t, a, w, l, y, e, h, n) ==
  /\ Len(t) = h + n + 6
  /\ \A i \in 1 .. 3 : t[i] = a[i]
  /\ \A i \in 1 .. h - 3 : t[3 + i] = w[i]
  /\ t[h + 1] = l[1] /\ t[h + n + 2] = l[1]
  /\ \A i \in 1 .. n : t[h + 1 + i] = y[i]
  /\ \A i \in 1 .. 4 : t[h + n + 2 + i] = e[i]

\* Where the five parts of a text begin.
LEMMA PartsAt ==
  ASSUME NEW S, NEW a \in Seq(S), NEW w \in Seq(S), NEW l \in Seq(S), NEW y \in Seq(S),
         NEW e \in Seq(S), NEW h \in Nat, NEW n \in Nat,
         Len(a) = 3, h = 3 + Len(w), Len(l) = 1, Len(y) = n, Len(e) = 4
  PROVE  LET t == ((a \o w) \o ((l \o y) \o l)) \o e
         IN  t \in Seq(S) /\ TextParts(t, a, w, l, y, e, h, n)
<1> DEFINE p == a \o w
           c == l \o y
           b == c \o l
           d == p \o b
           t == d \o e
<1>1. p \in Seq(S) /\ Follows(p, a, w)
  BY ConcatAt
<1>2. c \in Seq(S) /\ Follows(c, l, y)
  BY ConcatAt
<1> HIDE DEF p, c
<1>3. b \in Seq(S) /\ Follows(b, c, l)
  BY <1>2, ConcatAt
<1> HIDE DEF b
<1>4. d \in Seq(S) /\ Follows(d, p, b)
  BY <1>1, <1>3, ConcatAt
<1> HIDE DEF d
<1>5. t \in Seq(S) /\ Follows(t, d, e)
  BY <1>4, ConcatAt
<1> HIDE DEF t
<1>6. Len(w) = h - 3 /\ Len(w) \in Nat /\ h >= 3
  BY LenProperties
<1>7. /\ Len(p) = h /\ Len(c) = 1 + n /\ Len(b) = n + 2
      /\ Len(d) = h + n + 2 /\ Len(t) = h + n + 6
  BY <1>1, <1>2, <1>3, <1>4, <1>5, <1>6 DEF Follows
<1>8. /\ \A i \in 1 .. h + n + 2 : t[i] = d[i]
      /\ \A i \in 1 .. 4 : t[h + n + 2 + i] = e[i]
      /\ \A i \in 1 .. h : d[i] = p[i]
      /\ \A i \in 1 .. n + 2 : d[h + i] = b[i]
      /\ \A i \in 1 .. 1 + n : b[i] = c[i]
      /\ \A i \in 1 .. 1 : b[1 + n + i] = l[i]
      /\ \A i \in 1 .. 1 : c[i] = l[i]
      /\ \A i \in 1 .. n : c[1 + i] = y[i]
      /\ \A i \in 1 .. 3 : p[i] = a[i]
      /\ \A i \in 1 .. h - 3 : p[3 + i] = w[i]
  <2>1. \A i \in 1 .. h + n + 2 : t[i] = d[i]
    BY <1>5, <1>7, Zenon DEF Follows
  <2>2. \A i \in 1 .. 4 : t[h + n + 2 + i] = e[i]
    BY <1>5, <1>7, Zenon DEF Follows
  <2>3. \A i \in 1 .. h : d[i] = p[i]
    BY <1>4, <1>7, Zenon DEF Follows
  <2>4. \A i \in 1 .. n + 2 : d[h + i] = b[i]
    BY <1>4, <1>7, Zenon DEF Follows
  <2>5. \A i \in 1 .. 1 + n : b[i] = c[i]
    BY <1>3, <1>7, Zenon DEF Follows
  <2>6. \A i \in 1 .. 1 : b[1 + n + i] = l[i]
    BY <1>3, <1>7, Zenon DEF Follows
  <2>7. \A i \in 1 .. 1 : c[i] = l[i]
    BY <1>2, <1>7, Zenon DEF Follows
  <2>8. \A i \in 1 .. n : c[1 + i] = y[i]
    BY <1>2, <1>7, Zenon DEF Follows
  <2>9. \A i \in 1 .. 3 : p[i] = a[i]
    BY <1>1, <1>7, Zenon DEF Follows
  <2>10. \A i \in 1 .. h - 3 : p[3 + i] = w[i]
    BY <1>1, <1>6, <1>7, Zenon DEF Follows
  <2> QED
    BY <2>1, <2>2, <2>3, <2>4, <2>5, <2>6, <2>7, <2>8, <2>9, <2>10, Zenon
<1>9. \A i \in 1 .. h : t[i] = p[i]
  <2> SUFFICES ASSUME NEW i \in 1 .. h PROVE t[i] = p[i]
    OBVIOUS
  <2>1. i \in 1 .. h + n + 2
    OBVIOUS
  <2> QED
    BY <1>8, <2>1
<1>10. \A i \in 1 .. n + 2 : t[h + i] = b[i]
  <2> SUFFICES ASSUME NEW i \in 1 .. n + 2 PROVE t[h + i] = b[i]
    OBVIOUS
  <2>1. h + i \in 1 .. h + n + 2
    OBVIOUS
  <2> QED
    BY <1>8, <2>1, Zenon
<1>11. \A i \in 1 .. 3 : t[i] = a[i]
  <2>1. \A i \in 1 .. 3 : i \in 1 .. h
    BY <1>6
  <2> QED
    BY <1>8, <1>9, <2>1
<1>12. \A i \in 1 .. h - 3 : t[3 + i] = w[i]
  <2> SUFFICES ASSUME NEW i \in 1 .. h - 3 PROVE t[3 + i] = w[i]
    OBVIOUS
  <2>1. 3 + i \in 1 .. h
    BY <1>6
  <2> QED
    BY <1>8, <1>9, <2>1, Zenon
<1>13. b[1] = l[1] /\ b[n + 2] = l[1]
  <2>1. 1 \in 1 .. 1 + n /\ 1 \in 1 .. 1 /\ n + 2 = 1 + n + 1
    OBVIOUS
  <2>2. b[1] = c[1] /\ c[1] = l[1] /\ b[1 + n + 1] = l[1]
    BY <1>8, <2>1, Zenon
  <2> QED
    BY <2>1, <2>2
<1>14. t[h + 1] = l[1] /\ t[h + n + 2] = l[1]
  <2>1. 1 \in 1 .. n + 2 /\ n + 2 \in 1 .. n + 2 /\ h + (n + 2) = h + n + 2
    OBVIOUS
  <2>2. t[h + 1] = b[1] /\ t[h + (n + 2)] = b[n + 2]
    BY <1>10, <2>1, Zenon
  <2> QED
    BY <1>13, <2>1, <2>2
<1>15. \A i \in 1 .. n : t[h + 1 + i] = y[i]
  <2> SUFFICES ASSUME NEW i \in 1 .. n PROVE t[h + 1 + i] = y[i]
    OBVIOUS
  <2>1. 1 + i \in 1 .. n + 2 /\ 1 + i \in 1 .. 1 + n /\ h + (1 + i) = h + 1 + i
    OBVIOUS
  <2>2. t[h + (1 + i)] = b[1 + i] /\ b[1 + i] = c[1 + i] /\ c[1 + i] = y[i]
    BY <1>8, <1>10, <2>1, Zenon
  <2> QED
    BY <2>1, <2>2
<1> QED
  BY <1>5, <1>7, <1>8, <1>11, <1>12, <1>14, <1>15 DEF TextParts, t, d, b, c, p

\* A message m with contents, symbol by symbol: h of them are its first line and its
\* headers, n its contents.
Shape(t, m, h, n) ==
  /\ t \in Seq(Symbol) /\ n \in Nat /\ n > 0 /\ h \in {6, 9}
  /\ Len(t) = h + n + 6
  /\ t[1] = Msrp(m.id) /\ t[2] = CR /\ t[3] = LF
  /\ t[4] = Hdr /\ t[5] = CR /\ t[6] = LF
  /\ h = 9 => t[7] = Mid /\ t[8] = CR /\ t[9] = LF
  /\ t[h + 1] = LF /\ \A i \in 1 .. n : t[h + 1 + i] = m.body[i]
  /\ t[h + n + 2] = LF /\ t[h + n + 3] = Dash(m.id) /\ t[h + n + 4] = Flag
  /\ t[h + n + 5] = CR /\ t[h + n + 6] = LF
  /\ Range(m.head) = IF h = 6 THEN {Hdr} ELSE {Hdr, Mid}

\* Where the lines of a written message stand.
LEMMA TextShape ==
  ASSUME NEW m \in Sent, m.body # <<>>, m.head \in {<<Hdr>>, <<Hdr, Mid>>}
  PROVE  Shape(Text(m), m, 3 + 3 * Len(m.head), Len(m.body))
<1> DEFINE a == <<Msrp(m.id), CR, LF>>
           w == FlattenSeq(Lines(m.head))
           y == m.body
           l == <<LF>>
           e == <<Dash(m.id), Flag, CR, LF>>
           k == Len(m.head)
           h == 3 + 3 * k
           n == Len(y)
           t == Text(m)
<1>1. m.id \in Nat /\ y \in Seq(Symbol) /\ n \in Nat /\ n > 0
  <2>1. m.id \in Nat /\ y \in Seq(Symbol)
    BY DEF Sent
  <2> QED
    BY <2>1, EmptySeq, LenProperties
<1>2. /\ k \in {1, 2} /\ w \in Seq(Symbol) /\ Len(w) = 3 * k
      /\ w[1] = Hdr /\ w[2] = CR /\ w[3] = LF
      /\ k = 2 => w[4] = Mid /\ w[5] = CR /\ w[6] = LF
      /\ Range(m.head) = IF k = 1 THEN {Hdr} ELSE {Hdr, Mid}
  BY LinesShape
<1>3. /\ a \in Seq(Symbol) /\ Len(a) = 3 /\ a[1] = Msrp(m.id) /\ a[2] = CR /\ a[3] = LF
      /\ e \in Seq(Symbol) /\ Len(e) = 4 /\ e[1] = Dash(m.id) /\ e[2] = Flag
      /\ e[3] = CR /\ e[4] = LF
      /\ l \in Seq(Symbol) /\ Len(l) = 1 /\ l[1] = LF
  BY <1>1, SymbolTypes
<1>4. t = ((a \o w) \o ((l \o y) \o l)) \o e
  BY Zenon DEF Text, Lines
<1> HIDE DEF a, w, y, e, l, k, t
<1>5. h \in {6, 9} /\ h \in Nat /\ h = 3 + Len(w) /\ (h = 6 <=> k = 1) /\ (h = 9 <=> k = 2)
  BY <1>2
<1> HIDE DEF h, n
<1>6. t \in Seq(Symbol) /\ TextParts(t, a, w, l, y, e, h, n)
  <2>1. Len(y) = n
    BY DEF n
  <2> QED
    BY <1>1, <1>2, <1>3, <1>4, <1>5, <2>1, PartsAt
<1>7. t[1] = Msrp(m.id) /\ t[2] = CR /\ t[3] = LF
  BY <1>3, <1>6 DEF TextParts
<1>8. t[4] = Hdr /\ t[5] = CR /\ t[6] = LF
  <2>1. /\ 1 \in 1 .. h - 3 /\ 2 \in 1 .. h - 3 /\ 3 \in 1 .. h - 3
        /\ 4 = 3 + 1 /\ 5 = 3 + 2 /\ 6 = 3 + 3
    BY <1>5
  <2> QED
    BY <1>2, <1>6, <2>1 DEF TextParts
<1>9. h = 9 => t[7] = Mid /\ t[8] = CR /\ t[9] = LF
  <2>1. h = 9 => /\ 4 \in 1 .. h - 3 /\ 5 \in 1 .. h - 3 /\ 6 \in 1 .. h - 3
                 /\ 7 = 3 + 4 /\ 8 = 3 + 5 /\ 9 = 3 + 6
    OBVIOUS
  <2> QED
    BY <1>2, <1>5, <1>6, <2>1 DEF TextParts
<1>10. /\ t[h + n + 3] = Dash(m.id) /\ t[h + n + 4] = Flag
       /\ t[h + n + 5] = CR /\ t[h + n + 6] = LF
  <2>1. /\ h + n + 2 + 1 = h + n + 3 /\ h + n + 2 + 2 = h + n + 4
        /\ h + n + 2 + 3 = h + n + 5 /\ h + n + 2 + 4 = h + n + 6
    BY <1>1, <1>5
  <2>2. /\ t[h + n + 2 + 1] = e[1] /\ t[h + n + 2 + 2] = e[2]
        /\ t[h + n + 2 + 3] = e[3] /\ t[h + n + 2 + 4] = e[4]
    BY <1>6 DEF TextParts
  <2> QED
    BY <1>3, <2>1, <2>2
<1>11. Range(m.head) = IF h = 6 THEN {Hdr} ELSE {Hdr, Mid}
  BY <1>2, <1>5
<1>12. t[h + 1] = LF /\ t[h + n + 2] = LF
  BY <1>3, <1>6 DEF TextParts
<1> QED
  BY <1>1, <1>5, <1>6, <1>7, <1>8, <1>9, <1>10, <1>11, <1>12 DEF TextParts, Shape, t, h, k, n, y

\* The places of the messages in the stream.
LEMMA PlaceLemma ==
  ASSUME feed \in Feeds
  PROVE  /\ feed.sent \in Seq(Sent) /\ Len(feed.sent) \in Nat
         /\ Whole \in Seq(Symbol) /\ Len(Whole) \in Nat
         /\ Place(0) = 0 /\ Place(Len(feed.sent)) = Len(Whole)
<1> DEFINE s == feed.sent
           ss == Texts(s)
<1>1. s \in Seq(Sent)
  BY ContextAssumption
<1>2. Len(s) \in Nat
  BY <1>1, LenProperties
<1> HIDE DEF s
<1>3. ss \in Seq(Seq(Symbol)) /\ Len(ss) = Len(s) /\ Stream(s) = FlattenSeq(ss)
        /\ Stream(s) \in Seq(Symbol)
  BY <1>1, TextsType
<1>4. Len(Stream(SubSeq(s, 1, 0))) = Reach(ss, 0)
        /\ Len(Stream(SubSeq(s, 1, Len(s)))) = Reach(ss, Len(s))
  <2>1. 0 \in 0 .. Len(s) /\ Len(s) \in 0 .. Len(s)
    BY <1>2
  <2> QED
    BY <1>1, <2>1, TextsFirst
<1> HIDE DEF ss
<1>5. Reach(ss, 0) = 0 /\ Reach(ss, Len(ss)) = Len(FlattenSeq(ss))
  BY <1>3, ReachEnds
<1>6. Len(Stream(s)) \in Nat
  BY <1>3, LenProperties
<1> QED
  BY <1>1, <1>2, <1>3, <1>4, <1>5, <1>6, Zenon DEF s, Place, Whole

\* A symbol of the message that comes next.
Symb(x) == Whole[Start + x]

MessageFacts ==
  /\ Start \in Nat /\ HeadLen \in {6, 9} /\ BodyLen \in Nat /\ BodyLen > 0
  /\ Size = HeadLen + BodyLen + 6 /\ 2 * Size <= MaxByte
  /\ Id \in Nat /\ Id # 0 /\ Heads = IF HeadLen = 6 THEN {Hdr} ELSE {Hdr, Mid}
  /\ Place(Len(exported) + 1) = Start + Size /\ Start + Size <= Len(Whole)
  /\ Symb(1) = Msrp(Id) /\ Symb(2) = CR /\ Symb(3) = LF
  /\ Symb(4) = Hdr /\ Symb(5) = CR /\ Symb(6) = LF
  /\ HeadLen = 9 => Symb(7) = Mid /\ Symb(8) = CR /\ Symb(9) = LF
  /\ Symb(HeadLen + 1) = LF
  /\ \A i \in 1 .. BodyLen : /\ Symb(HeadLen + 1 + i) = Current.body[i]
                            /\ Symb(HeadLen + 1 + i) # Dash(Id)
  /\ Symb(HeadLen + BodyLen + 2) = LF /\ Symb(HeadLen + BodyLen + 3) = Dash(Id)
  /\ Symb(HeadLen + BodyLen + 4) = Flag
  /\ Symb(HeadLen + BodyLen + 5) = CR /\ Symb(HeadLen + BodyLen + 6) = LF

\* The numbers among them.
LEMMA SizeFacts ==
  ASSUME MessageFacts
  PROVE  /\ Start \in Nat /\ HeadLen \in {6, 9} /\ BodyLen \in Nat /\ BodyLen > 0
         /\ Size = HeadLen + BodyLen + 6 /\ 2 * Size <= MaxByte
         /\ Id \in Nat /\ Id # 0 /\ Heads = IF HeadLen = 6 THEN {Hdr} ELSE {Hdr, Mid}
         /\ Place(Len(exported) + 1) = Start + Size /\ Start + Size <= Len(Whole)
BY Zenon DEF MessageFacts

\* What Fit says of a message of the feed.
LEMMA FitLemma ==
  ASSUME feed \in Feeds, Fit, NEW k \in 1 .. Len(feed.sent)
  PROVE  /\ feed.sent[k] \in Sent /\ feed.sent[k].body # <<>>
         /\ feed.sent[k].head \in {<<Hdr>>, <<Hdr, Mid>>}
         /\ Dash(feed.sent[k].id) \notin Range(feed.sent[k].body)
         /\ 2 * Len(Text(feed.sent[k])) <= MaxByte
<1> DEFINE s == feed.sent
           m == feed.sent[k]
<1>1. s \in Seq(Sent)
  BY PlaceLemma
<1>2. m \in Sent
  BY <1>1, ElementOfSeq
<1>3. m \in Range(s)
  <2> HIDE DEF s
  <2>1. Range(s) = {s[i] : i \in 1 .. Len(s)}
    BY <1>1, RangeEquality
  <2> QED
    BY <2>1 DEF s
<1>4. m.body # <<>>
  BY <1>3 DEF Fit, AllBodies
<1> QED
  BY <1>2, <1>3, <1>4 DEF Fit, Fitting

\* What is known of the message that comes next.
LEMMA CurrentLemma ==
  ASSUME feed \in Feeds, Fit, exported \in Seq(Export), Len(exported) < Len(feed.sent)
  PROVE  Current \in Sent /\ MessageFacts
<1> DEFINE h == Len(exported)
           k == Len(exported) + 1
           s == feed.sent
           ss == Texts(s)
           t == Text(Current)
<1>1. h \in Nat /\ s \in Seq(Sent) /\ Len(s) \in Nat
  BY PlaceLemma, LenProperties
<1>2. h \in 0 .. Len(s) /\ k \in 1 .. Len(s) /\ k \in 0 .. Len(s) /\ k = h + 1
  BY <1>1
<1>3. Current = s[k]
  BY DEF Current
<1>4. /\ Current \in Sent /\ Current.body # <<>> /\ Current.head \in {<<Hdr>>, <<Hdr, Mid>>}
      /\ Dash(Id) \notin Range(Current.body) /\ 2 * Size <= MaxByte
  <2> HIDE DEF k
  <2> QED
    BY <1>2, <1>3, FitLemma DEF Id, Size
<1>5. Shape(t, Current, HeadLen, BodyLen)
  BY <1>4, TextShape DEF HeadLen, BodyLen
<1>6. Id \in Nat /\ Id # 0 /\ Current.body \in Seq(Symbol)
  BY <1>4 DEF Sent, Id
<1>7. /\ Place(h) = Reach(ss, h) /\ Place(k) = Reach(ss, k)
  <2>1. /\ Len(Stream(SubSeq(s, 1, h))) = Reach(ss, h)
        /\ Len(Stream(SubSeq(s, 1, k))) = Reach(ss, k)
    <3> HIDE DEF h, k, s
    <3> QED
      BY <1>1, <1>2, TextsFirst
  <2> QED
    BY <2>1, Zenon DEF Place
<1>8. /\ ss \in Seq(Seq(Symbol)) /\ Len(ss) = Len(s) /\ At(ss, k) = t
      /\ Whole = FlattenSeq(ss)
  <2> HIDE DEF k, s
  <2>1. /\ Texts(s) \in Seq(Seq(Symbol)) /\ Len(Texts(s)) = Len(s)
        /\ \A i \in 1 .. Len(s) : Texts(s)[i] = Text(s[i])
        /\ Stream(s) = FlattenSeq(Texts(s))
    BY <1>1, TextsType
  <2> QED
    BY <1>2, <1>3, <2>1 DEF At, Whole, s
<1> HIDE DEF h, k, s, ss, t
<1>9. /\ Reach(ss, h) \in Nat
      /\ Reach(ss, k) = Reach(ss, h) + Len(t) /\ Reach(ss, k) <= Len(Whole)
      /\ \A j \in 1 .. Len(t) : Whole[Reach(ss, h) + j] = t[j]
  <2>1. h \in 0 .. Len(ss) /\ k \in 1 .. Len(ss) /\ k = h + 1
    BY <1>2, <1>8
  <2>2. /\ Reach(ss, h) \in Nat
        /\ Reach(ss, k) = Reach(ss, h) + Len(At(ss, k)) /\ Reach(ss, k) <= Len(FlattenSeq(ss))
        /\ \A j \in 1 .. Len(At(ss, k)) : FlattenSeq(ss)[Reach(ss, h) + j] = At(ss, k)[j]
    BY <1>8, <2>1, ReachStep, Zenon
  <2> QED
    BY <1>8, <2>2, Zenon
<1>10. Len(t) = Size /\ Start = Place(h) /\ Place(Len(exported) + 1) = Place(k)
  BY DEF t, Size, Start, h, k
<1>11. /\ Start \in Nat /\ Place(k) = Start + Size /\ Place(k) <= Len(Whole)
       /\ \A j \in 1 .. Size : Symb(j) = t[j]
  BY <1>7, <1>9, <1>10, Zenon DEF Symb
<1>12. /\ HeadLen \in {6, 9} /\ BodyLen \in Nat /\ BodyLen > 0
       /\ Size = HeadLen + BodyLen + 6
       /\ Heads = IF HeadLen = 6 THEN {Hdr} ELSE {Hdr, Mid}
  BY <1>5, <1>10 DEF Shape, Heads
<1>13. /\ Symb(1) = Msrp(Id) /\ Symb(2) = CR /\ Symb(3) = LF
       /\ Symb(4) = Hdr /\ Symb(5) = CR /\ Symb(6) = LF
       /\ HeadLen = 9 => Symb(7) = Mid /\ Symb(8) = CR /\ Symb(9) = LF
  <2>1. /\ 1 \in 1 .. Size /\ 2 \in 1 .. Size /\ 3 \in 1 .. Size /\ 4 \in 1 .. Size
        /\ 5 \in 1 .. Size /\ 6 \in 1 .. Size
        /\ 7 \in 1 .. Size /\ 8 \in 1 .. Size /\ 9 \in 1 .. Size
    BY <1>12
  <2> QED
    BY <1>5, <1>11, <2>1, Zenon DEF Shape, Id
<1>14. Symb(HeadLen + 1) = LF
  <2>1. HeadLen + 1 \in 1 .. Size
    BY <1>12
  <2> QED
    BY <1>5, <1>11, <2>1, Zenon DEF Shape
<1>15. ASSUME NEW i \in 1 .. BodyLen
       PROVE  /\ Symb(HeadLen + 1 + i) = Current.body[i]
              /\ Symb(HeadLen + 1 + i) # Dash(Id)
  <2>1. HeadLen + 1 + i \in 1 .. Size
    BY <1>12
  <2>2. Symb(HeadLen + 1 + i) = Current.body[i]
    BY <1>5, <1>11, <2>1, Zenon DEF Shape
  <2>3. Current.body[i] \in Range(Current.body)
    <3> DEFINE y == Current.body
    <3> HIDE DEF y
    <3>1. y \in Seq(Symbol) /\ i \in 1 .. Len(y)
      BY <1>6 DEF y, BodyLen
    <3>2. Range(y) = {y[q] : q \in 1 .. Len(y)}
      BY <3>1, RangeEquality
    <3>3. y[i] \in Range(y)
      BY <3>1, <3>2
    <3> QED
      BY <3>3 DEF y
  <2> QED
    BY <1>4, <2>2, <2>3
<1>16. /\ Symb(HeadLen + BodyLen + 2) = LF /\ Symb(HeadLen + BodyLen + 3) = Dash(Id)
       /\ Symb(HeadLen + BodyLen + 4) = Flag
       /\ Symb(HeadLen + BodyLen + 5) = CR /\ Symb(HeadLen + BodyLen + 6) = LF
  <2>1. /\ HeadLen + BodyLen + 2 \in 1 .. Size /\ HeadLen + BodyLen + 3 \in 1 .. Size
        /\ HeadLen + BodyLen + 4 \in 1 .. Size /\ HeadLen + BodyLen + 5 \in 1 .. Size
        /\ HeadLen + BodyLen + 6 \in 1 .. Size
    BY <1>12
  <2> QED
    BY <1>5, <1>11, <2>1, Zenon DEF Shape, Id
<1> QED
  BY <1>4, <1>6, <1>10, <1>11, <1>12, <1>13, <1>14, <1>15, <1>16 DEF MessageFacts

-----------------------------------------------------------------------------
(* The types.                                                              *)

\* What is left without the first n symbols.
LEMMA DropType ==
  ASSUME NEW S, NEW s \in Seq(S), NEW n \in Nat
  PROVE  /\ Drop(s, n) \in Seq(S)
         /\ Len(Drop(s, n)) = IF n <= Len(s) THEN Len(s) - n ELSE 0
<1>1. Len(s) \in Nat /\ Len(s) \in Int /\ n + 1 \in Int
  BY LenProperties
<1>2. \A i \in n + 1 .. Len(s) : s[i] \in S
  <2>1. \A i \in n + 1 .. Len(s) : i \in 1 .. Len(s)
    BY <1>1
  <2> QED
    BY <2>1, ElementOfSeq
<1>3. /\ SubSeq(s, n + 1, Len(s)) \in Seq(S)
      /\ Len(SubSeq(s, n + 1, Len(s)))
           = IF n + 1 <= Len(s) THEN Len(s) - (n + 1) + 1 ELSE 0
  BY <1>1, <1>2, SubSeqProperties
<1> QED
  BY <1>1, <1>3 DEF Drop

\* What the first n symbols are.
LEMMA CutType ==
  ASSUME NEW S, NEW s \in Seq(S), NEW n \in Nat, n <= Len(s)
  PROVE  SubSeq(s, 1, n) \in Seq(S) /\ Len(SubSeq(s, 1, n)) = n
<1>1. Len(s) \in Nat
  BY LenProperties
<1>2. Part(s, 0, n) \in Seq(S) /\ Len(Part(s, 0, n)) = n - 0
  <2>1. 0 \in Nat /\ 0 <= n
    OBVIOUS
  <2> QED
    BY <2>1, PartLemma
<1> QED
  BY <1>1, <1>2 DEF Part

\* What the searches return: a place of those they look at, or none.
LEMMA LeastType ==
  ASSUME NEW n \in Nat, NEW I, I \subseteq 0 .. n
  PROVE  (IF I # {} THEN Min(I) ELSE 0) \in 0 .. n
<1>1. CASE I = {}
  BY <1>1
<1>2. CASE I # {}
  <2>1. I \in SUBSET Nat
    OBVIOUS
  <2>2. Min(I) \in I
    BY <1>2, <2>1, MinLemma
  <2>3. Min(I) \in 0 .. n
    BY <2>2
  <2> QED
    BY <1>2, <2>3
<1> QED
  BY <1>1, <1>2

\* Where the words and the lines of the parser's data end.
LEMMA PlacesType ==
  ASSUME NEW d \in Seq(Symbol)
  PROVE  /\ SelectInSeq(d, IsWord) \in 0 .. Len(d)
         /\ WordEnd(d) \in 0 .. Len(d)
         /\ LineEnd(d) \in 0 .. Len(d)
         /\ Len(d) \in Nat
<1> DEFINE a == SelectInSeq(d, IsWord)
           e == SelectInSubSeq(d, a, Len(d), Separator)
           b == WordEnd(d)
<1>1. Len(d) \in Nat
  BY LenProperties
<1>2. a \in 0 .. Len(d)
  <2> DEFINE I == {i \in 1 .. Len(d) : IsWord(d[i])}
  <2>1. I \subseteq 0 .. Len(d)
    OBVIOUS
  <2>2. a = IF I # {} THEN Min(I) ELSE 0
    BY DEF SelectInSeq
  <2> HIDE DEF I, a
  <2>3. (IF I # {} THEN Min(I) ELSE 0) \in 0 .. Len(d)
    BY <1>1, <2>1, LeastType
  <2> QED
    BY <2>2, <2>3, Zenon
<1>3. e \in 0 .. Len(d)
  <2> HIDE DEF a
  <2> DEFINE I == {i \in a .. Len(d) : Separator(d[i])}
  <2>1. I \subseteq 0 .. Len(d)
    BY <1>1, <1>2
  <2>2. e = IF I # {} THEN Min(I) ELSE 0
    BY DEF SelectInSubSeq
  <2> HIDE DEF I, e
  <2>3. (IF I # {} THEN Min(I) ELSE 0) \in 0 .. Len(d)
    BY <1>1, <2>1, LeastType
  <2> QED
    BY <2>2, <2>3, Zenon
<1>4. b \in 0 .. Len(d)
  <2>1. b = IF e = 0 THEN Len(d) ELSE e - 1
    BY DEF WordEnd
  <2> HIDE DEF e, b
  <2> QED
    BY <1>1, <1>3, <2>1
<1>5. LineEnd(d) \in 0 .. Len(d)
  <2> HIDE DEF b
  <2> DEFINE I == {i \in b + 1 .. Len(d) : IsLF(d[i])}
  <2>1. I \subseteq 0 .. Len(d)
    BY <1>1, <1>4
  <2>2. LineEnd(d) = IF I # {} THEN Min(I) ELSE 0
    BY DEF SelectInSubSeq, LineEnd, b
  <2> HIDE DEF I
  <2>3. (IF I # {} THEN Min(I) ELSE 0) \in 0 .. Len(d)
    BY <1>1, <2>1, LeastType
  <2> QED
    BY <2>2, <2>3, Zenon
<1> QED
  BY <1>1, <1>2, <1>4, <1>5

\* The first word of a line is symbols of the line.
LEMMA FirstWordType ==
  ASSUME NEW d \in Seq(Symbol), SelectInSeq(d, IsWord) > 0
  PROVE  FirstWord(d) \in Seq(Symbol) /\ (Len(FirstWord(d)) = 1 => FirstWord(d)[1] \in Symbol)
<1> DEFINE a == SelectInSeq(d, IsWord)
           b == WordEnd(d)
<1>1. Len(d) \in Nat /\ a \in 1 .. Len(d) /\ b \in 0 .. Len(d)
  BY PlacesType
<1> HIDE DEF a, b
<1>2. \A i \in a .. b : d[i] \in Symbol
  <2>1. \A i \in a .. b : i \in 1 .. Len(d)
    BY <1>1
  <2> QED
    BY <2>1, ElementOfSeq
<1>3. SubSeq(d, a, b) \in Seq(Symbol)
  <2>1. a \in Int /\ b \in Int
    BY <1>1
  <2> QED
    BY <1>2, <2>1, SubSeqProperties
<1>4. FirstWord(d) = SubSeq(d, a, b)
  BY DEF FirstWord, a, b
<1> HIDE DEF FirstWord
<1>5. FirstWord(d) \in Seq(Symbol)
  BY <1>3, <1>4
<1>6. Len(FirstWord(d)) = 1 => 1 \in 1 .. Len(FirstWord(d))
  OBVIOUS
<1> QED
  BY <1>5, <1>6, ElementOfSeq

\* What the parser's data and the contents found are in each place of the call.
ModeInv ==
  /\ find \in [at : Nat, len : Int, left : Int, all : BOOLEAN]
  /\ state \notin {"content", "done"} => slen = 0
  /\ pc \in {"parse", "line"} => state # "done"
  /\ pc = "line" => state # "content"
  /\ pc \in {"content", "find"} => state = "content"
  /\ pc = "return" /\ Complete => slen <= Len(data)

TypeInv == TypeOK /\ ModeInv

\* The types hold of an empty context.
LEMMA TypeInit == Init => TypeInv
<1> SUFFICES ASSUME Init PROVE TypeInv
  OBVIOUS
<1>1. feed \in Feeds /\ source = Stream(feed.sent)
  BY DEF Init
<1>2. source \in Seq(Symbol)
  <2>1. feed.sent \in Seq(Sent)
    BY <1>1, ContextAssumption
  <2> QED
    BY <1>1, <2>1, TextsType
<1>3. <<>> \in Seq(Symbol) /\ <<>> \in Seq(Export) /\ Len(<<>>) = 0
  BY EmptySeq
<1>4. find \in [at : Nat, len : Int, left : Int, all : BOOLEAN]
  BY DEF Init, NoFind
<1>5. MaxByte \in Nat
  BY ContextAssumption
<1>6. TypeOK
  BY <1>1, <1>2, <1>3, <1>5 DEF Init, TypeOK
<1>7. ModeInv
  BY <1>4 DEF Init, ModeInv, Complete
<1> QED
  BY <1>6, <1>7 DEF TypeInv

\* A packet arrives.
LEMMA UpdateTypes ==
  ASSUME TypeInv, NEW n \in 1 .. Len(source), Update(n)
  PROVE  TypeInv'
<1>1. SubSeq(source, 1, n) \in Seq(Symbol) /\ Drop(source, n) \in Seq(Symbol)
  <2>1. source \in Seq(Symbol) /\ n \in Nat /\ Len(source) \in Nat /\ n <= Len(source)
    BY LenProperties DEF TypeInv, TypeOK
  <2> QED
    BY <2>1, CutType, DropType
<1>2. TypeOK'
  BY <1>1 DEF TypeInv, TypeOK, Update, context, parser
<1>3. ModeInv'
  BY DEF TypeInv, ModeInv, Complete, Update, context, parser
<1> QED
  BY <1>2, <1>3 DEF TypeInv

\* A call begins.
LEMMA BeginTypes ==
  ASSUME TypeInv, BeginFresh \/ BeginMore \/ OverData
  PROVE  TypeInv'
<1>1. MaxByte \in Nat /\ <<>> \in Seq(Symbol) /\ Len(<<>>) = 0
  BY ContextAssumption, EmptySeq
<1>2. /\ buff \in Seq(Symbol) /\ tmp \in Seq(Symbol) /\ Len(tmp) <= MaxByte
      /\ Len(buff) \in Nat /\ Len(tmp) \in Nat /\ dataRead \in Nat
  BY LenProperties DEF TypeInv, TypeOK
<1>3. CASE BeginFresh
  <2>1. TypeOK'
    BY <1>1, <1>3 DEF TypeInv, TypeOK, BeginFresh
  <2>2. ModeInv'
    BY <1>3 DEF TypeInv, ModeInv, Complete, BeginFresh
  <2> QED
    BY <2>1, <2>2 DEF TypeInv
<1>4. CASE BeginMore
  <2> DEFINE c == CopyLen
  <2>1. c \in 1 .. MaxByte /\ c \in Nat /\ c <= Len(buff) /\ Len(tmp) + c <= MaxByte
    BY <1>1, <1>2, <1>4 DEF BeginMore, CopyLen
  <2>2. tmp' = tmp \o SubSeq(buff, 1, c) /\ copied' = c
    BY <1>4 DEF BeginMore
  <2> HIDE DEF c
  <2>3. SubSeq(buff, 1, c) \in Seq(Symbol) /\ Len(SubSeq(buff, 1, c)) = c
    BY <1>2, <2>1, CutType
  <2>4. tmp' \in Seq(Symbol) /\ Len(tmp') <= MaxByte
    BY <1>2, <2>1, <2>2, <2>3, ConcatProperties
  <2>5. data' \in Seq(Symbol)
    <3>1. data' = Drop(tmp', dataRead)
      BY <1>4 DEF BeginMore
    <3> QED
      BY <1>2, <2>4, <3>1, DropType
  <2>6. TypeOK'
    BY <1>1, <1>4, <2>1, <2>2, <2>4, <2>5 DEF TypeInv, TypeOK, BeginMore
  <2>7. ModeInv'
    BY <1>4 DEF TypeInv, ModeInv, Complete, BeginMore
  <2> QED
    BY <2>6, <2>7 DEF TypeInv
<1>5. CASE OverData
  <2>1. Drop(buff, dataRead) \in Seq(Symbol)
    BY <1>2, DropType
  <2>2. TypeOK'
    BY <1>5, <2>1 DEF TypeInv, TypeOK, OverData, parser
  <2>3. ModeInv'
    BY <1>5 DEF TypeInv, ModeInv, Complete, OverData, parser
  <2> QED
    BY <2>2, <2>3 DEF TypeInv
<1> QED
  BY <1>3, <1>4, <1>5

\* The steps of the parser that leave the headers and the packet alone.
LEMMA EnterTypes ==
  ASSUME TypeInv, Enter \/ LineNoWord \/ LineCut \/ LineRefused
  PROVE  TypeInv'
<1>1. /\ data \in Seq(Symbol) /\ keep \in Nat /\ dataRead \in Nat
      /\ WordEnd(data) \in Nat
  <2>1. data \in Seq(Symbol) /\ keep \in Nat /\ dataRead \in Nat
    BY DEF TypeInv, TypeOK
  <2> QED
    BY <2>1, PlacesType
<1>2. CASE Enter
  <2>1. Blank(data) \in Nat /\ Drop(data, Blank(data)) \in Seq(Symbol)
    <3>1. Blank(data) \in Nat
      BY DEF Blank
    <3> QED
      BY <1>1, <3>1, DropType
  <2>2. TypeOK'
    BY <1>1, <1>2, <2>1 DEF TypeInv, TypeOK, Enter, callFrame, Return
  <2>3. ModeInv'
    BY <1>2 DEF TypeInv, ModeInv, Complete, Enter, callFrame, Return
  <2> QED
    BY <2>2, <2>3 DEF TypeInv
<1>3. CASE LineNoWord
  <2>1. TypeOK'
    BY <1>3 DEF TypeInv, TypeOK, LineNoWord, callFrame, parser
  <2>2. ModeInv'
    BY <1>3 DEF TypeInv, ModeInv, Complete, LineNoWord, callFrame, parser
  <2> QED
    BY <2>1, <2>2 DEF TypeInv
<1>4. CASE LineCut
  <2>1. TypeOK'
    BY <1>1, <1>4 DEF TypeInv, TypeOK, LineCut, callFrame, parser, Return
  <2>2. ModeInv'
    BY <1>4 DEF TypeInv, ModeInv, Complete, LineCut, Wordy, callFrame, parser, Return
  <2> QED
    BY <2>1, <2>2 DEF TypeInv
<1>5. CASE LineRefused
  <2>1. /\ dataRead' = dataRead + keep + WordEnd(data)
        /\ ok' = FALSE /\ pc' = "return"
        /\ UNCHANGED <<state, seen, tid, lent, slen, parser, callFrame>>
    BY <1>5 DEF LineRefused, RefusedAt, Return
  <2>2. dataRead' \in Nat
    BY <1>1, <2>1
  <2>3. TypeOK'
    BY <2>1, <2>2 DEF TypeInv, TypeOK, callFrame, parser
  <2>4. ModeInv'
    BY <1>5, <2>1 DEF TypeInv, ModeInv, Complete, Wordy, callFrame, parser
  <2> QED
    BY <2>3, <2>4 DEF TypeInv
<1> QED
  BY <1>2, <1>3, <1>4, <1>5

\* A header.
LEMMA HeaderTypes ==
  ASSUME TypeInv, LineHeader
  PROVE  TypeInv'
<1> DEFINE w == FirstWord(data)
           n == LineEnd(data)
           d == Drop(data, n)
           b == IF Len(d) < 2 THEN 0 ELSE Blank(d)
<1>1. data \in Seq(Symbol) /\ keep \in Nat /\ dataRead \in Nat
  BY DEF TypeInv, TypeOK
<1>2. Wordy /\ SelectInSeq(data, IsWord) > 0 /\ pc = "line"
  BY DEF LineHeader, Wordy
<1>3. n \in Nat /\ (Len(w) = 1 => w[1] \in Symbol)
  BY <1>1, <1>2, PlacesType, FirstWordType
<1>4. d \in Seq(Symbol) /\ b \in Nat
  BY <1>1, <1>3, DropType DEF Blank
<1>5. /\ \/ IsMsrp(w) /\ tid' = w[1].id /\ seen' = seen
         \/ IsHeader(w) /\ seen' = seen \cup {w[1]} /\ tid' = tid
      /\ lent' = IF copied > 0 THEN lent
                   ELSE lent \cup {IF IsMsrp(w) THEN Method ELSE w[1]}
      /\ state' = IF b > 0 THEN "content" ELSE IF IsMsrp(w) THEN "mess" ELSE "header"
      /\ data' = Drop(d, b) /\ keep' = keep + n + b
      /\ IF Len(d) < 2
           THEN ok' = TRUE /\ pc' = "return" /\ dataRead' = dataRead + keep'
           ELSE /\ pc' = IF b > 0 THEN "content" ELSE "line"
                /\ UNCHANGED <<ok, dataRead>>
      /\ UNCHANGED <<slen, find, callFrame>>
  BY DEF LineHeader, Return
<1> HIDE DEF w, n, b
<1>6. data' \in Seq(Symbol)
  BY <1>4, <1>5, DropType
<1> HIDE DEF d
<1>7. tid' \in Nat /\ seen' \subseteq Headers /\ lent' \subseteq seen' \cup {Method}
  <2>1. tid \in Nat /\ seen \subseteq Headers /\ lent \subseteq seen \cup {Method}
    BY DEF TypeInv, TypeOK
  <2>2. CASE IsMsrp(w) /\ tid' = w[1].id /\ seen' = seen
    <3>1. w[1].id \in Nat
      BY <1>3, <2>2 DEF IsMsrp, Symbol
    <3> QED
      BY <1>5, <2>1, <2>2, <3>1
  <2>3. CASE IsHeader(w) /\ seen' = seen \cup {w[1]} /\ tid' = tid
    <3>1. w[1] \in Headers
      BY <2>3 DEF IsHeader
    <3>2. lent' \subseteq lent \cup {Method, w[1]}
      BY <1>5
    <3> QED
      BY <2>1, <2>3, <3>1, <3>2
  <2> QED
    BY <1>5, <2>2, <2>3
<1>8. TypeOK'
  <2>1. keep' \in Nat /\ dataRead' \in Nat
    BY <1>1, <1>3, <1>4, <1>5
  <2>2. /\ state' \in {"mess", "header", "content", "unknow", "done"}
        /\ pc' \in {"idle", "parse", "line", "content", "find", "return", "gone"}
        /\ ok' \in BOOLEAN
    BY <1>5 DEF TypeInv, TypeOK
  <2> QED
    BY <1>5, <1>6, <1>7, <2>1, <2>2 DEF TypeInv, TypeOK, callFrame
<1>9. ModeInv'
  <2>1. slen = 0 /\ slen' = 0 /\ find' = find
    BY <1>2, <1>5 DEF TypeInv, ModeInv
  <2> QED
    BY <1>5, <2>1 DEF TypeInv, ModeInv, Complete
<1> QED
  BY <1>8, <1>9 DEF TypeInv

\* The end line of a message without contents.
LEMMA EndLineTypes ==
  ASSUME TypeInv, LineEndLine
  PROVE  TypeInv'
<1> DEFINE n == LineEnd(data)
           d == Drop(data, n)
           w == SelectInSeq(d, IsWord)
           i == IF w = 0 THEN Len(d) ELSE w - 1
<1>1. data \in Seq(Symbol) /\ keep \in Nat /\ dataRead \in Nat
  BY DEF TypeInv, TypeOK
<1>2. n \in Nat /\ n > 0 /\ pc = "line" /\ Len(data) \in Nat
  BY <1>1, PlacesType DEF LineEndLine, Wordy
<1>3. d \in Seq(Symbol)
  BY <1>1, <1>2, DropType
<1>4. w \in 0 .. Len(d) /\ Len(d) \in Nat
  BY <1>3, PlacesType
<1>5. i \in Nat
  <2> HIDE DEF w, d
  <2> QED
    BY <1>4
<1>6. /\ dataRead' = dataRead + keep + n + i - 1
      /\ ok' = (i >= 2) /\ pc' = "return" /\ state' = "done"
      /\ UNCHANGED <<seen, tid, lent, slen, parser, callFrame>>
  BY DEF LineEndLine, Return
<1> HIDE DEF i, n
<1>7. dataRead' \in Nat
  BY <1>1, <1>2, <1>5, <1>6
<1>8. TypeOK'
  BY <1>6, <1>7 DEF TypeInv, TypeOK, callFrame, parser
<1>9. ModeInv'
  BY <1>2, <1>6 DEF TypeInv, ModeInv, callFrame, parser
<1> QED
  BY <1>8, <1>9 DEF TypeInv

\* The search for the end line.
LEMMA SearchTypes ==
  ASSUME TypeInv, Content \/ NoMarker \/ Garbage
  PROVE  TypeInv'
<1>1. /\ data \in Seq(Symbol) /\ buff \in Seq(Symbol)
      /\ keep \in Nat /\ dataRead \in Nat /\ slen \in Nat
      /\ find \in [at : Nat, len : Int, left : Int, all : BOOLEAN]
  BY DEF TypeInv, TypeOK, ModeInv
<1>2. Len(data) \in Nat /\ Len(buff) \in Nat /\ MaxByte \in Nat
  BY <1>1, LenProperties, ContextAssumption
<1>3. CASE Content
  <2>1. find' \in [at : Nat, len : Int, left : Int, all : BOOLEAN]
    BY <1>1, <1>2, <1>3 DEF Content
  <2>2. TypeOK'
    BY <1>3 DEF TypeInv, TypeOK, Content, context, callFrame
  <2>3. ModeInv'
    BY <1>3, <2>1 DEF TypeInv, ModeInv, Complete, Content, context, callFrame
  <2> QED
    BY <2>2, <2>3 DEF TypeInv
<1>4. CASE NoMarker
  <2>1. Searched \in Nat
    BY <1>1 DEF Searched, MarkerLen
  <2>2. TypeOK'
    BY <1>1, <1>4, <2>1 DEF TypeInv, TypeOK, NoMarker, Return, callFrame, parser
  <2>3. ModeInv'
    BY <1>4 DEF TypeInv, ModeInv, Complete, NoMarker, Return, callFrame, parser
  <2> QED
    BY <2>2, <2>3 DEF TypeInv
<1>5. CASE Garbage
  <2>1. dataRead' \in Nat
    <3>1. CASE \E n \in 1 .. Len(buff) : dataRead' = n
      BY <1>2, <3>1
    <3>2. CASE dataRead' = dataRead
      BY <1>1, <3>2
    <3> QED
      BY <1>5, <3>1, <3>2 DEF Garbage
  <2>2. TypeOK'
    BY <1>5, <2>1 DEF TypeInv, TypeOK, Garbage, Return, callFrame, parser
  <2>3. ModeInv'
    BY <1>5 DEF TypeInv, ModeInv, Complete, Garbage, Return, callFrame, parser
  <2> QED
    BY <2>2, <2>3 DEF TypeInv
<1> QED
  BY <1>3, <1>4, <1>5

\* The search for the end line keeps the types, also with a false marker.
LEMMA MarkerTypes ==
  ASSUME TypeInv, MarkerCut \/ MarkerFalse \/ MarkerEnd
  PROVE  TypeInv'
<1>1. /\ data \in Seq(Symbol) /\ keep \in Nat /\ dataRead \in Nat /\ slen \in Nat
      /\ find \in [at : Nat, len : Int, left : Int, all : BOOLEAN]
  BY DEF TypeInv, TypeOK, ModeInv
<1>2. Len(data) \in Nat
  BY <1>1, LenProperties
<1>3. \A p \in Markers : p \in Nat /\ p + MarkerLen <= Len(data)
  BY <1>1, <1>2 DEF Markers, MarkerLen
<1>4. CASE MarkerCut
  <2>1. /\ slen' \in Nat /\ dataRead' \in Nat /\ ok' \in BOOLEAN /\ pc' = "return"
        /\ UNCHANGED <<state, seen, tid, lent, parser, callFrame>>
    <3>1. PICK p \in Markers :
            UNCHANGED <<slen, dataRead>> \/ (slen' = p /\ dataRead' = dataRead + keep)
      BY <1>4, Zenon DEF MarkerCut
    <3>2. slen' \in Nat /\ dataRead' \in Nat
      BY <1>1, <1>3, <3>1
    <3> QED
      BY <1>4, <3>2 DEF MarkerCut, Return
  <2>2. TypeOK'
    BY <2>1 DEF TypeInv, TypeOK, callFrame, parser
  <2>3. ModeInv'
    BY <1>4, <2>1 DEF TypeInv, ModeInv, Complete, MarkerCut, callFrame, parser
  <2> QED
    BY <2>2, <2>3 DEF TypeInv
<1>5. CASE MarkerFalse
  <2>1. PICK p \in Markers :
          LET n == p + MarkerLen + (IF IsFlag(p) THEN 1 + EolLen ELSE 1)
          IN  find' = [find EXCEPT !.at = n, !.len = @ - n, !.left = @ - p]
    BY <1>5 DEF MarkerFalse
  <2>2. find' \in [at : Nat, len : Int, left : Int, all : BOOLEAN]
    <3> DEFINE n == p + MarkerLen + (IF IsFlag(p) THEN 1 + EolLen ELSE 1)
    <3>1. n \in Nat /\ p \in Nat
      BY <1>3 DEF MarkerLen, EolLen
    <3>2. find' = [find EXCEPT !.at = n, !.len = @ - n, !.left = @ - p]
      BY <2>1
    <3> HIDE DEF n
    <3>3. find' = [at |-> n, len |-> find.len - n, left |-> find.left - p, all |-> find.all]
      BY <1>1, <3>2
    <3>4. find.len - n \in Int /\ find.left - p \in Int /\ find.all \in BOOLEAN
      BY <1>1, <3>1
    <3> QED
      BY <3>1, <3>3, <3>4
  <2>3. pc = "find" /\ UNCHANGED <<context, pc, data, keep, ok, callFrame>>
    BY <1>5 DEF MarkerFalse
  <2>4. TypeOK'
    BY <2>3 DEF TypeInv, TypeOK, context, callFrame
  <2>5. ModeInv'
    BY <2>2, <2>3 DEF TypeInv, ModeInv, Complete, context, callFrame
  <2> QED
    BY <2>4, <2>5 DEF TypeInv
<1>6. CASE MarkerEnd
  <2>1. PICK p \in Markers :
          slen' = p /\ dataRead' = dataRead + keep + p + MarkerLen + 1 + EolLen
    BY <1>6 DEF MarkerEnd
  <2>2. p \in Nat /\ p <= Len(data) /\ dataRead' \in Nat
    BY <1>1, <1>2, <1>3, <2>1 DEF MarkerLen, EolLen
  <2>3. /\ state' = "done" /\ ok' = TRUE /\ pc' = "return"
        /\ UNCHANGED <<seen, tid, lent, parser, callFrame>>
    BY <1>6 DEF MarkerEnd, Return
  <2>4. TypeOK'
    BY <2>1, <2>2, <2>3 DEF TypeInv, TypeOK, callFrame, parser
  <2>5. ModeInv'
    BY <2>1, <2>2, <2>3 DEF TypeInv, ModeInv, callFrame, parser
  <2> QED
    BY <2>4, <2>5 DEF TypeInv
<1> QED
  BY <1>4, <1>5, <1>6

\* The message that is exported.
LEMMA ExportTypes ==
  ASSUME TypeInv, pc = "return", Complete
  PROVE  Append(exported, Message) \in Seq(Export)
<1>1. /\ data \in Seq(Symbol) /\ slen \in Nat /\ slen <= Len(data) /\ tid \in Nat
      /\ seen \subseteq Headers /\ lent \subseteq seen \cup {Method}
      /\ exported \in Seq(Export)
  BY DEF TypeInv, TypeOK, ModeInv
<1>2. SubSeq(data, 1, slen) \in Seq(Symbol)
  BY <1>1, CutType
<1>3. Message \in Export
  BY <1>1, <1>2 DEF Message, Export
<1> QED
  BY <1>1, <1>3, AppendProperties

\* A call ends.
LEMMA FinishTypes ==
  ASSUME TypeInv, Hang \/ Backwards \/ Finish
  PROVE  TypeInv'
<1>1. MaxByte \in Nat /\ <<>> \in Seq(Symbol) /\ Len(<<>>) = 0
  BY ContextAssumption, EmptySeq
<1>2. /\ buff \in Seq(Symbol) /\ tmp \in Seq(Symbol) /\ dataRead \in Nat
      /\ copied \in Nat /\ ok \in BOOLEAN /\ exported \in Seq(Export)
  BY <1>1 DEF TypeInv, TypeOK
<1>3. Len(buff) \in Nat /\ Len(tmp) \in Nat
  BY <1>2, LenProperties
<1>4. Used \in Int /\ (Used < 0 => Complete)
  BY <1>1, <1>2, <1>3 DEF Used, Complete, UsedCopy
<1>5. CASE Hang
  <2>1. TypeOK'
    BY <1>5 DEF TypeInv, TypeOK, Hang, context, parser
  <2>2. ModeInv'
    BY <1>5 DEF TypeInv, ModeInv, Complete, Hang, context, parser
  <2> QED
    BY <2>1, <2>2 DEF TypeInv
<1>6. CASE Backwards
  <2>1. exported' \in Seq(Export) /\ pc' = "gone"
        /\ UNCHANGED <<feed, source, buff, context, copied, parser, ok>>
    <3>1. Append(exported, Message) \in Seq(Export)
      BY <1>4, <1>6, ExportTypes DEF Backwards
    <3> QED
      BY <1>6, <3>1 DEF Backwards
  <2>2. TypeOK'
    BY <2>1 DEF TypeInv, TypeOK, context, parser
  <2>3. ModeInv'
    BY <2>1 DEF TypeInv, ModeInv, Complete, context, parser
  <2> QED
    BY <2>2, <2>3 DEF TypeInv
<1>7. CASE Finish
  <2>1. exported' \in Seq(Export)
    <3>1. Complete => Append(exported, Message) \in Seq(Export)
      BY <1>7, ExportTypes DEF Finish
    <3>2. exported' = IF Complete THEN Append(exported, Message) ELSE exported
      BY <1>7 DEF Finish
    <3> QED
      BY <1>2, <3>1, <3>2
  <2>2. buff' \in Seq(Symbol)
    <3>1. Used \in Nat /\ buff' = Drop(buff, Used)
      BY <1>4, <1>7 DEF Finish
    <3> QED
      BY <1>2, <3>1, DropType
  <2>3. /\ tmp' = IF Kept THEN buff ELSE tmp
        /\ lent' = IF Kept THEN ChangePoint ELSE lent
        /\ state' = IF ok THEN state ELSE "done"
        /\ pc' = "idle" /\ data' = <<>> /\ keep' = 0 /\ find' = NoFind /\ copied' = 0
        /\ UNCHANGED <<feed, source, dataRead, seen, tid, slen, ok>>
    BY <1>7 DEF Finish
  <2>4. tmp' \in Seq(Symbol) /\ Len(tmp') <= MaxByte /\ lent' \subseteq lent
    BY <1>2, <2>3 DEF TypeInv, TypeOK, Kept, ChangePoint
  <2>5. TypeOK'
    BY <1>1, <2>1, <2>2, <2>3, <2>4 DEF TypeInv, TypeOK
  <2>6. ModeInv'
    <3>1. NoFind \in [at : Nat, len : Int, left : Int, all : BOOLEAN]
      BY DEF NoFind
    <3> QED
      BY <1>2, <2>3, <3>1 DEF TypeInv, ModeInv
  <2> QED
    BY <2>5, <2>6 DEF TypeInv
<1> QED
  BY <1>5, <1>6, <1>7

\* No step leaves the types.
LEMMA TypeStep ==
  ASSUME TypeInv, [Next]_vars
  PROVE  TypeInv'
<1>1. CASE UNCHANGED vars
  <2>1. TypeOK'
    BY <1>1 DEF TypeInv, TypeOK, vars, context, parser
  <2>2. ModeInv'
    BY <1>1 DEF TypeInv, ModeInv, Complete, vars, context, parser
  <2> QED
    BY <2>1, <2>2 DEF TypeInv
<1>2. CASE Update2
  <2>1. CASE Prase
    BY <2>1, EnterTypes, HeaderTypes, EndLineTypes, SearchTypes, MarkerTypes DEF Prase
  <2> QED
    BY <1>2, <2>1, BeginTypes, FinishTypes DEF Update2
<1>3. CASE Terminating
  BY <1>1, <1>3 DEF Terminating
<1>4. ASSUME NEW n \in 1 .. Len(source), Update(n) PROVE TypeInv'
  BY <1>4, UpdateTypes
<1> QED
  BY <1>1, <1>2, <1>3, <1>4 DEF Next

\* The types are right whatever the peer sends.
THEOREM TypeCorrect == Spec => []TypeOK
<1>1. Init => TypeInv
  BY TypeInit
<1>2. TypeInv /\ [Next]_vars => TypeInv'
  BY TypeStep
<1>3. TypeInv => TypeOK
  BY DEF TypeInv
<1> QED
  BY <1>1, <1>2, <1>3, PTL DEF Spec

-----------------------------------------------------------------------------
(* The lines of a message.                                                 *)

\* A line of one word, and its end when it has arrived.
LEMMA LineLemma ==
  ASSUME NEW d \in Seq(Symbol), Len(d) >= 2, d[1] \notin {CR, LF}, d[2] = CR,
         Len(d) >= 3 => d[3] = LF
  PROVE  /\ SelectInSeq(d, IsWord) = 1
         /\ FirstWord(d) = <<d[1]>>
         /\ LineEnd(d) = IF Len(d) >= 3 THEN 3 ELSE 0
<1> DEFINE n == Len(d)
           a == SelectInSeq(d, IsWord)
           b == WordEnd(d)
<1>1. n \in Nat /\ CR # LF /\ n >= 2
  BY LenProperties DEF CR, LF
<1>2. a = 1
  <2> DEFINE I == {i \in 1 .. n : IsWord(d[i])}
  <2>1. I \in SUBSET Nat /\ 1 \in I /\ \A i \in I : 1 <= i
    BY <1>1 DEF IsWord, Separator
  <2>2. a = IF I # {} THEN Min(I) ELSE 0
    BY DEF SelectInSeq
  <2> HIDE DEF I, a
  <2>3. I # {} /\ Min(I) = 1
    BY <2>1, MinIs
  <2> QED
    BY <2>2, <2>3
<1>3. b = 1
  <2> DEFINE I == {i \in 1 .. n : Separator(d[i])}
             e == SelectInSubSeq(d, 1, n, Separator)
  <2>1. I \in SUBSET Nat /\ 2 \in I /\ \A i \in I : 2 <= i
    BY <1>1 DEF Separator
  <2>2. e = IF I # {} THEN Min(I) ELSE 0
    BY DEF SelectInSubSeq
  <2>3. b = IF e = 0 THEN n ELSE e - 1
    BY <1>2 DEF WordEnd
  <2> HIDE DEF I, e
  <2>4. I # {} /\ Min(I) = 2
    BY <2>1, MinIs
  <2>5. e = 2
    BY <2>2, <2>4
  <2> QED
    BY <2>3, <2>5
<1>4. LineEnd(d) = IF n >= 3 THEN 3 ELSE 0
  <2> DEFINE I == {i \in 2 .. n : IsLF(d[i])}
  <2>1. LineEnd(d) = IF I # {} THEN Min(I) ELSE 0
    <3>1. b + 1 = 2
      BY <1>3
    <3> QED
      BY <3>1 DEF SelectInSubSeq, LineEnd
  <2>2. CASE n >= 3
    <3>1. I \in SUBSET Nat /\ 3 \in I
      BY <1>1, <2>2 DEF IsLF
    <3>2. \A i \in I : 3 <= i
      <4> SUFFICES ASSUME NEW i \in 2 .. n, IsLF(d[i]) PROVE 3 <= i
        OBVIOUS
      <4>1. i # 2
        BY <1>1 DEF IsLF
      <4> QED
        BY <4>1
    <3> HIDE DEF I
    <3>3. I # {} /\ Min(I) = 3
      BY <3>1, <3>2, MinIs
    <3> QED
      BY <2>1, <2>2, <3>3
  <2>3. CASE ~(n >= 3)
    <3>1. n = 2
      BY <1>1, <2>3
    <3>2. \A i \in 2 .. n : ~IsLF(d[i])
      BY <1>1, <3>1 DEF IsLF
    <3>3. I = {}
      BY <3>2
    <3> QED
      BY <2>1, <2>3, <3>3
  <2> QED
    BY <2>2, <2>3
<1>5. FirstWord(d) = <<d[1]>>
  <2>1. FirstWord(d) = SubSeq(d, 1, 1)
    BY <1>2, <1>3 DEF FirstWord
  <2>2. SubSeq(d, 1, 1) \in Seq(Symbol) /\ Len(SubSeq(d, 1, 1)) = 1
    BY <1>1, CutType
  <2>3. SubSeq(d, 1, 1)[1] = d[1]
    <3>1. Part(d, 0, 1)[1] = d[0 + 1]
      <4>1. 0 \in Nat /\ 1 \in Nat /\ 0 <= 1 /\ 1 <= Len(d) /\ 1 \in 1 .. 1 - 0
        BY <1>1
      <4> QED
        BY <4>1, PartLemma
    <3> QED
      BY <3>1 DEF Part
  <2>4. d[1] \in Symbol
    BY <1>1, ElementOfSeq
  <2> HIDE DEF FirstWord
  <2> DEFINE x == FirstWord(d)
             y == <<d[1]>>
  <2>5. y \in Seq(Symbol) /\ Len(y) = 1 /\ y[1] = d[1]
    BY <2>4
  <2>6. x \in Seq(Symbol) /\ Len(x) = 1 /\ x[1] = d[1]
    BY <2>1, <2>2, <2>3
  <2> HIDE DEF x, y
  <2>7. Len(x) = Len(y) /\ \A i \in 1 .. Len(x) : x[i] = y[i]
    BY <2>5, <2>6
  <2>8. x = y
    BY <2>5, <2>6, <2>7, SeqEqual
  <2> QED
    BY <2>8 DEF x, y
<1> QED
  BY <1>2, <1>4, <1>5

\* What is left of a sequence.
LEMMA DropLemma ==
  ASSUME NEW S, NEW s \in Seq(S), NEW n \in Nat, n <= Len(s)
  PROVE  /\ Drop(s, n) = Part(s, n, Len(s)) /\ Drop(s, n) \in Seq(S)
         /\ Len(Drop(s, n)) = Len(s) - n
         /\ \A i \in 1 .. Len(s) - n : Drop(s, n)[i] = s[n + i]
<1>1. Len(s) \in Nat /\ Len(s) <= Len(s)
  BY LenProperties
<1>2. Drop(s, n) = Part(s, n, Len(s))
  BY DEF Drop, Part
<1>3. /\ Part(s, n, Len(s)) \in Seq(S) /\ Len(Part(s, n, Len(s))) = Len(s) - n
      /\ \A i \in 1 .. Len(s) - n : Part(s, n, Len(s))[i] = s[n + i]
  BY <1>1, PartLemma
<1> QED
  BY <1>2, <1>3

\* The words the parser may come to in a message.
LEMMA WordFacts ==
  ASSUME NEW t \in Nat
  PROVE  /\ Msrp(t) \notin {CR, LF} /\ Hdr \notin {CR, LF} /\ Mid \notin {CR, LF}
         /\ Msrp(t).kind = "msrp" /\ Msrp(t).id = t /\ Hdr.kind = "head" /\ Mid.kind = "messid"
         /\ Hdr # Mid /\ Hdr # Types /\ Mid # Types /\ Method # Types /\ Method # Hdr
         /\ CR # LF /\ LF.kind = "lf" /\ Flag # LF
         /\ Hdr \in Headers /\ Mid \in Headers
BY DEF Msrp, Hdr, Mid, CR, LF, Flag, Types, Method, Headers

-----------------------------------------------------------------------------
(* One call.                                                               *)

\* What arrived of the message that comes next.
LEMMA CallFacts ==
  ASSUME TypeInv, Fit, Good, pc # "idle"
  PROVE  /\ Current \in Sent /\ MessageFacts /\ data \in Seq(Symbol) /\ Len(data) \in Nat
         /\ Total \in Nat /\ Read \in Nat /\ Total = Read + Len(data)
         /\ Start + Total <= Len(Whole) /\ Len(Whole) \in Nat
         /\ \A j \in 1 .. Len(data) : data[j] = Symb(Read + j)
<1>1. /\ feed \in Feeds /\ exported \in Seq(Export) /\ data \in Seq(Symbol)
      /\ source \in Seq(Symbol) /\ buff \in Seq(Symbol) /\ tmp \in Seq(Symbol)
      /\ copied \in 0 .. MaxByte /\ MaxByte \in Nat
  BY ContextAssumption DEF TypeInv, TypeOK
<1>2. Len(data) \in Nat /\ Len(source) \in Nat /\ Len(buff) \in Nat /\ Len(tmp) \in Nat
  BY <1>1, LenProperties
<1>3. Whole \in Seq(Symbol) /\ Len(Whole) \in Nat
  BY <1>1, PlaceLemma
<1>4. Current \in Sent /\ MessageFacts
  BY <1>1, CurrentLemma DEF Good, CallInv
<1>5. Start \in Nat
  BY <1>4, SizeFacts
<1>6. Total \in Nat /\ Start + Total <= Len(Whole)
  <2>1. Behind = Len(Whole) - Len(source) - Len(buff) /\ Len(source) <= Len(Whole)
    BY DEF Good, StreamInv, Behind, Arrived
  <2>2. CASE copied = 0
    <3>1. Behind = Start /\ Total = Len(buff)
      BY <2>2 DEF Good, CallInv, Total, Base
    <3> QED
      BY <1>2, <1>3, <1>5, <2>1, <3>1
  <2>3. CASE copied # 0
    <3>1. Behind = Start + Len(tmp) - copied /\ Total = Len(tmp) /\ copied <= Len(buff)
      BY <2>3 DEF Good, CallInv, Total, Base
    <3> QED
      BY <1>1, <1>2, <1>3, <1>5, <2>1, <3>1
  <2> QED
    BY <2>2, <2>3
<1>7. /\ Len(data) <= Total /\ data = Part(Whole, Start + Read, Start + Total)
      /\ Read = Total - Len(data)
  BY DEF Good, CallInv, Read
<1>8. Read \in Nat /\ Total = Read + Len(data)
  BY <1>2, <1>6, <1>7
<1>9. ASSUME NEW j \in 1 .. Len(data)
      PROVE  data[j] = Symb(Read + j)
  <2> DEFINE a == Start + Read
             b == Start + Total
  <2>1. a \in Nat /\ b \in Nat /\ a <= b /\ b <= Len(Whole) /\ j \in 1 .. b - a
    BY <1>2, <1>5, <1>6, <1>8
  <2> HIDE DEF a, b
  <2>2. Part(Whole, a, b)[j] = Whole[a + j]
    BY <1>3, <2>1, PartLemma
  <2>3. a + j = Start + (Read + j)
    BY <1>5, <1>8 DEF a
  <2>4. data = Part(Whole, a, b)
    BY <1>7 DEF a, b
  <2> QED
    BY <2>2, <2>3, <2>4 DEF Symb
<1> QED
  BY <1>1, <1>2, <1>3, <1>4, <1>6, <1>8, <1>9

\* Steps that leave the feed and the history alone are in the same message.
SameMessage ==
  /\ Whole' = Whole /\ Start' = Start /\ Id' = Id /\ Heads' = Heads /\ Size' = Size
  /\ HeadLen' = HeadLen /\ BodyLen' = BodyLen

\* Without a new export the context stays in the same message.
LEMMA SameLemma ==
  ASSUME feed' = feed, exported' = exported
  PROVE  SameMessage /\ (HistoryInv => HistoryInv')
<1>1. Current' = Current /\ Whole' = Whole /\ Start' = Start
  BY DEF Current, Whole, Start, Place
<1>2. /\ Id' = Id /\ Heads' = Heads /\ Size' = Size
      /\ HeadLen' = HeadLen /\ BodyLen' = BodyLen
  BY <1>1 DEF Id, Heads, Size, HeadLen, BodyLen
<1>3. HistoryInv => HistoryInv'
  BY DEF HistoryInv
<1> QED
  BY <1>1, <1>2, <1>3 DEF SameMessage

\* The parser goes k symbols on.
LEMMA Moved ==
  ASSUME TypeInv, Fit, Good, pc # "idle", pc' # "idle", UNCHANGED callFrame,
         NEW k \in Nat, k <= Len(data), data' = Drop(data, k),
         copied # 0 => lent' \subseteq {Method, Mid}
  PROVE  /\ StreamInv' /\ HistoryInv' /\ IdleInv' /\ CallInv' /\ SameMessage
         /\ Read' = Read + k /\ Total' = Total /\ Len(data') = Len(data) - k
<1>1. /\ data \in Seq(Symbol) /\ Len(data) \in Nat /\ Total \in Nat /\ Read \in Nat
      /\ Total = Read + Len(data) /\ Start + Total <= Len(Whole) /\ Start \in Nat
  BY CallFacts, SizeFacts
<1>2. /\ feed' = feed /\ source' = source /\ buff' = buff /\ tmp' = tmp /\ copied' = copied
      /\ exported' = exported
  BY DEF callFrame
<1>3. SameMessage /\ HistoryInv'
  BY <1>2, SameLemma DEF Good
<1>4. Total' = Total /\ Arrived' = Arrived /\ Behind' = Behind
  BY <1>2, <1>3 DEF Total, Base, Arrived, Behind, SameMessage
<1>5. StreamInv'
  BY <1>2, <1>3, <1>4 DEF Good, StreamInv, SameMessage
<1>6. IdleInv'
  BY DEF IdleInv
<1>7. Len(data') = Len(data) - k
  BY <1>1, DropLemma
<1>8. Read' = Read + k
  BY <1>1, <1>4, <1>7 DEF Read
<1>9. data' = Part(Whole', Start' + Read', Start' + Total')
  <2> DEFINE a == Start + Read
             b == Start + Total
             y == Len(data)
             s == Whole
  <2>1. data = Part(s, a, b)
    BY DEF Good, CallInv
  <2>2. data' = Part(Part(s, a, b), k, y)
    BY <2>1 DEF Drop, Part
  <2>3. /\ a \in Nat /\ b \in Nat /\ y \in Nat /\ b <= Len(s) /\ k <= y /\ a + y <= b
        /\ a + y = b /\ s \in Seq(Symbol)
    <3>1. Whole \in Seq(Symbol)
      BY PlaceLemma DEF TypeInv, TypeOK
    <3> QED
      BY <1>1, <3>1
  <2>4. a + k = Start + (Read + k) /\ b = Start + Total
    BY <1>1
  <2> HIDE DEF a, b, y, s
  <2>5. Part(Part(s, a, b), k, y) = Part(s, a + k, a + y)
    BY <2>3, PartOfPart
  <2>6. data' = Part(s, Start + (Read + k), Start + Total)
    BY <2>2, <2>3, <2>4, <2>5
  <2> QED
    BY <1>3, <1>4, <1>8, <2>6 DEF SameMessage, s
<1>10. CallInv'
  <2>1. Len(data') <= Total'
    BY <1>1, <1>4, <1>7
  <2> QED
    BY <1>2, <1>3, <1>4, <1>9, <2>1 DEF Good, CallInv, SameMessage
<1> QED
  BY <1>3, <1>4, <1>5, <1>6, <1>7, <1>8, <1>10

\* The parser stays where it is.
LEMMA Stayed ==
  ASSUME TypeInv, Fit, Good, pc # "idle", pc' # "idle", UNCHANGED callFrame,
         data' = data, lent' = lent
  PROVE  /\ StreamInv' /\ HistoryInv' /\ IdleInv' /\ CallInv' /\ SameMessage
         /\ Read' = Read /\ Total' = Total
<1>1. data \in Seq(Symbol) /\ Len(data) \in Nat /\ Read \in Nat
  BY CallFacts
<1>2. Drop(data, 0) = data
  <2>1. SubSeq(data, 1, Len(data)) = data
    BY <1>1, SubSeqFull
  <2> QED
    BY <2>1 DEF Drop
<1>3. copied # 0 => lent' \subseteq {Method, Mid}
  BY DEF Good, CallInv
<1>4. 0 \in Nat /\ 0 <= Len(data)
  BY <1>1
<1>5. /\ StreamInv' /\ HistoryInv' /\ IdleInv' /\ CallInv' /\ SameMessage
      /\ Read' = Read + 0 /\ Total' = Total
  BY <1>2, <1>3, <1>4, Moved
<1> QED
  BY <1>1, <1>5

-----------------------------------------------------------------------------
(* The parser's steps.                                                     *)

\* Where the parser looks for the next line there is a word it knows, once, and the
\* end of the line.
LEMMA NextWord ==
  ASSUME TypeInv, Fit, Good, pc = "line"
  PROVE  /\ SelectInSeq(data, IsWord) = 1 /\ FirstWord(data) = <<data[1]>>
         /\ LineEnd(data) = IF Len(data) >= 3 THEN 3 ELSE 0
         /\ Read + 3 <= HeadLen /\ Len(data) >= 2
         /\ \/ /\ Read = 0 /\ data[1] = Msrp(Id) /\ tid = 0 /\ seen = {}
            \/ /\ Read = 3 /\ data[1] = Hdr /\ tid = Id /\ seen = {}
            \/ /\ Read = 6 /\ data[1] = Mid /\ tid = Id /\ seen = {Hdr} /\ HeadLen = 9
<1>1. /\ MessageFacts /\ data \in Seq(Symbol) /\ Len(data) \in Nat /\ Read \in Nat
      /\ \A j \in 1 .. Len(data) : data[j] = Symb(Read + j)
  BY CallFacts
<1>2. Progress(Read) /\ state # "content" /\ Len(data) >= 2 /\ Read # HeadLen
  BY DEF Good, ParseInv
<1>3. HeadLen \in {6, 9} /\ Id \in Nat
  BY <1>1, SizeFacts
<1>4. \/ Read = 0 /\ tid = 0 /\ seen = {}
      \/ Read = 3 /\ tid = Id /\ seen = {}
      \/ Read = 6 /\ tid = Id /\ seen = {Hdr} /\ HeadLen = 9
  BY <1>2, <1>3 DEF Progress
<1>5. /\ data[1] = Symb(Read + 1) /\ data[2] = Symb(Read + 2)
      /\ Len(data) >= 3 => data[3] = Symb(Read + 3)
  <2>1. 1 \in 1 .. Len(data) /\ 2 \in 1 .. Len(data) /\ (Len(data) >= 3 => 3 \in 1 .. Len(data))
    BY <1>1, <1>2
  <2> QED
    BY <1>1, <2>1
<1>6. /\ Symb(0 + 1) = Msrp(Id) /\ Symb(0 + 2) = CR /\ Symb(0 + 3) = LF
      /\ Symb(3 + 1) = Hdr /\ Symb(3 + 2) = CR /\ Symb(3 + 3) = LF
      /\ HeadLen = 9 => Symb(6 + 1) = Mid /\ Symb(6 + 2) = CR /\ Symb(6 + 3) = LF
  BY <1>1 DEF MessageFacts
<1>7. /\ data[2] = CR /\ (Len(data) >= 3 => data[3] = LF)
      /\ \/ Read = 0 /\ data[1] = Msrp(Id)
         \/ Read = 3 /\ data[1] = Hdr
         \/ Read = 6 /\ data[1] = Mid
  BY <1>4, <1>5, <1>6
<1>8. data[1] \notin {CR, LF}
  BY <1>3, <1>7, WordFacts
<1>9. /\ SelectInSeq(data, IsWord) = 1 /\ FirstWord(data) = <<data[1]>>
      /\ LineEnd(data) = IF Len(data) >= 3 THEN 3 ELSE 0
  BY <1>1, <1>2, <1>7, <1>8, LineLemma
<1>10. Read + 3 <= HeadLen
  BY <1>3, <1>4
<1>11. \/ Read = 0 /\ data[1] = Msrp(Id) /\ tid = 0 /\ seen = {}
       \/ Read = 3 /\ data[1] = Hdr /\ tid = Id /\ seen = {}
       \/ Read = 6 /\ data[1] = Mid /\ tid = Id /\ seen = {Hdr} /\ HeadLen = 9
  BY <1>4, <1>7
<1> QED
  BY <1>2, <1>9, <1>10, <1>11, Zenon

\* Where the parser looks for the empty line.
LEMMA BlankLemma ==
  ASSUME MessageFacts, NEW d, NEW x \in {3, 6, 9}, x <= HeadLen,
         d[1] = Symb(x + 1), d[2] = Symb(x + 2)
  PROVE  Blank(d) = IF x = HeadLen THEN 1 ELSE 0
<1>1. HeadLen \in {6, 9} /\ Hdr # LF /\ Mid # LF /\ CR # LF
  BY WordFacts DEF MessageFacts
<1>2. CASE x = HeadLen
  <2>1. d[1] = LF
    BY <1>2 DEF MessageFacts
  <2> QED
    BY <1>2, <2>1 DEF Blank
<1>3. CASE x # HeadLen
  <2>1. x = 3 \/ (x = 6 /\ HeadLen = 9)
    BY <1>1, <1>3
  <2>2. /\ Symb(3 + 1) = Hdr /\ Symb(3 + 2) = CR
        /\ HeadLen = 9 => Symb(6 + 1) = Mid /\ Symb(6 + 2) = CR
    BY DEF MessageFacts
  <2>3. d[1] # LF /\ d[2] # LF
    BY <1>1, <2>1, <2>2
  <2> QED
    BY <1>3, <2>3 DEF Blank
<1> QED
  BY <1>2, <1>3

\* The parser is called.
LEMMA EnterGood ==
  ASSUME TypeInv, Fit, Good, Enter
  PROVE  Good'
<1>1. /\ MessageFacts /\ data \in Seq(Symbol) /\ Len(data) \in Nat /\ Read \in Nat
      /\ Total = Read + Len(data) /\ \A j \in 1 .. Len(data) : data[j] = Symb(Read + j)
  <2>1. pc # "idle"
    BY DEF Enter
  <2> QED
    BY <2>1, CallFacts
<1>2. /\ pc = "parse" /\ keep = 0 /\ Read = dataRead /\ Progress(Read) /\ state # "done"
  BY DEF Enter, Good, ParseInv, TypeInv, ModeInv
<1>3. /\ HeadLen \in {6, 9} /\ BodyLen \in Nat /\ BodyLen > 0 /\ Size = HeadLen + BodyLen + 6
      /\ Heads = IF HeadLen = 6 THEN {Hdr} ELSE {Hdr, Mid}
  BY <1>1, SizeFacts
<1>4. /\ UNCHANGED callFrame /\ UNCHANGED <<dataRead, seen, tid, lent, slen, find>>
  BY DEF Enter
<1>5. Len(data) >= 2 => data[1] = Symb(Read + 1) /\ data[2] = Symb(Read + 2)
  <2>1. Len(data) >= 2 => 1 \in 1 .. Len(data) /\ 2 \in 1 .. Len(data)
    BY <1>1
  <2> QED
    BY <1>1, <2>1
<1>6. state = "header" /\ Len(data) >= 2 => Blank(data) = IF Read = HeadLen THEN 1 ELSE 0
  <2> SUFFICES ASSUME state = "header", Len(data) >= 2
               PROVE  Blank(data) = IF Read = HeadLen THEN 1 ELSE 0
    OBVIOUS
  <2>1. Read \in {3, 6, 9} /\ Read <= HeadLen
    BY <1>2, <1>3 DEF Progress
  <2> QED
    BY <1>1, <1>5, <2>1, BlankLemma
<1>7. CASE state = "header" /\ Len(data) >= 2 /\ Blank(data) > 0
  <2>1. /\ state' = "content" /\ pc' = "content" /\ data' = Drop(data, Blank(data))
        /\ keep' = Blank(data)
    <3>1. state # "content" /\ ~(state # "content" /\ Len(data) < 2)
      BY <1>1, <1>7
    <3> QED
      BY <1>7, <3>1, Zenon DEF Enter
  <2>2. Read = HeadLen /\ Blank(data) = 1
    BY <1>6, <1>7
  <2>3. data' = Drop(data, 1) /\ 1 \in Nat /\ 1 <= Len(data) /\ pc' # "idle" /\ pc # "idle"
        /\ (copied # 0 => lent' \subseteq {Method, Mid})
    BY <1>2, <1>4, <1>7, <2>1, <2>2 DEF Good, CallInv
  <2>4. /\ StreamInv' /\ HistoryInv' /\ IdleInv' /\ CallInv' /\ SameMessage /\ Read' = Read + 1
    BY <1>4, <2>3, Moved
  <2>5. tid = Id /\ slen = 0 /\ seen = Heads
    BY <1>2, <1>3, <1>7, <2>2 DEF Progress
  <2>6. Progress(Read)'
    BY <1>3, <1>4, <2>1, <2>2, <2>4, <2>5 DEF Progress, SameMessage
  <2>7. Read' = dataRead' + keep'
    BY <1>1, <1>2, <1>4, <2>1, <2>2, <2>4
  <2>8. ParseInv'
    BY <2>1, <2>6, <2>7 DEF ParseInv
  <2> QED
    BY <2>4, <2>8 DEF Good
<1>8. CASE ~(state = "header" /\ Len(data) >= 2 /\ Blank(data) > 0)
  <2>1. UNCHANGED <<state, data, keep>> /\ pc' # "idle" /\ pc # "idle"
    BY <1>2, <1>8 DEF Enter, Return
  <2>2. /\ StreamInv' /\ HistoryInv' /\ IdleInv' /\ CallInv' /\ SameMessage /\ Read' = Read
        /\ Total' = Total
    BY <1>4, <2>1, Stayed
  <2>3. Progress(Read)'
    BY <1>2, <1>4, <2>1, <2>2 DEF Progress, SameMessage
  <2>4. CASE state = "content"
    <3>1. pc' = "content"
      BY <2>4 DEF Enter
    <3>2. Read' = dataRead' + keep'
      BY <1>1, <1>2, <1>4, <2>1, <2>2
    <3>3. ParseInv'
      BY <2>1, <2>3, <2>4, <3>1, <3>2 DEF ParseInv
    <3> QED
      BY <2>2, <3>3 DEF Good
  <2>5. CASE state # "content" /\ Len(data) < 2
    <3>1. pc' = "return" /\ ok'
      BY <2>5 DEF Enter, Return
    <3>2. Total < Size
      BY <1>1, <1>2, <1>3, <2>5 DEF Progress
    <3>3. ParseInv'
      BY <1>2, <1>4, <2>1, <2>2, <2>3, <3>1, <3>2 DEF ParseInv, SameMessage
    <3> QED
      BY <2>2, <3>3 DEF Good
  <2>6. CASE state # "content" /\ Len(data) >= 2
    <3>1. pc' = "line"
      <4>1. state # "content" /\ ~(state # "content" /\ Len(data) < 2)
        BY <1>1, <2>6
      <4> QED
        BY <1>8, <4>1, Zenon DEF Enter
    <3>2. Read # HeadLen
      <4>1. Read = HeadLen => state = "header"
        BY <1>2, <1>3, <2>6 DEF Progress
      <4> QED
        BY <1>6, <1>8, <2>6, <4>1
    <3>3. Read' = dataRead' + keep'
      BY <1>1, <1>2, <1>4, <2>1, <2>2
    <3>4. ParseInv'
      BY <2>1, <2>2, <2>3, <2>6, <3>1, <3>2, <3>3 DEF ParseInv, SameMessage
    <3> QED
      BY <2>2, <3>4 DEF Good
  <2> QED
    BY <1>1, <2>4, <2>5, <2>6
<1> QED
  BY <1>7, <1>8

\* A line that is a word the parser does not know, or none, does not come.
LEMMA LineGood ==
  ASSUME TypeInv, Fit, Good
  PROVE  ~LineNoWord /\ ~LineRefused /\ ~LineEndLine
<1> SUFFICES ASSUME pc = "line" PROVE ~LineNoWord /\ ~LineRefused /\ ~LineEndLine
  BY DEF LineNoWord, LineRefused, LineEndLine, Wordy
<1>1. SelectInSeq(data, IsWord) = 1
  BY NextWord
<1>2. ~LineNoWord
  BY <1>1 DEF LineNoWord
<1> DEFINE w == FirstWord(data)
<1>3. w = <<data[1]>>
  BY NextWord
<1>4. \/ data[1] = Msrp(Id) /\ tid = 0
      \/ data[1] = Hdr /\ seen = {}
      \/ data[1] = Mid /\ seen = {Hdr}
  BY NextWord
<1>5. Id \in Nat
  <2>1. pc # "idle"
    OBVIOUS
  <2> QED
    BY <2>1, CallFacts, SizeFacts
<1> HIDE DEF w
<1>6. Len(w) = 1 /\ w[1] = data[1]
  BY <1>3
<1>7. ~IsEnd(w)
  BY <1>6 DEF IsEnd
<1>8. IsMsrp(w) \/ IsHeader(w)
  BY <1>4, <1>5, <1>6, WordFacts DEF IsMsrp, IsHeader
<1>9. ~LineRefused
  BY <1>8 DEF LineRefused, w
<1>10. ~LineEndLine
  BY <1>7 DEF LineEndLine, w
<1> QED
  BY <1>2, <1>9, <1>10

\* The line has not arrived.
LEMMA LineCutGood ==
  ASSUME TypeInv, Fit, Good, LineCut
  PROVE  Good'
<1>1. pc = "line" /\ pc # "idle" /\ LineEnd(data) = 0
  BY DEF LineCut, Wordy
<1>2. /\ dataRead' = dataRead + keep /\ ok' = TRUE /\ pc' = "return"
      /\ UNCHANGED <<state, seen, tid, lent, slen, data, keep, find>> /\ UNCHANGED callFrame
  BY DEF LineCut, Return, parser
<1>3. /\ MessageFacts /\ Len(data) \in Nat /\ Read \in Nat /\ Total = Read + Len(data)
  BY <1>1, CallFacts
<1>4. Len(data) < 3 /\ Read + 3 <= HeadLen
  BY <1>1, <1>3, NextWord
<1>5. Total < Size
  <2>1. HeadLen \in {6, 9} /\ BodyLen \in Nat /\ Size = HeadLen + BodyLen + 6
    BY <1>3, SizeFacts
  <2> QED
    BY <1>3, <1>4, <2>1
<1>6. Progress(Read) /\ Read = dataRead + keep /\ state # "done"
  BY <1>1 DEF Good, ParseInv, TypeInv, ModeInv
<1>7. /\ StreamInv' /\ HistoryInv' /\ IdleInv' /\ CallInv' /\ SameMessage /\ Read' = Read
      /\ Total' = Total
  BY <1>1, <1>2, Stayed
<1>8. Progress(Read)'
  BY <1>2, <1>6, <1>7 DEF Progress, SameMessage
<1>9. ParseInv'
  BY <1>2, <1>5, <1>6, <1>7, <1>8 DEF ParseInv, SameMessage
<1> QED
  BY <1>7, <1>9 DEF Good

\* A line is read, and the empty line when it follows.
LEMMA LineHeaderGood ==
  ASSUME TypeInv, Fit, Good, LineHeader
  PROVE  Good'
<1> DEFINE w == FirstWord(data)
           d == Drop(data, 3)
           b == IF Len(d) < 2 THEN 0 ELSE Blank(d)
           c == data[1]
           r == Read
<1>1. pc = "line" /\ pc # "idle" /\ LineEnd(data) > 0
  BY DEF LineHeader, Wordy
<1>2. /\ MessageFacts /\ data \in Seq(Symbol) /\ Len(data) \in Nat /\ r \in Nat
      /\ Total = r + Len(data) /\ \A j \in 1 .. Len(data) : data[j] = Symb(r + j)
  BY <1>1, CallFacts
<1>3. /\ LineEnd(data) = 3 /\ Len(data) >= 3 /\ w = <<c>> /\ r + 3 <= HeadLen
      /\ \/ r = 0 /\ c = Msrp(Id) /\ tid = 0 /\ seen = {}
         \/ r = 3 /\ c = Hdr /\ tid = Id /\ seen = {}
         \/ r = 6 /\ c = Mid /\ tid = Id /\ seen = {Hdr} /\ HeadLen = 9
  BY <1>1, NextWord
<1>4. /\ HeadLen \in {6, 9} /\ Id \in Nat /\ BodyLen \in Nat /\ Size = HeadLen + BodyLen + 6
      /\ Heads = IF HeadLen = 6 THEN {Hdr} ELSE {Hdr, Mid}
  BY <1>2, SizeFacts
<1>5. /\ \/ IsMsrp(w) /\ tid' = w[1].id /\ seen' = seen
         \/ IsHeader(w) /\ seen' = seen \cup {w[1]} /\ tid' = tid
      /\ copied > 0 => lent' = lent
      /\ state' = IF b > 0 THEN "content" ELSE IF IsMsrp(w) THEN "mess" ELSE "header"
      /\ data' = Drop(d, b) /\ keep' = keep + 3 + b
      /\ IF Len(d) < 2
           THEN ok' = TRUE /\ pc' = "return" /\ dataRead' = dataRead + keep'
           ELSE pc' = (IF b > 0 THEN "content" ELSE "line") /\ UNCHANGED <<ok, dataRead>>
      /\ UNCHANGED <<slen, find>> /\ UNCHANGED callFrame
  BY <1>3 DEF LineHeader, Return
<1>6. /\ d \in Seq(Symbol) /\ Len(d) = Len(data) - 3
      /\ \A i \in 1 .. Len(data) - 3 : d[i] = data[3 + i]
  <2>1. 3 \in Nat /\ 3 <= Len(data)
    BY <1>2, <1>3
  <2> QED
    BY <1>2, <2>1, DropLemma
<1> HIDE DEF w, b, d, c, r
<1>7. b = IF Len(d) >= 2 /\ r + 3 = HeadLen THEN 1 ELSE 0
  <2>1. CASE Len(d) < 2
    BY <1>2, <1>6, <2>1 DEF b
  <2>2. CASE Len(d) >= 2
    <3>1. d[1] = Symb(r + 3 + 1) /\ d[2] = Symb(r + 3 + 2)
      <4>1. /\ 1 \in 1 .. Len(data) - 3 /\ 2 \in 1 .. Len(data) - 3
            /\ 3 + 1 \in 1 .. Len(data) /\ 3 + 2 \in 1 .. Len(data)
            /\ r + (3 + 1) = r + 3 + 1 /\ r + (3 + 2) = r + 3 + 2
        BY <1>2, <1>6, <2>2
      <4>2. d[1] = data[3 + 1] /\ d[2] = data[3 + 2]
        BY <1>6, <4>1, Zenon
      <4>3. data[3 + 1] = Symb(r + (3 + 1)) /\ data[3 + 2] = Symb(r + (3 + 2))
        BY <1>2, <4>1, Zenon
      <4> QED
        BY <4>1, <4>2, <4>3
    <3>2. r + 3 \in {3, 6, 9}
      BY <1>3
    <3>3. Blank(d) = IF r + 3 = HeadLen THEN 1 ELSE 0
      <4> DEFINE x == r + 3
      <4>1. x \in {3, 6, 9} /\ x <= HeadLen /\ d[1] = Symb(x + 1) /\ d[2] = Symb(x + 2)
        BY <1>3, <3>1, <3>2
      <4> HIDE DEF x
      <4>2. Blank(d) = IF x = HeadLen THEN 1 ELSE 0
        BY <1>2, <4>1, BlankLemma
      <4> QED
        BY <4>2 DEF x
    <3>4. b = Blank(d)
      BY <1>2, <1>6, <2>2 DEF b
    <3> QED
      BY <2>2, <3>3, <3>4
  <2> QED
    BY <1>2, <1>6, <2>1, <2>2
<1>8. /\ r = 0 => tid' = Id /\ seen' = {} /\ IsMsrp(w)
      /\ r = 3 => tid' = Id /\ seen' = {Hdr} /\ ~IsMsrp(w)
      /\ r = 6 => tid' = Id /\ seen' = {Hdr, Mid} /\ ~IsMsrp(w)
  <2>1. Len(w) = 1 /\ w[1] = c
    BY <1>3
  <2>2. CASE r = 0
    <3>1. c = Msrp(Id) /\ tid = 0 /\ seen = {}
      BY <1>3, <2>2
    <3>2. IsMsrp(w) /\ ~IsHeader(w)
      BY <1>4, <2>1, <3>1 DEF IsMsrp, IsHeader, Msrp, Headers, Hdr, Mid, Types
    <3>3. w[1].id = Id
      BY <1>4, <2>1, <3>1, WordFacts
    <3> QED
      BY <1>5, <2>2, <3>1, <3>2, <3>3
  <2>3. CASE r = 3
    <3>1. c = Hdr /\ tid = Id /\ seen = {}
      BY <1>3, <2>3
    <3>2. ~IsMsrp(w)
      BY <2>1, <3>1 DEF IsMsrp, Hdr
    <3> QED
      BY <1>5, <2>1, <2>3, <3>1, <3>2
  <2>4. CASE r = 6
    <3>1. c = Mid /\ tid = Id /\ seen = {Hdr}
      BY <1>3, <2>4
    <3>2. ~IsMsrp(w)
      BY <2>1, <3>1 DEF IsMsrp, Mid
    <3> QED
      BY <1>5, <2>1, <2>4, <3>1, <3>2
  <2> QED
    BY <2>2, <2>3, <2>4
<1>9. slen = 0 /\ state # "content" /\ state # "done" /\ r = dataRead + keep
  BY <1>1 DEF Good, ParseInv, TypeInv, ModeInv, r
<1>10. keep \in Nat /\ dataRead \in Nat
  BY DEF TypeInv, TypeOK
<1>11. pc' # "idle" /\ 3 + b \in Nat /\ 3 + b <= Len(data) /\ data' = Drop(data, 3 + b)
  <2>1. pc' # "idle"
    BY <1>5
  <2>2. b \in Nat /\ 3 + b <= Len(data) /\ b <= Len(data) - 3
    BY <1>2, <1>3, <1>6, <1>7
  <2>3. Drop(d, b) = Drop(data, 3 + b)
    <3> DEFINE a == 3
               y == Len(data)
               z == Len(data) - 3
    <3>1. d = Part(data, a, y)
      <4>1. 3 \in Nat /\ 3 <= Len(data)
        BY <1>2, <1>3
      <4> QED
        BY <1>2, <4>1, DropLemma DEF d
    <3>2. Drop(d, b) = Part(d, b, z) /\ Drop(data, 3 + b) = Part(data, a + b, y)
      BY <1>6 DEF Drop, Part
    <3>3. /\ a \in Nat /\ y \in Nat /\ y <= Len(data) /\ z \in Nat /\ b <= z /\ a + z <= y
          /\ a + z = y
      BY <1>2, <1>3, <2>2
    <3> HIDE DEF a, y, z
    <3>4. Part(Part(data, a, y), b, z) = Part(data, a + b, a + z)
      BY <1>2, <2>2, <3>3, PartOfPart
    <3> QED
      BY <3>1, <3>2, <3>3, <3>4
  <2> QED
    BY <1>5, <2>1, <2>2, <2>3
<1>12. /\ StreamInv' /\ HistoryInv' /\ IdleInv' /\ CallInv' /\ SameMessage
       /\ Read' = r + (3 + b) /\ Total' = Total /\ Len(data') = Len(data) - (3 + b)
  <2>1. copied # 0 => lent' \subseteq {Method, Mid}
    <3>1. copied \in Nat /\ (copied # 0 => lent \subseteq {Method, Mid})
      BY <1>1, ContextAssumption DEF Good, CallInv, TypeInv, TypeOK
    <3> QED
      BY <1>5, <3>1
  <2>2. UNCHANGED callFrame
    BY <1>5
  <2> DEFINE k == 3 + b
  <2>3. k \in Nat /\ k <= Len(data) /\ data' = Drop(data, k) /\ pc' # "idle"
    BY <1>11
  <2> HIDE DEF k
  <2>4. /\ StreamInv' /\ HistoryInv' /\ IdleInv' /\ CallInv' /\ SameMessage
        /\ Read' = Read + k /\ Total' = Total /\ Len(data') = Len(data) - k
    BY <1>1, <2>1, <2>2, <2>3, Moved
  <2> QED
    BY <2>4 DEF k, r
<1>13. b \in {0, 1} /\ Read' = r + 3 + b /\ keep' = keep + 3 + b
  BY <1>2, <1>5, <1>7, <1>12
<1>14. Progress(Read)'
  <2>1. CASE b = 1
    <3>1. r + 3 = HeadLen /\ Read' = HeadLen + 1 /\ state' = "content"
      BY <1>2, <1>5, <1>7, <1>13, <2>1
    <3>2. tid' = Id /\ seen' = Heads
      BY <1>3, <1>4, <1>8, <3>1
    <3>3. slen' = 0 /\ 0 \in 0 .. BodyLen
      BY <1>4, <1>5, <1>9
    <3> QED
      BY <1>12, <3>1, <3>2, <3>3 DEF Progress, SameMessage
  <2>2. CASE b = 0
    <3>1. Read' = r + 3 /\ slen' = 0 /\ state' = IF IsMsrp(w) THEN "mess" ELSE "header"
      BY <1>2, <1>5, <1>9, <1>13, <2>2
    <3>2. CASE r = 0
      BY <1>8, <1>12, <3>1, <3>2 DEF Progress, SameMessage
    <3>3. CASE r = 3
      BY <1>8, <1>12, <3>1, <3>3 DEF Progress, SameMessage
    <3>4. CASE r = 6
      <4>1. HeadLen = 9
        BY <1>3, <3>4
      <4> QED
        BY <1>8, <1>12, <3>1, <3>4, <4>1 DEF Progress, SameMessage
    <3> QED
      BY <1>3, <3>2, <3>3, <3>4
  <2> QED
    BY <1>13, <2>1, <2>2
<1>15. ParseInv'
  <2>1. CASE Len(d) < 2
    <3>1. b = 0 /\ ok' = TRUE /\ pc' = "return" /\ dataRead' = dataRead + keep'
      BY <1>2, <1>5, <1>6, <1>7, <2>1
    <3>2. state' # "done"
      BY <1>5
    <3>3. dataRead' = Read'
      BY <1>2, <1>9, <1>10, <1>13, <3>1
    <3>4. Total' < Size'
      BY <1>2, <1>3, <1>4, <1>6, <1>12, <2>1 DEF SameMessage
    <3> QED
      BY <1>14, <3>1, <3>2, <3>3, <3>4 DEF ParseInv
  <2>2. CASE Len(d) >= 2
    <3>1. pc' = (IF b > 0 THEN "content" ELSE "line") /\ dataRead' = dataRead
      BY <1>2, <1>5, <1>6, <2>2
    <3>2. Read' = dataRead' + keep'
      BY <1>2, <1>9, <1>10, <1>13, <3>1
    <3>3. CASE b = 1
      <4>1. pc' = "content" /\ state' = "content"
        BY <1>5, <3>1, <3>3
      <4> QED
        BY <1>14, <3>2, <4>1 DEF ParseInv
    <3>4. CASE b = 0
      <4>1. pc' = "line" /\ state' # "content"
        BY <1>5, <3>1, <3>4
      <4>2. Len(data') >= 2
        BY <1>2, <1>6, <1>12, <2>2, <3>4
      <4>3. Read' # HeadLen'
        BY <1>2, <1>7, <1>12, <1>13, <2>2, <3>4 DEF SameMessage
      <4> QED
        BY <1>14, <3>2, <4>1, <4>2, <4>3 DEF ParseInv
    <3> QED
      BY <1>13, <3>3, <3>4
  <2> QED
    BY <1>2, <1>6, <2>1, <2>2
<1> QED
  BY <1>12, <1>15 DEF Good

-----------------------------------------------------------------------------
(* The search for the end line.                                            *)

\* The search begins at the contents, all of which are before it or still to come.
LEMMA ContentGood ==
  ASSUME TypeInv, Fit, Good, Content
  PROVE  Good'
<1>1. /\ pc = "content" /\ pc # "idle" /\ pc' = "find"
      /\ find' = [at |-> slen, len |-> Len(data) - slen, left |-> Len(data),
                  all |-> slen + Len(data) > MaxByte]
      /\ UNCHANGED <<state, tmp, dataRead, seen, tid, lent, slen, data, keep>>
      /\ UNCHANGED callFrame
  BY DEF Content, context
<1>2. /\ StreamInv' /\ HistoryInv' /\ IdleInv' /\ CallInv' /\ SameMessage /\ Read' = Read
      /\ Total' = Total
  BY <1>1, Stayed
<1>3. Read = dataRead + keep /\ Progress(Read) /\ state = "content"
  BY <1>1 DEF Good, ParseInv
<1>4. Progress(Read)'
  BY <1>1, <1>2, <1>3 DEF Progress, SameMessage
<1>5. ParseInv'
  BY <1>1, <1>2, <1>3, <1>4 DEF ParseInv
<1> QED
  BY <1>2, <1>5 DEF Good

\* The contents lie at the start of the parser's data, and the end line behind them; no
\* other place is taken for it.
LEMMA MarkersAre ==
  ASSUME TypeInv, Fit, Good, pc = "find"
  PROVE  /\ find.left = Len(data) /\ find.all = (slen + Len(data) > MaxByte)
         /\ ~find.all \/ Len(data) >= BodyLen + 5
         /\ slen \in 0 .. BodyLen /\ tid = Id /\ Read = HeadLen + 1
         /\ Markers # {} <=> Len(data) >= BodyLen + 2
         /\ \A p \in Markers : FirstMarker(p) => p = BodyLen
         /\ Len(data) >= BodyLen + 5 =>
              /\ data[BodyLen + 3] = Flag /\ data[BodyLen + 4] = CR /\ data[BodyLen + 5] = LF
<1> DEFINE n == BodyLen
           l == Len(data)
<1>1. /\ MessageFacts /\ data \in Seq(Symbol) /\ l \in Nat
      /\ \A j \in 1 .. l : data[j] = Symb(Read + j)
  <2>1. pc # "idle"
    OBVIOUS
  <2> QED
    BY <2>1, CallFacts
<1>2. /\ HeadLen \in {6, 9} /\ n \in Nat /\ n > 0 /\ Size = HeadLen + n + 6
      /\ 2 * Size <= MaxByte /\ MaxByte \in Nat /\ Id \in Nat /\ Id # 0
  BY <1>1, ContextAssumption, SizeFacts
<1>3. Read = HeadLen + 1 /\ tid = Id /\ slen \in 0 .. n
  <2>1. Progress(Read) /\ state = "content"
    BY DEF Good, ParseInv
  <2> QED
    BY <2>1 DEF Progress
<1>4. find = [at |-> slen, len |-> l - slen, left |-> l, all |-> slen + l > MaxByte]
  BY DEF Good, ParseInv
<1>5. find.at = slen /\ find.len = l - slen /\ find.left = l /\ find.all = (slen + l > MaxByte)
  BY <1>4
<1> HIDE DEF n, l
<1>6. ~find.all \/ l >= n + 5
  <2>1. slen + l > MaxByte => l >= n + 5
    BY <1>1, <1>2, <1>3
  <2>2. find.all => slen + l > MaxByte
    BY <1>5, Zenon
  <2> QED
    BY <2>1, <2>2
<1>7. \A i \in 1 .. n : i <= l => data[i] # Dash(Id)
  <2> SUFFICES ASSUME NEW i \in 1 .. n, i <= l PROVE data[i] # Dash(Id)
    OBVIOUS
  <2>1. i \in 1 .. l /\ i \in 1 .. BodyLen
    BY <1>1, <1>2 DEF n
  <2>2. data[i] = Symb(HeadLen + 1 + i)
    BY <1>1, <1>3, <2>1
  <2>3. Symb(HeadLen + 1 + i) # Dash(Id)
    BY <1>1, <2>1 DEF MessageFacts
  <2> QED
    BY <2>2, <2>3
<1>8. /\ l >= n + 1 => data[n + 1] = LF
      /\ l >= n + 2 => data[n + 2] = Dash(Id)
      /\ l >= n + 5 => data[n + 3] = Flag /\ data[n + 4] = CR /\ data[n + 5] = LF
  <2>1. /\ l >= n + 1 => n + 1 \in 1 .. l
        /\ l >= n + 2 => n + 2 \in 1 .. l
        /\ l >= n + 5 => n + 3 \in 1 .. l /\ n + 4 \in 1 .. l /\ n + 5 \in 1 .. l
    BY <1>1, <1>2
  <2>2. /\ Read + (n + 1) = HeadLen + n + 2 /\ Read + (n + 2) = HeadLen + n + 3
        /\ Read + (n + 3) = HeadLen + n + 4 /\ Read + (n + 4) = HeadLen + n + 5
        /\ Read + (n + 5) = HeadLen + n + 6
    BY <1>2, <1>3
  <2>3. /\ Symb(HeadLen + n + 2) = LF /\ Symb(HeadLen + n + 3) = Dash(Id)
        /\ Symb(HeadLen + n + 4) = Flag
        /\ Symb(HeadLen + n + 5) = CR /\ Symb(HeadLen + n + 6) = LF
    BY <1>1 DEF MessageFacts, n
  <2>4. /\ l >= n + 1 => data[n + 1] = Symb(Read + (n + 1))
        /\ l >= n + 2 => data[n + 2] = Symb(Read + (n + 2))
        /\ l >= n + 5 => /\ data[n + 3] = Symb(Read + (n + 3))
                         /\ data[n + 4] = Symb(Read + (n + 4))
                         /\ data[n + 5] = Symb(Read + (n + 5))
    BY <1>1, <2>1, Zenon
  <2> QED
    BY <2>2, <2>3, <2>4
<1>9. ASSUME NEW p \in Markers PROVE p \in Nat /\ p >= n /\ l >= n + 2
  <2>1. /\ p \in slen .. slen + (l - slen) - 2 /\ p + 2 <= l
        /\ data[p + 2].kind = "dash" /\ (tid = 0 \/ data[p + 2].id = tid)
    BY <1>5 DEF Markers, MarkerLen, l
  <2>2. p \in Nat /\ p + 2 \in 1 .. l
    BY <1>1, <1>3, <2>1
  <2>3. data[p + 2] \in Symbol
    BY <1>1, <2>2, ElementOfSeq DEF l
  <2>4. data[p + 2] = Dash(Id)
    <3> DEFINE x == data[p + 2]
    <3>1. x \in Symbol /\ x.kind = "dash" /\ x.id = Id
      BY <1>2, <1>3, <2>1, <2>3
    <3> HIDE DEF x
    <3>2. x = Dash(Id)
      BY <3>1 DEF Symbol, Dash
    <3> QED
      BY <3>2 DEF x
  <2>5. p + 2 \notin 1 .. n
    BY <1>7, <2>2, <2>4
  <2>6. p + 2 # n + 1
    <3>1. LF # Dash(Id)
      BY DEF LF, Dash
    <3>2. p + 2 = n + 1 => data[p + 2] = LF
      BY <1>8, <2>2
    <3> QED
      BY <2>4, <3>1, <3>2
  <2> QED
    BY <1>1, <1>2, <2>1, <2>2, <2>5, <2>6
<1>10. ASSUME l >= n + 2 PROVE n \in Markers
  <2>1. n \in slen .. slen + (l - slen) - 2 /\ n + 2 <= l
    BY <1>1, <1>2, <1>3, <1>10
  <2>2. data[n + 1] = LF /\ data[n + 2] = Dash(Id)
    BY <1>1, <1>2, <1>8, <1>10
  <2>3. data[n + 2].kind = "dash" /\ data[n + 2].id = tid
    BY <1>3, <2>2 DEF Dash
  <2> QED
    BY <1>5, <2>1, <2>2, <2>3 DEF Markers, MarkerLen, l
<1>11. ASSUME NEW p \in Markers, FirstMarker(p) PROVE p = n
  <2>1. p >= n /\ p \in Nat /\ n \in Markers
    BY <1>9, <1>10
  <2>2. p <= n
    BY <1>11, <2>1 DEF FirstMarker
  <2> QED
    BY <1>2, <2>1, <2>2
<1>12. Markers # {} <=> l >= n + 2
  BY <1>9, <1>10
<1> QED
  BY <1>3, <1>5, <1>6, <1>8, <1>11, <1>12 DEF n, l

\* The contents are not complete.
LEMMA NoMarkerGood ==
  ASSUME TypeInv, Fit, Good, NoMarker
  PROVE  Good'
<1>1. pc = "find" /\ pc # "idle" /\ Markers = {}
  BY DEF NoMarker
<1>2. /\ slen' = Searched /\ dataRead' = dataRead + keep /\ ok' = TRUE /\ pc' = "return"
      /\ UNCHANGED <<state, seen, tid, lent, data, keep, find>> /\ UNCHANGED callFrame
  BY DEF NoMarker, Return, parser
<1>3. /\ MessageFacts /\ Len(data) \in Nat /\ Read \in Nat /\ Total = Read + Len(data)
  BY <1>1, CallFacts
<1>4. /\ Read = dataRead + keep /\ Progress(Read) /\ state = "content"
  BY <1>1 DEF Good, ParseInv
<1>5. find.left = Len(data) /\ Read = HeadLen + 1 /\ ~(Len(data) >= BodyLen + 2)
  BY <1>1, MarkersAre
<1>6. /\ HeadLen \in {6, 9} /\ BodyLen \in Nat /\ Size = HeadLen + BodyLen + 6
  BY <1>3, SizeFacts
<1>7. Searched \in 0 .. BodyLen
  BY <1>3, <1>5, <1>6 DEF Searched, MarkerLen
<1>8. Total < Size
  BY <1>3, <1>5, <1>6
<1>9. /\ StreamInv' /\ HistoryInv' /\ IdleInv' /\ CallInv' /\ SameMessage /\ Read' = Read
      /\ Total' = Total
  BY <1>1, <1>2, Stayed
<1>10. Progress(Read)'
  BY <1>2, <1>4, <1>7, <1>9 DEF Progress, SameMessage
<1>11. ParseInv'
  BY <1>2, <1>4, <1>8, <1>9, <1>10 DEF ParseInv, SameMessage
<1> QED
  BY <1>9, <1>11 DEF Good

\* tmp has room for what the search has looked at.
LEMMA GarbageGood ==
  ASSUME TypeInv, Fit, Good
  PROVE  ~Garbage
<1> SUFFICES ASSUME Garbage PROVE FALSE
  OBVIOUS
<1>1. pc = "find" /\ pc # "idle" /\ Markers = {} /\ find.all
  BY DEF Garbage
<1>2. Len(data) >= BodyLen + 5 /\ ~(Len(data) >= BodyLen + 2)
  BY <1>1, MarkersAre
<1>3. Len(data) \in Nat /\ BodyLen \in Nat
  BY <1>1, CallFacts, SizeFacts
<1> QED
  BY <1>2, <1>3

\* The end line is not complete.
LEMMA MarkerCutGood ==
  ASSUME TypeInv, Fit, Good, MarkerCut
  PROVE  Good'
<1>1. pc = "find" /\ pc # "idle"
  BY DEF MarkerCut
<1>2. PICK p \in Markers :
        /\ FirstMarker(p) /\ find.left - p - MarkerLen < 1 + EolLen
        /\ IF find.all
             THEN Return(FALSE) /\ UNCHANGED <<slen, dataRead>>
             ELSE slen' = p /\ dataRead' = dataRead + keep /\ Return(TRUE)
  BY DEF MarkerCut
<1>3. UNCHANGED <<state, seen, tid, lent, data, keep, find>> /\ UNCHANGED callFrame
  BY DEF MarkerCut, parser
<1>4. /\ p = BodyLen /\ find.left = Len(data) /\ Read = HeadLen + 1
      /\ ~find.all \/ Len(data) >= BodyLen + 5
  BY <1>1, <1>2, MarkersAre
<1>5. /\ MessageFacts /\ Len(data) \in Nat /\ Read \in Nat /\ Total = Read + Len(data)
  BY <1>1, CallFacts
<1>6. /\ HeadLen \in {6, 9} /\ BodyLen \in Nat /\ Size = HeadLen + BodyLen + 6
  BY <1>5, SizeFacts
<1>7. Len(data) < BodyLen + 5
  BY <1>2, <1>4, <1>5, <1>6 DEF MarkerLen, EolLen
<1>8. slen' = BodyLen /\ dataRead' = dataRead + keep /\ ok' = TRUE /\ pc' = "return"
  <2>1. ~find.all
    BY <1>4, <1>5, <1>6, <1>7
  <2> QED
    BY <1>2, <1>4, <2>1 DEF Return
<1>9. Total < Size
  BY <1>4, <1>5, <1>6, <1>7
<1>10. /\ Read = dataRead + keep /\ Progress(Read) /\ state = "content"
  BY <1>1 DEF Good, ParseInv
<1>11. /\ StreamInv' /\ HistoryInv' /\ IdleInv' /\ CallInv' /\ SameMessage /\ Read' = Read
       /\ Total' = Total
  BY <1>1, <1>3, <1>8, Stayed
<1>12. Progress(Read)'
  BY <1>3, <1>6, <1>8, <1>10, <1>11 DEF Progress, SameMessage
<1>13. ParseInv'
  BY <1>3, <1>8, <1>9, <1>10, <1>11, <1>12 DEF ParseInv, SameMessage
<1> QED
  BY <1>11, <1>13 DEF Good

\* The place found is the end line, and it is complete.
LEMMA EndLemma ==
  ASSUME TypeInv, Fit, Good, pc = "find", NEW p \in Markers, FirstMarker(p),
         find.left - p - MarkerLen >= 1 + EolLen
  PROVE  p = BodyLen /\ Len(data) >= BodyLen + 5 /\ IsFlag(p) /\ IsEol(p)
<1>1. pc # "idle"
  OBVIOUS
<1>2. data \in Seq(Symbol) /\ Len(data) \in Nat /\ BodyLen \in Nat /\ Id # 0
  BY <1>1, CallFacts, SizeFacts
<1>3. p = BodyLen /\ find.left = Len(data) /\ tid = Id
  BY MarkersAre
<1>4. Len(data) >= BodyLen + 5
  BY <1>2, <1>3 DEF MarkerLen, EolLen
<1>5. data[BodyLen + 3] = Flag /\ data[BodyLen + 4] = CR /\ data[BodyLen + 5] = LF
  BY <1>4, MarkersAre
<1>6. IsFlag(p)
  <2>1. p + MarkerLen + 1 = BodyLen + 3
    BY <1>2, <1>3 DEF MarkerLen
  <2> QED
    BY <1>2, <1>3, <1>5, <2>1 DEF IsFlag
<1>7. IsEol(p)
  <2> DEFINE a == BodyLen + 3
             b == BodyLen + 5
             x == Part(data, a, b)
             y == <<CR, LF>>
  <2>1. a \in Nat /\ b \in Nat /\ a <= b /\ b <= Len(data) /\ b - a = 2
        /\ a + 1 = BodyLen + 4 /\ a + 2 = BodyLen + 5
    BY <1>2, <1>4
  <2>2. y \in Seq(Symbol) /\ Len(y) = 2 /\ y[1] = CR /\ y[2] = LF
    BY SymbolTypes
  <2>3. IsEol(p) <=> x = y
    <3>1. p + MarkerLen + 2 = a + 1 /\ p + MarkerLen + 3 = b
      BY <1>2, <1>3 DEF MarkerLen
    <3> QED
      BY <3>1 DEF IsEol, Part
  <2> HIDE DEF a, b, y
  <2>4. x \in Seq(Symbol) /\ Len(x) = b - a /\ \A i \in 1 .. b - a : x[i] = data[a + i]
    BY <1>2, <2>1, PartLemma
  <2> HIDE DEF x
  <2>5. x[1] = data[a + 1] /\ x[2] = data[a + 2]
    <3>1. 1 \in 1 .. b - a /\ 2 \in 1 .. b - a
      BY <2>1
    <3> QED
      BY <2>4, <3>1
  <2>6. Len(x) = Len(y) /\ \A i \in 1 .. Len(x) : x[i] = y[i]
    BY <1>5, <2>1, <2>2, <2>4, <2>5
  <2>7. x = y
    BY <2>2, <2>4, <2>6, SeqEqual
  <2> QED
    BY <2>3, <2>7
<1> QED
  BY <1>3, <1>4, <1>6, <1>7

\* No marker of the next message's contents is a false one.
LEMMA MarkerFalseGood ==
  ASSUME TypeInv, Fit, Good
  PROVE  ~MarkerFalse
BY EndLemma DEF MarkerFalse

\* The end line that is found is the message's own.
LEMMA MarkerEndGood ==
  ASSUME TypeInv, Fit, Good, MarkerEnd
  PROVE  Good'
<1>1. pc = "find" /\ pc # "idle"
  BY DEF MarkerEnd
<1>2. PICK p \in Markers :
        /\ FirstMarker(p) /\ find.left - p - MarkerLen >= 1 + EolLen
        /\ slen' = p /\ dataRead' = dataRead + keep + p + MarkerLen + 1 + EolLen
  BY DEF MarkerEnd
<1>3. /\ state' = "done" /\ ok' = TRUE /\ pc' = "return"
      /\ UNCHANGED <<seen, tid, lent, data, keep, find>> /\ UNCHANGED callFrame
  BY DEF MarkerEnd, Return, parser
<1>4. p = BodyLen /\ Len(data) >= BodyLen + 5
  BY <1>1, <1>2, EndLemma
<1>5. /\ MessageFacts /\ Len(data) \in Nat /\ Read \in Nat /\ Total = Read + Len(data)
  BY <1>1, CallFacts
<1>6. /\ HeadLen \in {6, 9} /\ BodyLen \in Nat /\ Size = HeadLen + BodyLen + 6
  BY <1>5, SizeFacts
<1>7. Read = dataRead + keep /\ Read = HeadLen + 1 /\ tid = Id /\ seen = Heads
  BY <1>1 DEF Good, ParseInv, Progress
<1>8. dataRead \in Nat /\ keep \in Nat
  BY DEF TypeInv, TypeOK
<1>9. dataRead' = Size /\ slen' = BodyLen /\ Size <= Total
  <2>1. slen' = p /\ dataRead' = dataRead + keep + p + 2 + 1 + 2
    BY <1>2 DEF MarkerLen, EolLen
  <2>2. dataRead' = Size
    BY <1>4, <1>6, <1>7, <1>8, <2>1
  <2>3. Size <= Total
    BY <1>4, <1>5, <1>6, <1>7
  <2> QED
    BY <1>4, <2>1, <2>2, <2>3
<1>10. /\ StreamInv' /\ HistoryInv' /\ IdleInv' /\ CallInv' /\ SameMessage /\ Read' = Read
       /\ Total' = Total
  BY <1>1, <1>3, Stayed
<1>11. ParseInv'
  BY <1>3, <1>7, <1>9, <1>10 DEF ParseInv, SameMessage
<1> QED
  BY <1>10, <1>11 DEF Good

-----------------------------------------------------------------------------
(* Packets, and the start of a call.                                       *)

\* Counts of symbols.
LEMMA Counts ==
  ASSUME TypeInv, StreamInv
  PROVE  /\ feed \in Feeds /\ Whole \in Seq(Symbol) /\ Len(Whole) \in Nat
         /\ source \in Seq(Symbol) /\ buff \in Seq(Symbol) /\ tmp \in Seq(Symbol)
         /\ Len(source) \in Nat /\ Len(buff) \in Nat /\ Len(tmp) \in Nat
         /\ Arrived \in Nat /\ Behind \in Nat /\ Arrived <= Len(Whole)
         /\ Arrived + Len(source) = Len(Whole) /\ Behind + Len(buff) = Arrived
         /\ MaxByte \in Nat
<1>1. /\ feed \in Feeds /\ source \in Seq(Symbol) /\ buff \in Seq(Symbol)
      /\ tmp \in Seq(Symbol)
  BY DEF TypeInv, TypeOK
<1>2. /\ Whole \in Seq(Symbol) /\ Len(Whole) \in Nat
  BY <1>1, PlaceLemma
<1>3. Len(source) \in Nat /\ Len(buff) \in Nat /\ Len(tmp) \in Nat
  BY <1>1, LenProperties
<1> QED
  BY <1>1, <1>2, <1>3, ContextAssumption DEF StreamInv, Arrived, Behind

\* Before the first packet all of the stream is still to come.
LEMMA GoodInit ==
  ASSUME Init
  PROVE  Good
<1>1. feed \in Feeds /\ source = Whole /\ buff = <<>> /\ exported = <<>> /\ pc = "idle"
  BY DEF Init, Whole
<1>2. Whole \in Seq(Symbol) /\ Len(Whole) \in Nat /\ Place(0) = 0 /\ Len(feed.sent) \in Nat
  BY <1>1, PlaceLemma
<1>3. Len(exported) = 0 /\ Len(buff) = 0
  BY <1>1
<1>4. Arrived = 0 /\ Behind = 0 /\ Start = 0
  <2>1. Arrived = 0
    BY <1>1, <1>2 DEF Arrived
  <2>2. Behind = 0
    BY <1>3, <2>1 DEF Behind
  <2> QED
    BY <1>2, <1>3, <2>1, <2>2 DEF Start
<1>5. Part(Whole, 0, Len(Whole)) = Whole /\ Part(Whole, 0, 0) = <<>>
  <2>1. SubSeq(Whole, 1, Len(Whole)) = Whole
    BY <1>2, SubSeqFull
  <2>2. Part(Whole, 0, Len(Whole)) = Whole
    BY <2>1 DEF Part
  <2>3. 0 \in Nat
    OBVIOUS
  <2> QED
    BY <1>2, <2>2, <2>3, PartEmpty
<1>6. StreamInv
  BY <1>1, <1>2, <1>3, <1>4, <1>5 DEF StreamInv
<1>7. HistoryInv
  BY <1>2, <1>3 DEF HistoryInv
<1>8. IdleInv /\ CallInv /\ ParseInv
  BY <1>4 DEF Init, IdleInv, CallInv, ParseInv
<1> QED
  BY <1>6, <1>7, <1>8 DEF Good

\* A packet is the next part of the stream.
LEMMA UpdateGood ==
  ASSUME TypeInv, Fit, Good, NEW n \in 1 .. Len(source), Update(n)
  PROVE  Good'
<1> DEFINE s == Whole
           a == Arrived
           w == Len(Whole)
           y == Len(source)
<1>1. /\ pc = "idle" /\ buff = <<>> /\ buff' = SubSeq(source, 1, n)
      /\ source' = Drop(source, n)
      /\ UNCHANGED <<feed, state, tmp, dataRead, seen, tid, lent, slen, pc, copied, data, keep,
                     find, ok, exported>>
  BY DEF Update, context, parser
<1>2. /\ s \in Seq(Symbol) /\ w \in Nat /\ a \in Nat /\ y \in Nat /\ a + y = w
      /\ Behind + Len(buff) = a /\ Behind \in Nat /\ source \in Seq(Symbol)
      /\ source = Part(s, a, w) /\ w <= Len(s)
  BY Counts DEF Good, StreamInv
<1>3. Len(buff) = 0 /\ Behind = a /\ n \in Nat /\ n <= y
  <2>1. Len(buff) = 0
    BY <1>1
  <2> QED
    BY <1>2, <2>1
<1>4. Len(buff') = n /\ Len(source') = y - n
  <2>1. n \in Nat /\ n <= Len(source) /\ source \in Seq(Symbol)
    BY <1>2, <1>3
  <2>2. Len(SubSeq(source, 1, n)) = n
    BY <2>1, CutType
  <2>3. Len(Drop(source, n)) = Len(source) - n
    BY <2>1, DropType
  <2> QED
    BY <1>1, <2>2, <2>3, Zenon
<1>5. SameMessage /\ HistoryInv'
  BY <1>1, SameLemma DEF Good
<1>6. Arrived' = a + n /\ Behind' = a
  BY <1>2, <1>3, <1>4, <1>5 DEF Arrived, Behind, SameMessage
<1>7. buff' = Part(s, a, a + n) /\ source' = Part(s, a + n, w)
  <2>1. buff' = Part(source, 0, n) /\ source' = Part(source, n, y)
    BY <1>1 DEF Part, Drop
  <2> HIDE DEF s, a, w, y
  <2>2. 0 \in Nat /\ 0 <= n /\ a + n <= w /\ a + y <= w /\ a + 0 = a
    BY <1>2, <1>3
  <2>3. Part(Part(s, a, w), 0, n) = Part(s, a + 0, a + n)
    BY <1>2, <1>3, <2>2, PartOfPart
  <2>4. Part(Part(s, a, w), n, y) = Part(s, a + n, a + y)
    BY <1>2, <1>3, <2>2, PartOfPart
  <2> QED
    BY <1>2, <2>1, <2>2, <2>3, <2>4
<1>8. StreamInv'
  BY <1>2, <1>3, <1>4, <1>5, <1>6, <1>7 DEF StreamInv, SameMessage
<1>9. IdleInv'
  BY <1>1, <1>3, <1>5, <1>6 DEF Good, IdleInv, Progress, SameMessage
<1>10. CallInv' /\ ParseInv'
  BY <1>1 DEF CallInv, ParseInv
<1> QED
  BY <1>5, <1>8, <1>9, <1>10 DEF Good

\* A call with nothing pending begins at the begin of a message.
LEMMA BeginFreshGood ==
  ASSUME TypeInv, Fit, Good, BeginFresh
  PROVE  Good'
<1>1. /\ pc = "idle" /\ buff # <<>> /\ state = "done"
      /\ state' = "unknow" /\ tmp' = <<>> /\ dataRead' = 0
      /\ seen' = {} /\ tid' = 0 /\ slen' = 0
      /\ pc' = "parse" /\ copied' = 0 /\ data' = buff /\ keep' = 0
      /\ UNCHANGED <<feed, source, buff, exported>>
  BY DEF BeginFresh
<1>2. /\ feed \in Feeds /\ Len(Whole) \in Nat /\ Arrived <= Len(Whole)
      /\ Behind + Len(buff) = Arrived /\ Behind \in Nat /\ Arrived \in Nat
      /\ buff \in Seq(Symbol) /\ Len(buff) \in Nat /\ buff = Part(Whole, Behind, Arrived)
  BY Counts DEF Good, StreamInv
<1>3. Len(buff) > 0
  BY <1>1, <1>2, EmptySeq
<1>4. Behind = Start
  BY <1>1 DEF Good, IdleInv
<1>5. Len(exported) < Len(feed.sent)
  <2>1. Len(exported) <= Len(feed.sent) /\ Len(feed.sent) \in Nat /\ Len(exported) \in Nat
    <3>1. exported \in Seq(Export)
      BY DEF TypeInv, TypeOK
    <3> QED
      BY <1>2, <3>1, PlaceLemma, LenProperties DEF Good, HistoryInv
  <2>2. Len(exported) # Len(feed.sent)
    <3> SUFFICES ASSUME Len(exported) = Len(feed.sent) PROVE FALSE
      OBVIOUS
    <3>1. Start = Len(Whole)
      BY <1>2, PlaceLemma DEF Start
    <3> QED
      BY <1>2, <1>3, <1>4, <3>1
  <2> QED
    BY <2>1, <2>2
<1>6. SameMessage /\ HistoryInv'
  BY <1>1, SameLemma DEF Good
<1>7. Arrived' = Arrived /\ Behind' = Behind /\ StreamInv'
  BY <1>1, <1>6 DEF Good, StreamInv, Arrived, Behind, SameMessage
<1>8. Total' = Len(buff) /\ Read' = 0 /\ Len(data') = Len(buff)
  BY <1>1, <1>2 DEF Total, Base, Read
<1>9. CallInv'
  <2>1. data' = Part(Whole', Start' + Read', Start' + Total')
    <3>1. Start + 0 = Behind /\ Start + Len(buff) = Arrived
      BY <1>2, <1>4
    <3> QED
      BY <1>1, <1>2, <1>6, <1>8, <3>1 DEF SameMessage
  <2>2. Len(data') <= Total'
    BY <1>2, <1>8
  <2>3. Behind' = Start' /\ Len(buff') > 0 /\ Len(exported') < Len(feed'.sent)
    BY <1>1, <1>3, <1>4, <1>5, <1>6, <1>7 DEF SameMessage
  <2> QED
    BY <1>1, <2>1, <2>2, <2>3 DEF CallInv
<1>10. ParseInv' /\ IdleInv'
  BY <1>1, <1>8 DEF ParseInv, Progress, IdleInv
<1> QED
  BY <1>6, <1>7, <1>9, <1>10 DEF Good

\* Of a pending message there is always room for more in tmp.
LEMMA RoomLemma ==
  ASSUME TypeInv, Fit, Good, pc = "idle", buff # <<>>, state # "done"
  PROVE  /\ MessageFacts /\ CopyLen \in 1 .. Len(buff) /\ Len(tmp) + CopyLen <= MaxByte
         /\ Behind = Start + Len(tmp) /\ tmp = Part(Whole, Start, Behind) /\ Len(tmp) < Size
         /\ dataRead <= Len(tmp) /\ Progress(dataRead) /\ lent \subseteq {Method, Mid}
         /\ Len(exported) < Len(feed.sent)
<1>1. /\ Behind = Start + Len(tmp) /\ tmp = Part(Whole, Start, Behind) /\ Len(tmp) < Size
      /\ dataRead <= Len(tmp) /\ Progress(dataRead) /\ lent \subseteq {Method, Mid}
      /\ Len(exported) < Len(feed.sent)
  BY DEF Good, IdleInv
<1>2. MessageFacts
  <2>1. feed \in Feeds /\ exported \in Seq(Export)
    BY DEF TypeInv, TypeOK
  <2> QED
    BY <1>1, <2>1, CurrentLemma
<1>3. Len(buff) \in Nat /\ Len(tmp) \in Nat /\ MaxByte \in Nat /\ buff \in Seq(Symbol)
  BY Counts DEF Good
<1>4. Len(buff) > 0
  BY <1>3, EmptySeq
<1>5. Len(tmp) < MaxByte
  <2>1. BodyLen \in Nat /\ HeadLen \in Nat /\ Size = HeadLen + BodyLen + 6 /\ 2 * Size <= MaxByte
    BY <1>2, SizeFacts
  <2>2. Len(tmp) < Size /\ Len(tmp) \in Nat /\ MaxByte \in Nat
    BY <1>1, <1>3, Zenon
  <2> HIDE DEF Fit, Good
  <2> QED
    BY <2>1, <2>2
<1>6. CopyLen \in 1 .. Len(buff) /\ Len(tmp) + CopyLen <= MaxByte
  BY <1>3, <1>4, <1>5 DEF CopyLen
<1> QED
  BY <1>1, <1>2, <1>6

\* What a message needs never goes over the room of tmp.
LEMMA OverDataGood ==
  ASSUME TypeInv, Fit, Good
  PROVE  ~OverData
<1> SUFFICES ASSUME OverData PROVE FALSE
  OBVIOUS
<1>1. CopyLen <= 0 /\ CopyLen \in 1 .. Len(buff)
  BY RoomLemma DEF OverData
<1>2. Len(buff) \in Nat
  BY Counts DEF Good
<1> QED
  BY <1>1, <1>2

\* A call with a pending message goes on where the last one stopped.
LEMMA BeginMoreGood ==
  ASSUME TypeInv, Fit, Good, BeginMore
  PROVE  Good'
<1> DEFINE c == CopyLen
           s == Whole
           a == Start
           b == Behind
           e == Arrived
<1>1. /\ pc = "idle" /\ buff # <<>> /\ state # "done"
      /\ tmp' = tmp \o SubSeq(buff, 1, c) /\ data' = Drop(tmp', dataRead) /\ keep' = 0
      /\ pc' = "parse" /\ copied' = c
      /\ UNCHANGED <<feed, source, buff, state, dataRead, seen, tid, lent, slen, exported>>
  BY DEF BeginMore
<1>2. /\ MessageFacts /\ c \in 1 .. Len(buff)
      /\ b = a + Len(tmp) /\ tmp = Part(s, a, b) /\ Len(tmp) < Size
      /\ dataRead <= Len(tmp) /\ Progress(dataRead) /\ lent \subseteq {Method, Mid}
      /\ Len(exported) < Len(feed.sent)
  BY <1>1, RoomLemma
<1>3. /\ s \in Seq(Symbol) /\ Len(s) \in Nat /\ e <= Len(s) /\ b + Len(buff) = e
      /\ b \in Nat /\ e \in Nat /\ Len(buff) \in Nat /\ Len(tmp) \in Nat
      /\ buff \in Seq(Symbol) /\ tmp \in Seq(Symbol) /\ buff = Part(s, b, e)
  BY Counts DEF Good, StreamInv
<1>4. a \in Nat /\ dataRead \in Nat
  BY <1>2, SizeFacts DEF TypeInv, TypeOK
<1> HIDE DEF c, s, a, b, e
<1>5. SubSeq(buff, 1, c) = Part(s, b, b + c)
  <2>1. SubSeq(buff, 1, c) = Part(buff, 0, c)
    BY DEF Part
  <2>2. 0 \in Nat /\ c \in Nat /\ 0 <= c /\ b + c <= e /\ b + 0 = b
    BY <1>2, <1>3
  <2>3. Part(Part(s, b, e), 0, c) = Part(s, b + 0, b + c)
    BY <1>3, <2>2, PartOfPart
  <2>4. buff = Part(s, b, e)
    BY <1>3
  <2> QED
    BY <2>1, <2>2, <2>3, <2>4
<1> DEFINE u == b + c
           t == tmp'
<1>6. u \in Nat /\ a <= b /\ b <= u /\ u <= Len(s) /\ u - a = Len(tmp) + c
  BY <1>2, <1>3, <1>4
<1> HIDE DEF u
<1>7. t = Part(s, a, u) /\ Len(t) = Len(tmp) + c /\ t \in Seq(Symbol)
  <2>1. t = Part(s, a, b) \o Part(s, b, u)
    BY <1>1, <1>2, <1>5 DEF u
  <2>2. Part(s, a, b) \o Part(s, b, u) = Part(s, a, u)
    <3>1. s \in Seq(Symbol) /\ a \in Nat /\ b \in Nat /\ u \in Nat
      BY <1>3, <1>4, <1>6
    <3> QED
      BY <1>6, <3>1, PartConcat
  <2>3. Part(s, a, u) \in Seq(Symbol) /\ Len(Part(s, a, u)) = u - a
    <3>1. s \in Seq(Symbol) /\ a \in Nat /\ u \in Nat /\ a <= u /\ u <= Len(s)
      BY <1>3, <1>4, <1>6
    <3> QED
      BY <3>1, PartLemma
  <2> QED
    BY <1>6, <2>1, <2>2, <2>3
<1>8. data' = Part(s, a + dataRead, u) /\ Len(data') = Len(t) - dataRead
  <2> DEFINE y == Len(t)
  <2>1. data' = Part(t, dataRead, y)
    BY <1>1 DEF Drop, Part
  <2>2. /\ y \in Nat /\ dataRead <= y /\ a + y <= u /\ a + y = u
    BY <1>2, <1>3, <1>4, <1>6, <1>7
  <2>3. Len(data') = Len(t) - dataRead
    BY <1>1, <1>4, <1>7, <2>2, DropLemma
  <2> HIDE DEF y, t
  <2>4. Part(Part(s, a, u), dataRead, y) = Part(s, a + dataRead, a + y)
    BY <1>3, <1>4, <1>6, <2>2, PartOfPart
  <2> QED
    BY <1>7, <2>1, <2>2, <2>3, <2>4
<1>9. SameMessage /\ HistoryInv'
  BY <1>1, SameLemma DEF Good
<1>10. Arrived' = Arrived /\ Behind' = Behind /\ StreamInv'
  BY <1>1, <1>9 DEF Good, StreamInv, Arrived, Behind, SameMessage
<1>11. Total' = Len(t) /\ Read' = dataRead /\ copied' # 0
  <2>1. copied' # 0
    BY <1>1, <1>2, <1>3
  <2>2. Total' = Len(t)
    BY <2>1 DEF Total, Base
  <2>3. Len(t) \in Nat
    BY <1>2, <1>3, <1>7
  <2> QED
    BY <1>4, <1>8, <2>1, <2>2, <2>3 DEF Read
<1>12. CallInv'
  <2>1. data' = Part(Whole', Start' + Read', Start' + Total')
    <3>1. a + Len(t) = u
      BY <1>2, <1>3, <1>4, <1>6, <1>7
    <3> QED
      BY <1>8, <1>9, <1>11, <3>1 DEF SameMessage, s, a
  <2>2. Len(data') <= Total'
    BY <1>2, <1>3, <1>4, <1>7, <1>8, <1>11
  <2>3. /\ copied' <= Len(t) /\ copied' <= Len(buff') /\ Len(t) - copied' < Size'
    BY <1>1, <1>2, <1>3, <1>7, <1>9 DEF SameMessage
  <2>4. tmp' = Part(Whole', Start', Start' + Len(tmp')) /\ Behind' = Start' + Len(tmp') - copied'
    <3>1. a + Len(t) = u /\ b = a + Len(t) - c
      BY <1>2, <1>3, <1>4, <1>6, <1>7
    <3> QED
      BY <1>1, <1>7, <1>9, <1>10, <3>1 DEF SameMessage, s, a, b
  <2>5. lent' \subseteq {Method, Mid} /\ Len(exported') < Len(feed'.sent)
    BY <1>1, <1>2
  <2> QED
    BY <1>11, <2>1, <2>2, <2>3, <2>4, <2>5 DEF CallInv
<1>13. ParseInv' /\ IdleInv'
  <2>1. Progress(Read)'
    BY <1>1, <1>2, <1>9, <1>11 DEF Progress, SameMessage
  <2> QED
    BY <1>1, <1>11, <2>1 DEF ParseInv, IdleInv
<1> QED
  BY <1>9, <1>10, <1>12, <1>13 DEF Good

-----------------------------------------------------------------------------
(* The end of a call.                                                      *)

\* The buffer goes on behind the first k of its symbols.
LEMMA Consumed ==
  ASSUME TypeInv, Good, feed' = feed, source' = source,
         NEW k \in Nat, k <= Len(buff), buff' = Drop(buff, k)
  PROVE  StreamInv' /\ Behind' = Behind + k /\ Whole' = Whole
<1> DEFINE s == Whole
           b == Behind
           e == Arrived
           y == Len(buff)
<1>1. /\ s \in Seq(Symbol) /\ Len(s) \in Nat /\ e <= Len(s) /\ b + y = e
      /\ b \in Nat /\ e \in Nat /\ y \in Nat /\ buff \in Seq(Symbol) /\ buff = Part(s, b, e)
  BY Counts DEF Good, StreamInv
<1>2. Whole' = Whole /\ Arrived' = Arrived
  BY DEF Whole, Arrived
<1>3. Len(buff') = y - k
  BY <1>1, DropLemma
<1>4. Behind' = b + k
  BY <1>1, <1>2, <1>3 DEF Behind
<1>5. buff' = Part(s, b + k, e)
  <2>1. buff' = Part(buff, k, y) /\ b + y <= e
    BY <1>1 DEF Drop, Part
  <2> HIDE DEF s, b, e, y
  <2>2. k <= y
    BY DEF y
  <2>3. Part(Part(s, b, e), k, y) = Part(s, b + k, b + y)
    BY <1>1, <2>1, <2>2, PartOfPart
  <2> QED
    BY <1>1, <2>1, <2>3
<1>6. StreamInv'
  <2>1. Len(buff') <= Arrived
    BY <1>1, <1>3
  <2> QED
    BY <1>2, <1>4, <1>5, <2>1 DEF Good, StreamInv
<1> QED
  BY <1>2, <1>4, <1>6

\* What a call may leave, and how much of the packet it has used.
LEMMA ReturnLemma ==
  ASSUME TypeInv, Fit, Good, pc = "return"
  PROVE  /\ MessageFacts /\ ok /\ seen \subseteq {Hdr, Mid}
         /\ Used \in Nat /\ Used <= Len(buff)
         /\ state = "done" => Complete /\ Behind + Used = Start + Size
         /\ state # "done" =>
              /\ ~Complete /\ Behind + Used = Start + Total /\ Total < Size
              /\ Kept <=> copied = 0
<1>1. pc # "idle"
  OBVIOUS
<1>2. /\ MessageFacts /\ Total \in Nat /\ Read \in Nat
  BY <1>1, CallFacts
<1>3. /\ HeadLen \in {6, 9} /\ BodyLen \in Nat /\ Size = HeadLen + BodyLen + 6
      /\ 2 * Size <= MaxByte /\ Start \in Nat /\ Heads = IF HeadLen = 6 THEN {Hdr} ELSE {Hdr, Mid}
  BY <1>2, SizeFacts
<1>4. /\ Len(buff) \in Nat /\ Len(tmp) \in Nat /\ Behind \in Nat /\ MaxByte \in Nat
  BY Counts DEF Good
<1>5. copied \in Nat
  BY <1>4 DEF TypeInv, TypeOK
<1>6. /\ ok
      /\ \/ state # "done" /\ dataRead = Read /\ Progress(Read) /\ Total < Size
         \/ state = "done" /\ dataRead = Size /\ Size <= Total /\ seen = Heads
  BY DEF Good, ParseInv
<1>7. /\ copied = 0 => Behind = Start
      /\ copied # 0 => /\ copied <= Len(tmp) /\ copied <= Len(buff)
                       /\ Behind = Start + Len(tmp) - copied /\ Len(tmp) - copied < Size
  BY <1>1 DEF Good, CallInv
<1>8. /\ copied = 0 => Total = Len(buff)
      /\ copied # 0 => Total = Len(tmp)
  BY DEF Total, Base
<1>9. seen \subseteq {Hdr, Mid}
  BY <1>3, <1>6 DEF Progress
<1>10. CASE state = "done"
  <2>1. Complete /\ dataRead = Size /\ Size <= Total
    BY <1>6, <1>10 DEF Complete
  <2>2. CASE copied = 0
    <3>1. ~(copied > 0) /\ ~(~ok) /\ ~(state # "done")
      BY <1>5, <1>6, <1>10, <2>2
    <3>2. Used = dataRead
      BY <2>1, <2>2, <3>1, Zenon DEF Used
    <3>3. Used = Size
      BY <2>1, <3>2
    <3> QED
      BY <1>2, <1>3, <1>4, <1>6, <1>7, <1>8, <1>9, <1>10, <2>1, <2>2, <3>3
  <2>3. CASE copied # 0
    <3>1. copied > 0 /\ ~(~ok) /\ ~(state # "done")
      BY <1>5, <1>6, <1>10, <2>3
    <3>2. Used = UsedCopy
      BY <2>1, <2>3, <3>1, Zenon DEF Used
    <3>3. Used = copied - (Len(tmp) - Size)
      BY <2>1, <3>2 DEF UsedCopy
    <3>4. Used \in Nat /\ Used <= Len(buff) /\ Behind + Used = Start + Size
      BY <1>3, <1>4, <1>5, <1>7, <1>8, <2>1, <2>3, <3>3
    <3> QED
      BY <1>2, <1>6, <1>9, <1>10, <2>1, <3>4
  <2> QED
    BY <2>2, <2>3
<1>11. CASE state # "done"
  <2>1. ~Complete /\ Total < Size
    BY <1>6, <1>11 DEF Complete
  <2>2. CASE copied = 0
    <3>1. Len(buff) <= MaxByte
      BY <1>2, <1>3, <1>4, <1>8, <2>1, <2>2
    <3>2. Used = Len(buff) /\ Kept
      BY <1>4, <1>6, <1>11, <2>1, <2>2, <3>1 DEF Used, Kept
    <3> QED
      BY <1>2, <1>4, <1>6, <1>7, <1>8, <1>9, <1>11, <2>1, <2>2, <3>2
  <2>3. CASE copied # 0
    <3>1. Used = copied /\ ~Kept
      BY <1>5, <1>6, <1>11, <2>1, <2>3 DEF Used, Kept
    <3> QED
      BY <1>2, <1>3, <1>4, <1>5, <1>6, <1>7, <1>8, <1>9, <1>11, <2>1, <2>3, <3>1
  <2> QED
    BY <2>2, <2>3
<1> QED
  BY <1>10, <1>11

\* change_point ends, and the call uses none of the packet before this one.
LEMMA HangGood ==
  ASSUME TypeInv, Fit, Good
  PROVE  ~Hang /\ ~Backwards
<1>1. ~Hang
  <2> SUFFICES ASSUME Hang PROVE FALSE
    OBVIOUS
  <2>1. Types \in lent /\ seen \subseteq {Hdr, Mid}
    BY ReturnLemma DEF Hang
  <2>2. lent \subseteq seen \cup {Method}
    BY DEF TypeInv, TypeOK
  <2> QED
    BY <2>1, <2>2, WordFacts
<1>2. ~Backwards
  <2> SUFFICES ASSUME Backwards PROVE FALSE
    OBVIOUS
  <2>1. Used \in Nat /\ Used < 0
    BY ReturnLemma DEF Backwards
  <2> QED
    BY <2>1
<1> QED
  BY <1>1, <1>2

\* The message that is exported is the one that was sent.
LEMMA MessageLemma ==
  ASSUME TypeInv, Fit, Good, pc = "return", state = "done"
  PROVE  Faithful(Message, Current)
<1> DEFINE n == BodyLen
           y == Current.body
           x == SubSeq(data, 1, n)
<1>1. pc # "idle"
  OBVIOUS
<1>2. /\ Current \in Sent /\ MessageFacts /\ data \in Seq(Symbol) /\ Len(data) \in Nat
      /\ Total \in Nat /\ Total = Read + Len(data)
      /\ \A j \in 1 .. Len(data) : data[j] = Symb(Read + j)
  BY <1>1, CallFacts
<1>3. Read = HeadLen + 1 /\ slen = BodyLen /\ tid = Id /\ seen = Heads /\ Size <= Total
  BY DEF Good, ParseInv
<1>4. /\ HeadLen \in {6, 9} /\ n \in Nat /\ Size = HeadLen + n + 6
  BY <1>2, SizeFacts
<1>5. n <= Len(data) /\ y \in Seq(Symbol) /\ Len(y) = n
  BY <1>2, <1>3, <1>4 DEF Sent, BodyLen
<1>6. \A i \in 1 .. n : data[i] = y[i]
  <2> SUFFICES ASSUME NEW i \in 1 .. n PROVE data[i] = y[i]
    OBVIOUS
  <2>1. i \in 1 .. Len(data) /\ i \in 1 .. BodyLen
    BY <1>2, <1>4, <1>5
  <2>2. data[i] = Symb(HeadLen + 1 + i)
    BY <1>2, <1>3, <2>1
  <2>3. Symb(HeadLen + 1 + i) = Current.body[i]
    BY <1>2, <2>1 DEF MessageFacts
  <2> QED
    BY <2>2, <2>3
<1> HIDE DEF n, y, x
<1>7. x = y
  <2>1. x = Part(data, 0, n) /\ 0 \in Nat /\ 0 <= n /\ n - 0 = n
    BY <1>4 DEF x, Part
  <2>2. /\ Part(data, 0, n) \in Seq(Symbol) /\ Len(Part(data, 0, n)) = n - 0
        /\ \A i \in 1 .. n - 0 : Part(data, 0, n)[i] = data[0 + i]
    <3>1. data \in Seq(Symbol) /\ n \in Nat /\ n <= Len(data)
      BY <1>2, <1>4, <1>5
    <3> QED
      BY <2>1, <3>1, PartLemma
  <2>3. x \in Seq(Symbol) /\ Len(x) = Len(y)
    BY <1>5, <2>1, <2>2
  <2>4. \A i \in 1 .. Len(x) : x[i] = y[i]
    <3> SUFFICES ASSUME NEW i \in 1 .. n PROVE x[i] = y[i]
      BY <1>5, <2>3
    <3>1. 0 + i = i /\ i \in 1 .. n - 0
      BY <1>4
    <3> QED
      BY <1>6, <2>1, <2>2, <3>1
  <2> QED
    BY <1>5, <2>3, <2>4, SeqEqual
<1>8. Message.lost \subseteq {Method, Mid}
  <2>1. Message.lost = IF copied > 0 THEN lent ELSE {}
    BY DEF Message
  <2>2. copied > 0 => copied # 0
    OBVIOUS
  <2> QED
    BY <1>1, <2>1, <2>2 DEF Good, CallInv
<1>9. Message.id = Id /\ Message.head = Heads /\ Message.body = x
  BY <1>3 DEF Message, x, n
<1> QED
  BY <1>7, <1>8, <1>9 DEF Faithful, Id, Heads, y

\* A complete message goes to the user, and what is left of the packet is the next one's.
LEMMA FinishDone ==
  ASSUME TypeInv, Fit, Good, Finish, state = "done"
  PROVE  Good'
<1>1. /\ pc = "return" /\ pc # "idle" /\ state' = (IF ok THEN state ELSE "done")
      /\ exported' = (IF Complete THEN Append(exported, Message) ELSE exported)
      /\ buff' = Drop(buff, Used) /\ pc' = "idle" /\ UNCHANGED <<feed, source>>
  BY DEF Finish
<1>2. /\ MessageFacts /\ Complete /\ Used \in Nat /\ Used <= Len(buff) /\ ok
      /\ Behind + Used = Start + Size
  BY <1>1, ReturnLemma
<1>3. StreamInv' /\ Behind' = Start + Size
  BY <1>1, <1>2, Consumed
<1> DEFINE h == Len(exported)
           k == h + 1
<1>4. exported \in Seq(Export) /\ exported' = Append(exported, Message) /\ Message \in Export
  <2>1. exported \in Seq(Export) /\ data \in Seq(Symbol) /\ slen \in Nat /\ slen <= Len(data)
          /\ tid \in Nat /\ seen \subseteq Headers /\ lent \subseteq seen \cup {Method}
    BY <1>1, <1>2 DEF TypeInv, TypeOK, ModeInv
  <2>2. SubSeq(data, 1, slen) \in Seq(Symbol)
    BY <2>1, CutType
  <2>3. Message \in Export
    BY <2>1, <2>2 DEF Message, Export
  <2> QED
    BY <1>1, <1>2, <2>1, <2>3
<1>5. h \in Nat /\ k \in Nat /\ h < Len(feed.sent) /\ Len(feed.sent) \in Nat
  <2>1. Len(feed.sent) \in Nat
    BY PlaceLemma DEF TypeInv, TypeOK
  <2> QED
    BY <1>1, <1>4, <2>1, LenProperties DEF Good, CallInv
<1>6. /\ Len(exported') = k /\ exported'[k] = Message
      /\ \A i \in 1 .. h : exported'[i] = exported[i]
  BY <1>4, AppendProperties
<1>7. HistoryInv'
  <2>1. Faithful(Message, feed.sent[k])
    BY <1>1, MessageLemma DEF Current
  <2>2. \A i \in 1 .. h : Faithful(exported[i], feed.sent[i])
    BY DEF Good, HistoryInv
  <2> HIDE DEF h, k
  <2>3. ASSUME NEW i \in 1 .. k PROVE Faithful(exported'[i], feed.sent[i])
    <3>1. CASE i = k
      BY <1>6, <2>1, <3>1
    <3>2. CASE i # k
      <4>1. i \in 1 .. h
        BY <1>5, <3>2 DEF k
      <4> QED
        BY <1>6, <2>2, <4>1
    <3> QED
      BY <3>1, <3>2
  <2>4. k <= Len(feed.sent)
    BY <1>5 DEF k
  <2> QED
    BY <1>1, <1>6, <2>3, <2>4 DEF HistoryInv
<1>8. Start' = Start + Size
  <2>1. Place(k) = Start + Size
    BY <1>2, SizeFacts
  <2>2. Start' = Place(k)
    BY <1>1, <1>6 DEF Start, Place
  <2> QED
    BY <2>1, <2>2
<1>9. IdleInv'
  BY <1>1, <1>2, <1>3, <1>8 DEF IdleInv
<1>10. CallInv' /\ ParseInv'
  BY <1>1 DEF CallInv, ParseInv
<1> QED
  BY <1>3, <1>7, <1>9, <1>10 DEF Good

\* What arrived of a message is kept in tmp.
LEMMA FinishPending ==
  ASSUME TypeInv, Fit, Good, Finish, state # "done"
  PROVE  Good'
<1>1. /\ pc = "return" /\ pc # "idle"
      /\ exported' = (IF Complete THEN Append(exported, Message) ELSE exported)
      /\ tmp' = (IF Kept THEN buff ELSE tmp)
      /\ lent' = (IF Kept THEN ChangePoint ELSE lent)
      /\ state' = (IF ok THEN state ELSE "done")
      /\ buff' = Drop(buff, Used) /\ pc' = "idle"
      /\ UNCHANGED <<feed, source, dataRead, seen, tid, slen>>
  BY DEF Finish
<1>2. /\ MessageFacts /\ ok /\ seen \subseteq {Hdr, Mid} /\ ~Complete
      /\ Used \in Nat /\ Used <= Len(buff)
      /\ Behind + Used = Start + Total /\ Total < Size /\ (Kept <=> copied = 0)
  BY <1>1, ReturnLemma
<1>3. StreamInv' /\ Behind' = Start + Total
  BY <1>1, <1>2, Consumed
<1>4. SameMessage /\ HistoryInv'
  BY <1>1, <1>2, SameLemma DEF Good
<1>5. tmp' = Base /\ Len(tmp') = Total
  <2>1. tmp' = Base
    BY <1>1, <1>2 DEF Base
  <2> QED
    BY <2>1 DEF Total
<1>6. dataRead = Read /\ Progress(Read)
  BY <1>1 DEF Good, ParseInv
<1>7. Read <= Total /\ Len(exported) < Len(feed.sent)
  <2>1. Read \in Nat /\ Len(data) \in Nat /\ Total = Read + Len(data)
    BY <1>1, CallFacts
  <2> QED
    BY <1>1, <2>1 DEF Good, CallInv
<1>8. tmp' = Part(Whole, Start, Start + Total)
  <2>1. CASE copied = 0
    <3>1. Behind = Start /\ buff = Part(Whole, Behind, Arrived) /\ Total = Len(buff) /\ Base = buff
      BY <1>1, <2>1 DEF Good, CallInv, StreamInv, Total, Base
    <3>2. Arrived = Behind + Len(buff)
      BY Counts DEF Good
    <3> QED
      BY <1>5, <3>1, <3>2
  <2>2. CASE copied # 0
    BY <1>1, <1>5, <2>2 DEF Good, CallInv, Total, Base
  <2> QED
    BY <2>1, <2>2
<1>9. lent' \subseteq {Method, Mid}
  <2>1. lent \subseteq seen \cup {Method}
    BY DEF TypeInv, TypeOK
  <2>2. CASE copied = 0
    BY <1>1, <1>2, <2>1, <2>2 DEF ChangePoint
  <2>3. CASE copied # 0
    BY <1>1, <1>2, <2>3 DEF Good, CallInv
  <2> QED
    BY <2>2, <2>3
<1>10. IdleInv'
  <2>1. Progress(dataRead)'
    BY <1>1, <1>2, <1>4, <1>6 DEF Progress, SameMessage
  <2>2. state' # "done" /\ Len(exported') < Len(feed'.sent)
    BY <1>1, <1>2, <1>7
  <2>3. /\ Behind' = Start' + Len(tmp') /\ tmp' = Part(Whole', Start', Behind')
        /\ Len(tmp') < Size' /\ dataRead' <= Len(tmp')
    BY <1>1, <1>2, <1>3, <1>4, <1>5, <1>6, <1>7, <1>8 DEF SameMessage
  <2> QED
    BY <1>9, <2>1, <2>2, <2>3 DEF IdleInv
<1>11. CallInv' /\ ParseInv'
  BY <1>1 DEF CallInv, ParseInv
<1> QED
  BY <1>3, <1>4, <1>10, <1>11 DEF Good

\* Every step keeps the place in the stream.
LEMMA GoodStep ==
  ASSUME TypeInv, GoodInv, [Next]_vars
  PROVE  GoodInv'
<1> SUFFICES ASSUME Fit' PROVE Good'
  BY DEF GoodInv
<1>1. feed' = feed
  BY DEF Next, Update2, Prase, Terminating, Update, BeginFresh, BeginMore, OverData, Enter,
         LineNoWord, LineCut, LineRefused, LineHeader, LineEndLine, Content, NoMarker, Garbage,
         MarkerCut, MarkerFalse, MarkerEnd, Hang, Backwards, Finish, callFrame, vars
<1>2. Fit
  BY <1>1 DEF Fit, Fitting, AllBodies
<1>3. Good
  BY <1>2 DEF GoodInv
<1>4. CASE UNCHANGED vars
  <2>1. /\ UNCHANGED <<feed, source, buff, pc, copied, ok, exported, data, keep, find>>
        /\ UNCHANGED <<state, tmp, dataRead, seen, tid, lent, slen>>
    BY <1>4 DEF vars, context, parser
  <2>2. /\ UNCHANGED <<Whole, Start, Arrived, Behind, Id, Heads, Size, HeadLen, BodyLen>>
        /\ UNCHANGED <<Base, Total, Read>>
    BY <2>1 DEF Whole, Start, Place, Arrived, Behind, Current, Id, Heads, Size, HeadLen,
       BodyLen, Base, Total, Read
  <2>3. StreamInv' /\ HistoryInv'
    BY <1>3, <2>1, <2>2 DEF Good, StreamInv, HistoryInv
  <2>4. IdleInv' /\ CallInv'
    BY <1>3, <2>1, <2>2 DEF Good, IdleInv, CallInv, Progress
  <2>5. ParseInv'
    BY <1>3, <2>1, <2>2 DEF Good, ParseInv, Progress
  <2> QED
    BY <2>3, <2>4, <2>5 DEF Good
<1>5. CASE Update2
  <2>1. CASE Prase
    BY <1>2, <1>3, <2>1, EnterGood, LineGood, LineCutGood, LineHeaderGood, ContentGood,
       NoMarkerGood, GarbageGood, MarkerCutGood, MarkerFalseGood, MarkerEndGood DEF Prase
  <2>2. CASE Finish
    BY <1>2, <1>3, <2>2, FinishDone, FinishPending
  <2> QED
    BY <1>2, <1>3, <1>5, <2>1, <2>2, BeginFreshGood, BeginMoreGood, OverDataGood, HangGood
       DEF Update2
<1>6. CASE Terminating
  BY <1>4, <1>6 DEF Terminating
<1>7. ASSUME NEW n \in 1 .. Len(source), Update(n) PROVE Good'
  BY <1>2, <1>3, <1>7, UpdateGood
<1> QED
  BY <1>4, <1>5, <1>6, <1>7 DEF Next

-----------------------------------------------------------------------------
(* What the user sees.                                                     *)

\* So it holds at every time.
LEMMA AlwaysGood == Spec => [](TypeInv /\ GoodInv)
<1>1. Init => TypeInv /\ GoodInv
  BY TypeInit, GoodInit DEF GoodInv
<1>2. TypeInv /\ GoodInv /\ [Next]_vars => (TypeInv /\ GoodInv)'
  BY TypeStep, GoodStep
<1> QED
  BY <1>1, <1>2, PTL DEF Spec

\* What is there of a message for the user, and each message's in a sequence of its own.
Shown(m)  == [id |-> m.id, head |-> Range(m.head), body |-> m.body]
Single(m) == IF m.body = <<>> THEN <<>> ELSE <<Shown(m)>>
Singles   == [i \in DOMAIN feed.sent |-> Single(feed.sent[i])]

\* When every message has contents, every one is expected.
LEMMA ExpectedLemma ==
  ASSUME feed \in Feeds, AllBodies
  PROVE  /\ Len(feed.sent) \in Nat /\ Len(WithBody) = Len(feed.sent)
         /\ \A i \in 1 .. Len(feed.sent) : WithBody[i] = Shown(feed.sent[i])
<1> DEFINE s == feed.sent
           n == Len(feed.sent)
           S == {Shown(feed.sent[i]) : i \in 1 .. Len(feed.sent)}
           ss == Singles
<1>1. s \in Seq(Sent) /\ n \in Nat
  BY PlaceLemma
<1>2. WithBody = FlattenSeq(ss)
  BY DEF WithBody, Singles, Single, Shown
<1>3. ASSUME NEW i \in 1 .. n
      PROVE  Single(s[i]) = <<Shown(s[i])>> /\ Shown(s[i]) \in S
  <2>1. s[i] \in Range(s)
    <3>1. Range(s) = {s[q] : q \in 1 .. n}
      BY <1>1, RangeEquality
    <3> QED
      BY <3>1
  <2> QED
    BY <2>1 DEF AllBodies, Single
<1>4. DOMAIN s = 1 .. n
  BY <1>1, LenProperties
<1>5. ss = [i \in 1 .. n |-> Single(s[i])]
  BY <1>4 DEF Singles
<1> HIDE DEF s, n, S, ss
<1>6. ASSUME NEW i \in 1 .. n PROVE Single(s[i]) \in Seq(S)
  <2>1. \A v \in S : <<v>> \in Seq(S)
    OBVIOUS
  <2>2. Single(s[i]) = <<Shown(s[i])>> /\ Shown(s[i]) \in S
    BY <1>3
  <2> QED
    BY <2>1, <2>2, Zenon
<1>7. ss \in Seq(Seq(S)) /\ Len(ss) = n
  BY <1>1, <1>5, <1>6
<1>8. ASSUME NEW i \in 1 .. n
      PROVE  At(ss, i) = <<Shown(s[i])>> /\ Len(At(ss, i)) = 1 /\ At(ss, i)[1] = Shown(s[i])
  <2>1. At(ss, i) = <<Shown(s[i])>>
    BY <1>3, <1>5 DEF At
  <2> QED
    BY <2>1
<1>9. /\ Len(FlattenSeq(ss)) = Len(ss)
      /\ \A i \in 1 .. Len(ss) : FlattenSeq(ss)[i] = At(ss, i)[1]
  <2>1. \A i \in 1 .. Len(ss) : Len(At(ss, i)) = 1
    BY <1>7, <1>8
  <2> QED
    BY <1>7, <2>1, FlattenSingles
<1>10. Len(WithBody) = n
  BY <1>2, <1>7, <1>9
<1>11. \A i \in 1 .. n : WithBody[i] = Shown(s[i])
  BY <1>2, <1>7, <1>8, <1>9
<1> QED
  BY <1>1, <1>10, <1>11 DEF n, s

\* Messages with contents are exported unchanged, in order, none twice and none left
\* out, wherever packets cut the stream: lmsrp_context_update and the parser that goes
\* on where it stopped.
THEOREM InOrderCorrect == Spec => [](AllBodies => InOrder)
<1>1. TypeInv /\ GoodInv => (AllBodies => InOrder)
  <2> SUFFICES ASSUME TypeInv, GoodInv, AllBodies, Fitting PROVE IsPrefix(Exported, WithBody)
    BY DEF InOrder
  <2> DEFINE e == exported
             x == Exported
             w == WithBody
             n == Len(exported)
  <2>1. feed \in Feeds /\ e \in Seq(Export)
    BY DEF TypeInv, TypeOK
  <2>2. n \in Nat /\ DOMAIN e = 1 .. n
    BY <2>1, LenProperties
  <2>3. /\ Len(feed.sent) \in Nat /\ Len(w) = Len(feed.sent)
        /\ \A i \in 1 .. Len(feed.sent) : w[i] = Shown(feed.sent[i])
    BY <2>1, ExpectedLemma
  <2>4. n <= Len(feed.sent) /\ \A i \in 1 .. n : Faithful(e[i], feed.sent[i])
    BY DEF GoodInv, Fit, Good, HistoryInv
  <2>5. /\ x = [i \in 1 .. n |-> [id |-> e[i].id, head |-> e[i].head, body |-> e[i].body]]
        /\ Len(x) = n
    BY <2>2 DEF Exported
  <2>6. ASSUME NEW i \in 1 .. n PROVE x[i] = w[i]
    <3>1. x[i] = [id |-> e[i].id, head |-> e[i].head, body |-> e[i].body]
      BY <2>5
    <3>2. Faithful(e[i], feed.sent[i]) /\ i \in 1 .. Len(feed.sent)
      BY <2>2, <2>3, <2>4
    <3> QED
      BY <2>3, <3>1, <3>2 DEF Faithful, Shown
  <2> HIDE DEF x, w, n
  <2>7. SubSeq(x, 1, n) = SubSeq(w, 1, n)
    BY <2>2, <2>6
  <2> QED
    BY <2>3, <2>4, <2>5, <2>7 DEF IsPrefix, x, w, n
<1> QED
  BY <1>1, AlwaysGood, PTL

\* The words of an exported message are there when the callback gets them: those that
\* lay in an earlier packet were moved with it by change_point, but for the method and
\* a Message-ID, which it passes over.
THEOREM WordsKeptCorrect == Spec => [](AllBodies => WordsKept)
<1>1. TypeInv /\ GoodInv => (AllBodies => WordsKept)
  <2> SUFFICES ASSUME TypeInv, GoodInv, AllBodies, Fitting, NEW m \in Range(exported)
               PROVE  m.lost \subseteq {Method, Mid}
    BY DEF WordsKept
  <2>1. exported \in Seq(Export)
    BY DEF TypeInv, TypeOK
  <2>2. PICK i \in 1 .. Len(exported) : m = exported[i]
    <3>1. Range(exported) = {exported[q] : q \in 1 .. Len(exported)}
      BY <2>1, RangeEquality
    <3> QED
      BY <3>1
  <2>3. Faithful(exported[i], feed.sent[i])
    BY DEF GoodInv, Fit, Good, HistoryInv
  <2> QED
    BY <2>2, <2>3 DEF Faithful
<1> QED
  BY <1>1, AlwaysGood, PTL

\* Once the stream has arrived and the calls are done, every message was exported and
\* none is left pending in tmp.
THEOREM AllExportedCorrect == Spec => [](AllBodies => AllExported)
<1>1. TypeInv /\ GoodInv => (AllBodies => AllExported)
  <2> SUFFICES ASSUME TypeInv, GoodInv, AllBodies, Fitting,
                      pc = "idle", buff = <<>>, source = <<>>
               PROVE  Len(exported) = Len(WithBody)
    BY DEF AllExported
  <2>1. feed \in Feeds /\ exported \in Seq(Export)
    BY DEF TypeInv, TypeOK
  <2>2. Good /\ Fit
    BY DEF GoodInv, Fit
  <2>3. Len(feed.sent) \in Nat /\ Len(WithBody) = Len(feed.sent)
    BY <2>1, ExpectedLemma
  <2>4. Len(exported) \in Nat /\ Len(exported) <= Len(feed.sent)
    BY <2>1, <2>2, LenProperties DEF Good, HistoryInv
  <2>5. Len(Whole) \in Nat /\ Len(tmp) \in Nat /\ Behind = Len(Whole)
    <3>1. /\ Len(Whole) \in Nat /\ Len(tmp) \in Nat /\ Arrived \in Nat /\ Behind \in Nat
          /\ Arrived + Len(source) = Len(Whole) /\ Behind + Len(buff) = Arrived
      BY <2>2, Counts DEF Good
    <3>2. Len(source) = 0 /\ Len(buff) = 0
      OBVIOUS
    <3> QED
      BY <3>1, <3>2
  <2>6. \/ Behind = Start
        \/ Behind = Start + Len(tmp) /\ Len(tmp) < Size
    BY <2>2 DEF Good, IdleInv
  <2>7. ASSUME Len(exported) < Len(feed.sent) PROVE FALSE
    <3>1. MessageFacts
      BY <2>1, <2>2, <2>7, CurrentLemma
    <3>2. /\ HeadLen \in {6, 9} /\ BodyLen \in Nat /\ Size = HeadLen + BodyLen + 6
          /\ Start \in Nat /\ Start + Size <= Len(Whole)
      BY <3>1, SizeFacts
    <3> QED
      BY <2>5, <2>6, <3>2
  <2> QED
    BY <2>3, <2>4, <2>7
<1> QED
  BY <1>1, AlwaysGood, PTL

\* Every call of _lmsrp_context_update2 that returns has used some of the packet: what
\* the loop of lmsrp_context_update ends by.
THEOREM CallsUse == Spec => [][Fit /\ Finish => Len(buff') < Len(buff)]_vars
<1>1. TypeInv /\ GoodInv /\ [Next]_vars => [Fit /\ Finish => Len(buff') < Len(buff)]_vars
  <2> SUFFICES ASSUME TypeInv, GoodInv, Fit, Finish PROVE Len(buff') < Len(buff)
    OBVIOUS
  <2>1. Good /\ pc = "return" /\ pc # "idle" /\ buff' = Drop(buff, Used)
    BY DEF GoodInv, Finish
  <2>2. /\ buff \in Seq(Symbol) /\ Len(buff) \in Nat /\ Len(tmp) \in Nat /\ Behind \in Nat
    BY <2>1, Counts DEF Good
  <2>3. /\ MessageFacts /\ Used \in Nat /\ Used <= Len(buff)
        /\ state = "done" => Behind + Used = Start + Size
        /\ state # "done" => Behind + Used = Start + Total
    BY <2>1, ReturnLemma
  <2>4. /\ HeadLen \in {6, 9} /\ BodyLen \in Nat /\ Size = HeadLen + BodyLen + 6
        /\ Start \in Nat
    BY <2>3, SizeFacts
  <2>5. /\ copied = 0 => Behind = Start /\ Len(buff) > 0
        /\ copied # 0 => Behind = Start + Len(tmp) - copied /\ Len(tmp) - copied < Size
    BY <2>1 DEF Good, CallInv
  <2>6. copied = 0 => Total = Len(buff)
    BY DEF Total, Base
  <2>7. copied # 0 => Total = Len(tmp)
    BY DEF Total, Base
  <2>8. copied \in Nat
    <3>1. copied \in 0 .. MaxByte
      BY DEF TypeInv, TypeOK
    <3> QED
      BY <3>1
  <2>9. Used > 0
    BY <2>2, <2>3, <2>4, <2>5, <2>6, <2>7, <2>8
  <2>10. Len(Drop(buff, Used)) = Len(buff) - Used
    BY <2>2, <2>3, DropType
  <2> QED
    BY <2>1, <2>2, <2>3, <2>9, <2>10
<1> QED
  BY <1>1, AlwaysGood, PTL DEF Spec

=============================================================================
