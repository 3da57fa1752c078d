---------------------------- MODULE HeaderProofs ----------------------------
(***************************************************************************)
(* Proofs about the texts of messages: what lmsrp_mess_tostring writes,    *)
(* lmsrp_mess_prase_from_buff reads back, whatever the message is made of. *)
(*                                                                         *)
(* Each header is proved for itself (ListUriTrip, StatusTrip,              *)
(* ByteRangeTrip, ContentTypeTrip, InfoTrip, WwwTrip, AuthTrip): its text  *)
(* is one line, and its parser gives back its value, or what Arrives says  *)
(* of it.  Lists are read by induction over what is still to be read.  A   *)
(* line of any header is one step of the parser, so the headers of a       *)
(* message follow by induction over the table (HeadersTrip), and the end   *)
(* line is found whatever the contents are (EndIsFound).  MessageTrip puts *)
(* them together for every message that may be written (IsMess), and       *)
(* TwiceTrip does for a text that has a header twice.                      *)
(***************************************************************************)
EXTENDS Wire, SequenceLemmas, FiniteSetTheorems

-----------------------------------------------------------------------------
(* Texts, and the words in them.                                           *)

\* What the provers need to know of the marks.
LEMMA MarksLemma == Marks \subseteq STRING
BY WrittenAssumption DEF Written

\* s is p, a places long, with w up to the place b behind it, and then r.
IsThree(s, S, p, w, r, a, b) ==
  /\ s \in Seq(S) /\ a \in Nat /\ b \in Nat /\ a <= b /\ b <= Len(s)
  /\ Len(s) = b + Len(r) /\ Len(s) \in Nat /\ DOMAIN s = 1 .. Len(s)
  /\ \A i \in 1 .. a : s[i] = p[i]
  /\ \A i \in 1 .. b - a : s[a + i] = w[i]
  /\ \A i \in 1 .. Len(r) : s[b + i] = r[i]
  /\ Part(s, a, b) = w /\ Part(s, b, Len(s)) = r

\* The brackets of texts.
LEMMA TextCat == \A s, t \in Seq(STRING) : Cat(s, t) \in Seq(STRING)
BY CatLemma

\* Brackets do not matter.
LEMMA TextAssoc ==
  \A s, t, u \in Seq(STRING) : Cat(Cat(s, t), u) = Cat(s, Cat(t, u))
BY CatLemma

\* The same for three texts at hand.
LEMMA ThreeTexts ==
  ASSUME NEW s, NEW t, NEW u, s \in Seq(STRING), t \in Seq(STRING), u \in Seq(STRING)
  PROVE  Cat(Cat(s, t), u) = Cat(s, Cat(t, u))
BY TextAssoc, Zenon

\* The text of no tokens.
LEMMA TextEmpty == \A s \in Seq(STRING) : Cat(<<>>, s) = s /\ Cat(s, <<>>) = s
BY ConcatEmptySeq DEF Cat

\* A text of one token.
LEMMA Token == \A c \in STRING : <<c>> \in Seq(STRING) /\ <<c>> # <<>> /\ <<c>>[1] = c
BY OneElement

\* A number is zero or positive.
LEMMA Positive == \A n \in Nat : n > 0 \/ n = 0
OBVIOUS

\* Three texts one behind the other.
LEMMA ThreeParts ==
  ASSUME NEW S, NEW p \in Seq(S), NEW w \in Seq(S), NEW r \in Seq(S),
         NEW s, s = Cat(p, Cat(w, r)),
         NEW a, a = Len(p), NEW b, b = Len(p) + Len(w)
  PROVE  IsThree(s, S, p, w, r, a, b)
<1> DEFINE u == w \o r
<1>1. IsBehind(u, S, w, r, Len(w), Len(r))
  BY BehindIs
<1>2. /\ u \in Seq(S) /\ Len(u) = Len(w) + Len(r) /\ Len(w) \in Nat /\ Len(r) \in Nat
      /\ \A i \in 1 .. Len(w) : u[i] = w[i]
      /\ \A i \in 1 .. Len(r) : u[Len(w) + i] = r[i]
  BY <1>1 DEF IsBehind
<1> HIDE DEF u
<1>3. s = p \o u
  BY Zenon DEF u, Cat
<1>4. IsBehind(s, S, p, u, a, Len(u))
  BY <1>2, <1>3, BehindIs
<1>5. /\ s \in Seq(S) /\ Len(s) = a + Len(u) /\ a \in Nat /\ Len(u) \in Nat
      /\ \A i \in 1 .. a : s[i] = p[i]
      /\ \A i \in 1 .. Len(u) : s[a + i] = u[i]
  BY <1>4 DEF IsBehind
<1>6. b \in Nat /\ a <= b /\ Len(s) = b + Len(r) /\ b <= Len(s) /\ b - a = Len(w) /\ Len(s) \in Nat
        /\ DOMAIN s = 1 .. Len(s)
  BY <1>2, <1>5, LenProperties
<1>7. \A i \in 1 .. b - a : s[a + i] = w[i]
  <2>1. \A i \in 1 .. b - a : i \in 1 .. Len(u) /\ i \in 1 .. Len(w)
    BY <1>2, <1>6
  <2> QED
    BY <1>2, <1>5, <2>1
<1>8. ASSUME NEW i \in 1 .. Len(r) PROVE s[b + i] = r[i]
  <2> DEFINE j == Len(w) + i
  <2>1. j \in 1 .. Len(u) /\ a + j = b + i
    BY <1>2, <1>5
  <2>2. u[j] = r[i]
    BY <1>2
  <2> HIDE DEF j
  <2>3. s[a + j] = u[j]
    BY <1>5, <2>1
  <2> QED
    BY <2>1, <2>2, <2>3
<1>9. Part(s, a, b) = w
  <2> DEFINE q == Part(s, a, b)
  <2>1. IsPart(q, S, s, a, b)
    BY <1>5, <1>6, PartIs
  <2> HIDE DEF q
  <2>2. q \in Seq(S) /\ Len(q) = b - a /\ \A i \in 1 .. b - a : q[i] = s[a + i]
    BY <2>1 DEF IsPart
  <2>3. Len(q) = Len(w) /\ \A i \in 1 .. Len(q) : q[i] = w[i]
    BY <1>6, <1>7, <2>2
  <2>4. q = w
    BY <2>2, <2>3, SeqEqual
  <2> QED
    BY <2>4 DEF q
<1>10. Part(s, b, Len(s)) = r
  <2> DEFINE q == Part(s, b, Len(s))
  <2>1. IsPart(q, S, s, b, Len(s))
    BY <1>5, <1>6, PartIs
  <2> HIDE DEF q
  <2>2. /\ q \in Seq(S) /\ Len(q) = Len(s) - b
        /\ \A i \in 1 .. Len(s) - b : q[i] = s[b + i]
    BY <2>1 DEF IsPart
  <2>3. Len(s) - b = Len(r)
    BY <1>2, <1>5, <1>6
  <2>4. Len(q) = Len(r) /\ \A i \in 1 .. Len(q) : q[i] = r[i]
    BY <1>8, <2>2, <2>3
  <2>5. q = r
    BY <2>2, <2>4, SeqEqual
  <2> QED
    BY <2>5 DEF q
<1> QED
  BY <1>5, <1>6, <1>7, <1>8, <1>9, <1>10 DEF IsThree

\* s is p, a places long, and then x.
IsTwo(s, S, p, x, a) ==
  /\ s \in Seq(S) /\ a \in Nat /\ a <= Len(s) /\ Len(s) = a + Len(x) /\ Len(x) \in Nat
  /\ DOMAIN s = 1 .. Len(s)
  /\ \A i \in 1 .. a : s[i] = p[i]
  /\ \A i \in 1 .. Len(x) : s[a + i] = x[i]
  /\ Part(s, 0, a) = p /\ Part(s, a, Len(s)) = x

\* Two texts one behind the other.
LEMMA TwoParts ==
  ASSUME NEW S, NEW p \in Seq(S), NEW x \in Seq(S), NEW s, s = Cat(p, x), NEW a, a = Len(p)
  PROVE  IsTwo(s, S, p, x, a)
<1> DEFINE e == <<>>
           q == Cat(p, x)
<1>1. e \in Seq(S) /\ Len(e) = 0 /\ Len(p) \in Nat /\ Len(x) \in Nat
  BY EmptySeq, LenProperties
<1>2. s = Cat(e, Cat(p, x))
  <2>1. q \in Seq(S)
    BY CatLemma
  <2> HIDE DEF q
  <2>2. e \o q = q
    BY <2>1, ConcatEmptySeq
  <2> QED
    BY <2>2 DEF Cat, q
<1> HIDE DEF e, q
<1>3. IsThree(s, S, e, p, x, 0, a)
  <2> DEFINE z == 0
  <2>1. z = Len(e) /\ a = Len(e) + Len(p)
    BY <1>1
  <2> HIDE DEF z
  <2>2. IsThree(s, S, e, p, x, z, a)
    BY <1>1, <1>2, <2>1, ThreeParts
  <2> QED
    BY <2>2 DEF z
<1>4. /\ s \in Seq(S) /\ a \in Nat /\ a <= Len(s) /\ Len(s) = a + Len(x)
      /\ DOMAIN s = 1 .. Len(s)
      /\ \A i \in 1 .. a - 0 : s[0 + i] = p[i]
      /\ \A i \in 1 .. Len(x) : s[a + i] = x[i]
      /\ Part(s, 0, a) = p /\ Part(s, a, Len(s)) = x
  BY <1>3 DEF IsThree
<1>5. \A i \in 1 .. a : i \in 1 .. a - 0 /\ 0 + i = i
  BY <1>4
<1>6. \A i \in 1 .. a : s[i] = p[i]
  BY <1>4, <1>5
<1> QED
  BY <1>1, <1>4, <1>6 DEF IsTwo

\* Where the first character of C stands, and the first one that is none of them.
LEMMA FirstInIs ==
  ASSUME NEW C, NEW p \in Seq(STRING), NEW x \in Seq(STRING),
         \A i \in 1 .. Len(p) : p[i] \notin C, x # <<>>, x[1] \in C
  PROVE  FirstIn(Cat(p, x), C) = Len(p) + 1
<1> DEFINE a == Len(p)
           s == Cat(p, x)
           I == {i \in 1 .. Len(s) : s[i] \in C}
           k == a + 1
<1>1. IsTwo(s, STRING, p, x, a)
  BY TwoParts
<1> HIDE DEF a, s
<1>2. /\ a \in Nat /\ Len(s) = a + Len(x) /\ Len(x) \in Nat
      /\ \A i \in 1 .. a : s[i] = p[i]
      /\ \A i \in 1 .. Len(x) : s[a + i] = x[i]
  BY <1>1 DEF IsTwo
<1>3. 1 \in 1 .. Len(x)
  BY <1>2, EmptySeq
<1>4. I \in SUBSET Nat /\ k \in I
  BY <1>2, <1>3
<1>5. \A i \in I : k <= i
  BY <1>2 DEF a
<1> HIDE DEF I, k
<1>6. I # {} /\ Min(I) = k
  BY <1>4, <1>5, MinIs
<1>7. FirstIn(s, C) = IF I # {} THEN Min(I) ELSE 0
  BY DEF FirstIn, SelectInSeq, I
<1> QED
  BY <1>6, <1>7 DEF k, s, a

\* Where none of them is, there is no such place.
LEMMA FirstInNone ==
  ASSUME NEW C, NEW s \in Seq(STRING), \A i \in 1 .. Len(s) : s[i] \notin C
  PROVE  FirstIn(s, C) = 0
<1>1. {i \in 1 .. Len(s) : s[i] \in C} = {}
  OBVIOUS
<1> QED
  BY <1>1, Zenon DEF FirstIn, SelectInSeq

\* What is not of C is of the other tokens.
LEMMA FirstOutIn ==
  ASSUME NEW C, NEW s \in Seq(STRING)
  PROVE  FirstOut(s, C) = FirstIn(s, STRING \ C)
<1>1. \A i \in 1 .. Len(s) : s[i] \in STRING
  BY ElementOfSeq
<1>2. {i \in 1 .. Len(s) : s[i] \notin C} = {i \in 1 .. Len(s) : s[i] \in STRING \ C}
  BY <1>1
<1> QED
  BY <1>2, Zenon DEF FirstOut, FirstIn, SelectInSeq

\* Where the last character stands that is none of C: at the end of p, when all
\* behind it are of C.
LEMMA LastOutIs ==
  ASSUME NEW C, NEW p \in Seq(STRING), NEW x \in Seq(STRING), p # <<>>, p[Len(p)] \notin C,
         \A i \in 1 .. Len(x) : x[i] \in C
  PROVE  LastOut(Cat(p, x), C) = Len(p)
<1> DEFINE a == Len(p)
           s == Cat(p, x)
           I == {i \in 1 .. Len(s) : s[i] \notin C}
<1>1. IsTwo(s, STRING, p, x, a)
  BY TwoParts
<1>2. a # 0 /\ p[a] \notin C
  BY EmptySeq
<1> HIDE DEF a, s
<1>3. /\ a \in Nat /\ Len(s) = a + Len(x) /\ Len(x) \in Nat
      /\ \A i \in 1 .. a : s[i] = p[i]
      /\ \A i \in 1 .. Len(x) : s[a + i] = x[i]
  BY <1>1 DEF IsTwo
<1>4. I \in SUBSET Nat /\ a \in I
  BY <1>2, <1>3
<1>5. ASSUME NEW i \in I PROVE i <= a
  <2> SUFFICES ASSUME ~(i <= a) PROVE FALSE
    OBVIOUS
  <2> DEFINE j == i - a
  <2>1. j \in 1 .. Len(x) /\ a + j = i
    BY <1>3
  <2> HIDE DEF j
  <2>2. s[a + j] = x[j] /\ x[j] \in C
    BY <1>3, <2>1
  <2> QED
    BY <2>1, <2>2
<1> HIDE DEF I
<1>6. I # {} /\ Max(I) = a
  BY <1>4, <1>5, MaxIs
<1>7. LastOut(s, C) = IF I # {} THEN Max(I) ELSE 0
  BY DEF LastOut, SelectLastInSeq, I
<1> QED
  BY <1>6, <1>7 DEF s, a

\* A text that is not empty has a first place and a last one.
LEMMA FirstPlace ==
  ASSUME NEW S, NEW x \in Seq(S), x # <<>>
  PROVE  Len(x) \in Nat /\ Len(x) # 0 /\ 1 \in 1 .. Len(x) /\ Len(x) \in 1 .. Len(x) /\ x[1] \in S
<1>1. Len(x) \in Nat /\ Len(x) # 0
  BY LenProperties, EmptySeq
<1>2. 1 \in 1 .. Len(x) /\ Len(x) \in 1 .. Len(x)
  BY <1>1
<1> QED
  BY <1>1, <1>2, ElementOfSeq

\* x stands at the place from on in s, behind characters of B, and begins with another.
IsFirstOut(s, B, x, from) ==
  /\ s \in Seq(STRING) /\ from \in Nat /\ from # 0 /\ FirstOut(s, B) = from /\ s[from] = x[1]
  /\ SubSeq(s, from, Len(s)) = x
  /\ x[Len(x)] \notin B => LastOut(s, B) = Len(s)

\* Where the first character stands that is none of B.
LEMMA FirstOutIs ==
  ASSUME NEW B, NEW p \in Seq(STRING), \A i \in 1 .. Len(p) : p[i] \in B,
         NEW x \in Seq(STRING), x # <<>>, x[1] \notin B,
         NEW s, s = Cat(p, x), NEW from, from = Len(p) + 1
  PROVE  IsFirstOut(s, B, x, from)
<1> DEFINE a == Len(p)
           n == Len(s)
           e == <<>>
<1>1. IsTwo(s, STRING, p, x, a)
  BY TwoParts
<1>2. Len(x) # 0 /\ 1 \in 1 .. Len(x) /\ Len(x) \in 1 .. Len(x) /\ x[1] \in STRING
  BY FirstPlace
<1>3. /\ s \in Seq(STRING) /\ a \in Nat /\ n = a + Len(x) /\ Len(x) \in Nat
      /\ \A i \in 1 .. Len(x) : s[a + i] = x[i]
      /\ Part(s, a, n) = x
  BY <1>1 DEF IsTwo
<1>4. FirstOut(s, B) = from
  <2> DEFINE D == STRING \ B
  <2>1. \A i \in 1 .. Len(p) : p[i] \notin D
    OBVIOUS
  <2>2. x[1] \in D
    BY <1>2
  <2> HIDE DEF D
  <2>3. FirstIn(s, D) = from
    BY <2>1, <2>2, FirstInIs
  <2>4. FirstOut(s, B) = FirstIn(s, D)
    BY <1>3, FirstOutIn DEF D
  <2> QED
    BY <2>3, <2>4
<1>5. ASSUME x[Len(x)] \notin B PROVE LastOut(s, B) = n
  <2>1. s # <<>> /\ s[n] \notin B
    <3>1. n # 0 /\ s[n] = x[Len(x)]
      BY <1>2, <1>3
    <3> QED
      BY <1>3, <1>5, <3>1, EmptySeq
  <2>2. Cat(s, e) = s
    BY <1>3, TextEmpty
  <2>3. e \in Seq(STRING) /\ \A i \in 1 .. Len(e) : e[i] \in B
    BY EmptySeq
  <2> HIDE DEF e
  <2>4. LastOut(Cat(s, e), B) = n
    BY <1>3, <2>1, <2>3, LastOutIs
  <2> QED
    BY <2>2, <2>4
<1>6. from \in Nat /\ from # 0 /\ s[from] = x[1] /\ from = a + 1
  BY <1>2, <1>3
<1> HIDE DEF a, n
<1>7. SubSeq(s, from, n) = x
  BY <1>3, <1>6 DEF Part
<1> QED
  BY <1>3, <1>4, <1>5, <1>6, <1>7 DEF IsFirstOut, n

\* A word behind separators and with a separator, or nothing, behind it is the first.
LEMMA GetStrAt ==
  ASSUME NEW S, NEW p \in Seq(S), NEW w \in Seq(S), NEW r \in Seq(S),
         NEW s, s = Cat(p, Cat(w, r)), NEW sep \in SUBSET (DOMAIN s), w # <<>>,
         \A i \in 1 .. Len(p) : i \in sep,
         \A i \in Len(p) + 1 .. Len(p) + Len(w) : i \notin sep,
         r # <<>> => Len(p) + Len(w) + 1 \in sep
  PROVE  GetStr(s, sep) = [read |-> TRUE, word |-> w, rest |-> r]
<1> DEFINE a == Len(p)
           b == Len(p) + Len(w)
           n == Len(s)
           from  == Min(DOMAIN s \ sep)
           after == {i \in sep : i > from}
           to    == IF after = {} THEN Len(s) ELSE Min(after) - 1
<1>1. /\ s \in Seq(S) /\ a \in Nat /\ b \in Nat /\ a <= b /\ b <= n
      /\ n = b + Len(r) /\ n \in Nat /\ DOMAIN s = 1 .. n
      /\ Part(s, a, b) = w /\ Part(s, b, n) = r
  <2>1. IsThree(s, S, p, w, r, a, b)
    BY ThreeParts
  <2> QED
    BY <2>1 DEF IsThree
<1>2. Len(w) \in Nat \ {0} /\ Len(r) \in Nat /\ a < b
  BY <1>1, EmptySeq, LenProperties
<1>3. /\ \A i \in 1 .. a : i \in sep
      /\ \A i \in a + 1 .. b : i \notin sep
      /\ r # <<>> => b + 1 \in sep
  OBVIOUS
<1> HIDE DEF a, b, n
<1>4. from = a + 1
  <2> DEFINE T == DOMAIN s \ sep
  <2>1. T \in SUBSET Nat /\ a + 1 \in T
    BY <1>1, <1>2, <1>3
  <2>2. \A m \in T : a + 1 <= m
    BY <1>1, <1>3
  <2> HIDE DEF T
  <2>3. Min(T) = a + 1
    BY <2>1, <2>2, MinIs
  <2> QED
    BY <2>3 DEF T
<1> HIDE DEF from
<1>5. to = b
  <2>1. CASE r = <<>>
    <3>1. n = b
      BY <1>1, <1>2, <2>1, EmptySeq
    <3>2. after = {}
      BY <1>1, <1>3, <1>4, <3>1
    <3> HIDE DEF after
    <3> QED
      BY <3>1, <3>2 DEF n
  <2>2. CASE r # <<>>
    <3>1. after \in SUBSET Nat /\ b + 1 \in after
      BY <1>1, <1>2, <1>3, <1>4, <2>2
    <3>2. \A m \in after : b + 1 <= m
      BY <1>1, <1>3, <1>4
    <3> HIDE DEF after
    <3>3. after # {} /\ Min(after) = b + 1
      BY <3>1, <3>2, MinIs
    <3>4. to = (b + 1) - 1
      BY <3>3, Zenon
    <3>5. b \in Nat
      BY <1>1, Zenon
    <3> HIDE DEF to
    <3> QED
      BY <3>4, <3>5
  <2> QED
    BY <2>1, <2>2
<1> HIDE DEF to, after
<1>6. s # <<>> /\ ~(DOMAIN s \subseteq sep)
  <2>1. a + 1 \in DOMAIN s
    BY <1>1, <1>2
  <2>2. n # 0
    BY <1>1, <1>2
  <2> QED
    BY <1>1, <1>2, <1>3, <2>1, <2>2, EmptySeq DEF n
<1>7. GetStr(s, sep) = [read |-> TRUE, word |-> SubSeq(s, from, to),
                         rest |-> SubSeq(s, to + 1, Len(s))]
  BY <1>6, Zenon DEF GetStr, from, after, to
<1> QED
  BY <1>1, <1>4, <1>5, <1>7, Zenon DEF Part, n

\* In s the separators sep are all of p, none of the word w behind it, and the first place
\* of the rest.
Around(S, p, w, r, s, sep) ==
  /\ p \in Seq(S) /\ w \in Seq(S) /\ r \in Seq(S)
  /\ s = Cat(p, Cat(w, r)) /\ sep \in SUBSET (DOMAIN s) /\ w # <<>>
  /\ \A i \in 1 .. Len(p) : i \in sep
  /\ \A i \in Len(p) + 1 .. Len(p) + Len(w) : i \notin sep
  /\ r # <<>> => Len(p) + Len(w) + 1 \in sep

\* GetStr reads the word.
LEMMA GetStrAround ==
  ASSUME NEW S, NEW p, NEW w, NEW r, NEW s, NEW sep, Around(S, p, w, r, s, sep)
  PROVE  GetStr(s, sep) = [read |-> TRUE, word |-> w, rest |-> r]
<1>1. p \in Seq(S) /\ w \in Seq(S) /\ r \in Seq(S)
  BY Zenon DEF Around
<1>2. s = Cat(p, Cat(w, r)) /\ sep \in SUBSET (DOMAIN s) /\ w # <<>>
  BY Zenon DEF Around
<1>3. \A i \in 1 .. Len(p) : i \in sep
  BY Zenon DEF Around
<1>4. \A i \in Len(p) + 1 .. Len(p) + Len(w) : i \notin sep
  BY Zenon DEF Around
<1>5. r # <<>> => Len(p) + Len(w) + 1 \in sep
  BY Zenon DEF Around
<1> QED
  BY <1>1, <1>2, <1>3, <1>4, <1>5, GetStrAt

\* The same of the separators of a set, which the word has none of.
LEMMA GetStrWord ==
  ASSUME NEW C, NEW p \in Seq(STRING), p \in Seq(C), NEW w \in Seq(STRING \ C), w # <<>>,
         NEW r \in Seq(STRING), r # <<>> => r[1] \in C, NEW s, s = Cat(p, Cat(w, r))
  PROVE  GetStr(s, Places(s, C)) = [read |-> TRUE, word |-> w, rest |-> r]
<1> DEFINE a == Len(p)
           b == Len(p) + Len(w)
           sep == Places(s, C)
<1>0. w \in Seq(STRING)
  BY SeqMonotonic
<1>1. /\ s \in Seq(STRING) /\ a \in Nat /\ b \in Nat /\ a <= b /\ b <= Len(s)
      /\ Len(s) = b + Len(r) /\ Len(s) \in Nat /\ DOMAIN s = 1 .. Len(s)
      /\ \A i \in 1 .. a : s[i] = p[i]
      /\ \A i \in 1 .. b - a : s[a + i] = w[i]
      /\ \A i \in 1 .. Len(r) : s[b + i] = r[i]
  <2>1. IsThree(s, STRING, p, w, r, a, b)
    BY <1>0, ThreeParts
  <2> HIDE DEF a, b
  <2> QED
    BY <2>1 DEF IsThree
<1>2. b - a = Len(w) /\ Len(r) \in Nat /\ Len(w) \in Nat
  BY <1>0, <1>1, LenProperties
<1>3. \A i \in 1 .. a : p[i] \in C
  BY ElementOfSeq
<1>4. \A i \in 1 .. Len(w) : w[i] \notin C
  BY ElementOfSeq
<1> HIDE DEF a, b
<1>5. \A i \in 1 .. a : i \in sep
  BY <1>1, <1>3 DEF Places
<1>6. ASSUME NEW i \in a + 1 .. b PROVE i \notin sep
  <2> DEFINE j == i - a
  <2>1. j \in 1 .. b - a /\ a + j = i
    BY <1>1
  <2> HIDE DEF j
  <2>2. s[a + j] = w[j] /\ w[j] \notin C
    BY <1>1, <1>2, <1>4, <2>1
  <2> QED
    BY <2>1, <2>2 DEF Places
<1>7. ASSUME r # <<>> PROVE b + 1 \in sep
  <2>1. 1 \in 1 .. Len(r)
    BY <1>2, <1>7, EmptySeq
  <2>2. s[b + 1] = r[1] /\ b + 1 \in 1 .. Len(s)
    BY <1>1, <2>1
  <2> QED
    BY <1>1, <1>7, <2>2 DEF Places
<1>8. sep \in SUBSET (DOMAIN s)
  BY DEF Places
<1> HIDE DEF sep
<1>9. GetStr(s, sep) = [read |-> TRUE, word |-> w, rest |-> r]
  <2>1. /\ \A i \in 1 .. Len(p) : i \in sep
        /\ \A i \in Len(p) + 1 .. Len(p) + Len(w) : i \notin sep
        /\ r # <<>> => Len(p) + Len(w) + 1 \in sep
    BY <1>5, <1>6, <1>7 DEF a, b
  <2>2. Around(STRING, p, w, r, s, sep)
    BY <1>0, <1>8, <2>1, Zenon DEF Around
  <2> QED
    BY <2>2, GetStrAround
<1> QED
  BY <1>9 DEF sep

\* A text that is no longer than another.
Shorter(t, s) == t \in Seq(STRING) /\ Len(t) <= Len(s)

\* A part of a part is a part.
LEMMA ShorterLemma ==
  ASSUME NEW s \in Seq(STRING), NEW t, Shorter(t, s), NEW u, Shorter(u, t)
  PROVE  Shorter(u, s)
<1>1. Len(s) \in Nat /\ Len(t) \in Nat /\ Len(u) \in Nat
  BY LenProperties DEF Shorter
<1> QED
  BY <1>1 DEF Shorter

\* Whatever a text is, a word is a text, and what is behind it is shorter.
LEMMA GetStrType ==
  ASSUME NEW s \in Seq(STRING), NEW sep \in SUBSET (DOMAIN s)
  PROVE  /\ GetStr(s, sep).word \in Seq(STRING) /\ Shorter(GetStr(s, sep).rest, s)
         /\ s # <<>> => Len(GetStr(s, sep).rest) < Len(s)
<1> DEFINE n == Len(s)
           from  == Min(DOMAIN s \ sep)
           after == {i \in sep : i > from}
           to    == IF after = {} THEN Len(s) ELSE Min(after) - 1
           g == GetStr(s, sep)
<1>0. n \in Nat /\ DOMAIN s = 1 .. n /\ (s # <<>> => n > 0) /\ <<>> \in Seq(STRING) /\ Len(<<>>) = 0
  BY LenProperties, EmptySeq
<1>1. CASE s = <<>>
  <2>1. g = [read |-> TRUE, word |-> <<CR>>, rest |-> <<>>]
    BY <1>1 DEF GetStr
  <2>2. CR \in STRING
    BY MarksLemma DEF Marks
  <2>3. <<CR>> \in Seq(STRING)
    BY <2>2, OneElement
  <2> HIDE DEF g
  <2>4. g.word = <<CR>> /\ g.rest = <<>>
    BY <2>1
  <2>5. g.word \in Seq(STRING) /\ g.rest \in Seq(STRING) /\ Len(g.rest) <= Len(s)
    BY <1>0, <1>1, <2>3, <2>4
  <2> QED
    BY <1>1, <2>5 DEF Shorter, g
<1>2. CASE s # <<>> /\ DOMAIN s \subseteq sep
  <2>1. g = None
    BY <1>2 DEF GetStr
  <2> HIDE DEF g
  <2>2. g.word = <<>> /\ g.rest = <<>>
    BY <2>1 DEF None
  <2> QED
    BY <1>0, <1>2, <2>2 DEF Shorter, g
<1>3. CASE s # <<>> /\ ~(DOMAIN s \subseteq sep)
  <2>1. from \in 1 .. n
    <3> DEFINE T == DOMAIN s \ sep
    <3>1. T \in SUBSET Nat /\ T # {}
      BY <1>0, <1>3
    <3> HIDE DEF T
    <3>2. Min(T) \in T
      BY <3>1, MinLemma
    <3> QED
      BY <1>0, <3>2 DEF T
  <2> HIDE DEF from
  <2>2. to \in 1 .. n /\ from <= to
    <3>1. CASE after = {}
      BY <1>0, <2>1, <3>1
    <3>2. CASE after # {}
      <4>1. after \in SUBSET Nat
        BY <1>0
      <4> HIDE DEF after
      <4>2. Min(after) \in after
        BY <3>2, <4>1, MinLemma
      <4>3. Min(after) \in 1 .. n /\ Min(after) > from
        BY <1>0, <4>2 DEF after
      <4> QED
        BY <2>1, <3>2, <4>3
    <3> QED
      BY <3>1, <3>2
  <2>3. g = [read |-> TRUE, word |-> SubSeq(s, from, to), rest |-> SubSeq(s, to + 1, n)]
    BY <1>3 DEF GetStr, from
  <2> HIDE DEF to, g
  <2>4. g.word = SubSeq(s, from, to) /\ g.rest = Part(s, to, n)
    BY <2>3 DEF Part
  <2>5. Part(s, to, n) \in Seq(STRING) /\ Len(Part(s, to, n)) = n - to
    <3>1. to \in Nat /\ to <= n /\ n \in Nat /\ n <= Len(s)
      BY <1>0, <2>2
    <3> HIDE DEF n
    <3> QED
      BY <3>1, PartLemma
  <2>6. SubSeq(s, from, to) \in Seq(STRING)
    <3> DEFINE h == from - 1
    <3>1. h \in Nat /\ h <= to /\ to \in Nat /\ to <= Len(s) /\ h + 1 = from
      BY <1>0, <2>1, <2>2
    <3> HIDE DEF h
    <3>2. Part(s, h, to) \in Seq(STRING)
      BY <3>1, PartLemma
    <3> QED
      BY <3>1, <3>2 DEF Part
  <2>7. n - to < n /\ n - to <= n
    BY <1>0, <2>2
  <2> QED
    BY <2>4, <2>5, <2>6, <2>7 DEF Shorter, g
<1> QED
  BY <1>1, <1>2, <1>3

\* What the provers need to know of numbers: they are printed as a word without marks,
\* and read back.
LEMMA NumberWord ==
  /\ \A n \in Numbers : /\ n \in Nat /\ Decimal(n) \in Seq(STRING \ Marks)
                        /\ Decimal(n) # <<>> /\ Strtol(Decimal(n)) = n
  /\ Strtol(<<>>) = 0
<1>1. ASSUME NEW n \in Numbers
      PROVE  /\ Decimal(n) \in Seq(STRING \ Marks) /\ Decimal(n) # <<>>
             /\ Strtol(Decimal(n)) = n
  <2>1. ToString(n) \in STRING \ Marks
    BY NumbersAssumption
  <2> DEFINE d == ToString(n)
  <2>2. <<d>> \in Seq(STRING \ Marks) /\ <<d>> # <<>>
    BY <2>1
  <2>3. ASSUME NEW m \in Numbers, Decimal(n) = Decimal(m) PROVE m = n
    <3>1. ToString(n) = ToString(m)
      BY <2>3 DEF Decimal
    <3> QED
      BY <3>1, NumbersAssumption
  <2>4. (CHOOSE m \in Numbers : Decimal(n) = Decimal(m)) = n
    BY <2>3
  <2> QED
    BY <2>2, <2>4 DEF Decimal, Strtol
<1>2. \A n \in Numbers : <<>> # Decimal(n)
  BY <1>1
<1> QED
  BY <1>1, <1>2, NumbersAssumption DEF Strtol

\* A text without marks has none of some of them.
LEMMA Unmarked ==
  ASSUME NEW s \in Seq(STRING \ Marks), NEW C \in SUBSET Marks
  PROVE  s \in Seq(STRING \ C) /\ s \in Seq(STRING)
<1>1. STRING \ Marks \subseteq STRING \ C /\ STRING \ Marks \subseteq STRING
  OBVIOUS
<1> QED
  BY <1>1, SeqMonotonic

\* A text is empty or begins with one of M.
Starts(s, M) == s # <<>> => s[1] \in M

\* What the text of two texts begins with.
LEMMA StartsCat ==
  ASSUME NEW S, NEW s \in Seq(S), NEW t \in Seq(S), NEW M, Starts(s, M), s = <<>> => Starts(t, M)
  PROVE  /\ Cat(s, t) \in Seq(S) /\ Starts(Cat(s, t), M)
         /\ s = <<>> => Cat(s, t) = t
         /\ s # <<>> => Cat(s, t) # <<>> /\ Cat(s, t)[1] = s[1]
<1>1. Cat(s, t) \in Seq(S)
  BY CatLemma
<1>2. ASSUME s = <<>> PROVE Cat(s, t) = t
  BY <1>2, ConcatEmptySeq DEF Cat
<1>3. ASSUME s # <<>> PROVE Cat(s, t) # <<>> /\ Cat(s, t)[1] = s[1]
  <2> DEFINE u == Cat(s, t)
  <2>1. IsBehind(u, S, s, t, Len(s), Len(t))
    BY BehindIs DEF Cat
  <2> HIDE DEF u
  <2>2. Len(s) \in Nat \ {0} /\ Len(t) \in Nat
    BY <1>3, EmptySeq, LenProperties
  <2>3. u \in Seq(S) /\ Len(u) = Len(s) + Len(t) /\ \A i \in 1 .. Len(s) : u[i] = s[i]
    BY <2>1 DEF IsBehind
  <2>4. u[1] = s[1] /\ Len(u) # 0
    BY <2>2, <2>3
  <2>5. u # <<>>
    BY <2>4, EmptySeq
  <2> QED
    BY <2>4, <2>5 DEF u
<1> QED
  BY <1>1, <1>2, <1>3 DEF Starts

-----------------------------------------------------------------------------
(* Uris.                                                                   *)

UriMarks == {" ", ":", "/", "@", ";"}

\* The word of a uri.
LEMMA UriWordIs ==
  ASSUME NEW p \in Seq(UriMarks), NEW w \in UriWords, NEW r \in Seq(STRING), Starts(r, UriMarks)
  PROVE  UriWord(Cat(p, Cat(w, r))) = [read |-> TRUE, word |-> w, rest |-> r]
<1> DEFINE s == Cat(p, Cat(w, r))
<1>1. UriMarks \subseteq STRING /\ UriMarks \subseteq Marks
  BY MarksLemma DEF UriMarks, Marks
<1>2. p \in Seq(STRING)
  BY <1>1, SeqMonotonic
<1>3. w \in Seq(STRING \ UriMarks) /\ w # <<>>
  <2>1. w \in Seq(STRING \ (UriMarks \cup {CR, LF})) /\ w # <<>>
    BY DEF UriWords, WordsWithout, UriMarks
  <2>2. STRING \ (UriMarks \cup {CR, LF}) \subseteq STRING \ UriMarks
    OBVIOUS
  <2> QED
    BY <2>1, <2>2, SeqMonotonic
<1>4. r # <<>> => r[1] \in UriMarks
  BY DEF Starts
<1> HIDE DEF UriMarks
<1>5. GetStr(s, Places(s, UriMarks)) = [read |-> TRUE, word |-> w, rest |-> r]
  <2>1. s = Cat(p, Cat(w, r))
    OBVIOUS
  <2> HIDE DEF s
  <2> QED
    BY <1>2, <1>3, <1>4, <2>1, GetStrWord
<1> QED
  BY <1>5 DEF UriWord, UriMarks

\* A part of a uri behind its mark.
Marked(mark, w) == IF w # <<>> THEN Cat(<<mark>>, w) ELSE <<>>

\* A part that may be missing, behind its mark.
LEMMA OptionalIs ==
  ASSUME NEW mark \in UriMarks, NEW w \in UriWords \cup {<<>>}, NEW r \in Seq(STRING),
         Starts(r, UriMarks \ {mark})
  PROVE  Optional(mark, Cat(Marked(mark, w), r)) = [read |-> TRUE, word |-> w, rest |-> r]
<1> DEFINE p == Marked(mark, w)
           s == Cat(p, r)
<1>0. mark \in STRING
  BY MarksLemma DEF UriMarks, Marks
<1> DEFINE m == <<mark>>
<1>1. m \in Seq(STRING) /\ m # <<>> /\ m[1] = mark
  BY <1>0, Token
<1>2. CASE w # <<>>
  <2>1. w \in UriWords
    BY <1>2
  <2>2. w \in Seq(STRING)
    <3>1. w \in Seq(STRING \ (UriMarks \cup {CR, LF}))
      BY <2>1 DEF UriWords, WordsWithout, UriMarks
    <3>2. STRING \ (UriMarks \cup {CR, LF}) \subseteq STRING
      OBVIOUS
    <3> QED
      BY <3>1, <3>2, SeqMonotonic
  <2>3. m \in Seq(UriMarks)
    BY OneElement
  <2> HIDE DEF m, p
  <2>4. p = Cat(m, w)
    BY <1>2 DEF m, p, Marked
  <2>5. s = Cat(m, Cat(w, r))
    BY <1>1, <2>2, <2>4, TextAssoc
  <2> HIDE DEF s
  <2>6. Starts(r, UriMarks)
    BY DEF Starts
  <2>7. UriWord(s) = [read |-> TRUE, word |-> w, rest |-> r]
    BY <2>1, <2>3, <2>5, <2>6, UriWordIs
  <2>8. s # <<>> /\ s[1] = mark
    <3> DEFINE t == Cat(w, r)
    <3>1. t \in Seq(STRING)
      BY <2>2, TextCat
    <3>2. Starts(m, {mark})
      BY <1>1 DEF Starts
    <3> HIDE DEF t
    <3>3. Cat(m, t) # <<>> /\ Cat(m, t)[1] = m[1]
      BY <1>1, <3>1, <3>2, StartsCat
    <3> QED
      BY <1>1, <2>5, <3>3 DEF t
  <2>9. Optional(mark, s) = [read |-> TRUE, word |-> w, rest |-> r]
    BY <2>7, <2>8 DEF Optional, StartsWith
  <2> QED
    BY <2>9 DEF s, p
<1>3. CASE w = <<>>
  <2>1. s = r
    BY <1>3, ConcatEmptySeq DEF Cat, Marked
  <2>2. ~StartsWith(s, mark)
    BY <2>1 DEF StartsWith, Starts
  <2> QED
    BY <1>3, <2>1, <2>2 DEF Optional
<1> QED
  BY <1>2, <1>3

\* Words are texts of one line.
Tokens == STRING \ {CR, LF}

\* A word is one, and it is not empty.
LEMMA WordsAreTexts ==
  ASSUME NEW C, NEW w \in WordsWithout(C)
  PROVE  w \in Seq(Tokens) /\ w \in Seq(STRING) /\ w # <<>>
<1>1. w \in Seq(STRING \ (C \cup {CR, LF})) /\ w # <<>>
  BY DEF WordsWithout
<1>2. STRING \ (C \cup {CR, LF}) \subseteq Tokens /\ Tokens \subseteq STRING
  BY DEF Tokens
<1>3. w \in Seq(Tokens)
  BY <1>1, <1>2, SeqMonotonic
<1> QED
  BY <1>1, <1>2, <1>3, SeqMonotonic

\* A text of one line is a text.
LEMMA LinesAreTexts == \A s \in Seq(Tokens) : s \in Seq(STRING)
<1>1. Tokens \subseteq STRING
  BY DEF Tokens
<1> QED
  BY <1>1, SeqMonotonic

\* Two of them make one.
LEMMA LineCat == \A s, t \in Seq(Tokens) : Cat(s, t) \in Seq(Tokens)
BY CatLemma

\* The marks but for the ends of a line.
LEMMA MarkTokens == \A c \in Marks \ {CR, LF} : c \in Tokens
BY MarksLemma DEF Tokens

\* A token that ends no line is one.
LEMMA LineToken == \A c \in Tokens : <<c>> \in Seq(Tokens)
BY OneElement

\* So are three.
LEMMA ThreeTokens == \A a, b, c \in Tokens : <<a, b, c>> \in Seq(Tokens)
<1> HIDE DEF Tokens
<1> QED
  OBVIOUS

\* Three marks of uris, as they stand behind a scheme.
LEMMA ThreeMarks == \A a, b, c \in UriMarks : <<a, b, c>> \in Seq(UriMarks)
<1> HIDE DEF UriMarks
<1> QED
  OBVIOUS

\* The text of no tokens is of one line, too.
LEMMA LineEmpty == <<>> \in Seq(Tokens)
BY EmptySeq

\* A number is a text of one line, too.
LEMMA NumberLine == \A n \in Numbers : Decimal(n) \in Seq(Tokens)
<1>1. STRING \ Marks \subseteq Tokens
  BY DEF Tokens, Marks
<1>2. \A n \in Numbers : Decimal(n) \in Seq(STRING \ Marks)
  BY NumberWord
<1> QED
  BY <1>1, <1>2, SeqMonotonic

\* Characters that words end at.
IsSeparators(C) == C \cup {CR, LF} \subseteq Marks

\* A number is a word for every parser.
LEMMA NumberWithout ==
  ASSUME NEW n \in Numbers, NEW C, IsSeparators(C)
  PROVE  Decimal(n) \in WordsWithout(C)
<1> DEFINE D == C \cup {CR, LF}
<1>0. D \subseteq Marks
  BY DEF IsSeparators
<1>1. Decimal(n) \in Seq(STRING \ Marks) /\ Decimal(n) # <<>>
  BY NumberWord
<1>2. STRING \ Marks \subseteq STRING \ D
  BY <1>0
<1> HIDE DEF D
<1>3. Decimal(n) \in Seq(STRING \ D)
  BY <1>1, <1>2, SeqMonotonic
<1> QED
  BY <1>1, <1>3 DEF WordsWithout, D

Uris ==
  [scheme : UriWords, user : UriWords \cup {<<>>}, host : UriWords, port : Numbers,
   session_id : UriWords \cup {<<>>}, transport : UriWords \cup {<<>>}]

\* A part of a uri with its mark is a text of one line.
LEMMA MarkedLemma ==
  ASSUME NEW mark \in UriMarks, NEW w \in UriWords \cup {<<>>}
  PROVE  Marked(mark, w) \in Seq(Tokens) /\ Starts(Marked(mark, w), {mark})
<1>1. mark \in Tokens
  BY MarkTokens DEF UriMarks, Marks, CR, LF
<1> DEFINE m == <<mark>>
<1>2. m \in Seq(Tokens) /\ m # <<>> /\ m[1] = mark
  BY <1>1, OneElement
<1> HIDE DEF m
<1>3. CASE w # <<>>
  <2>1. w \in UriWords
    BY <1>3
  <2>2. w \in Seq(Tokens)
    BY <2>1, WordsAreTexts DEF UriWords
  <2>3. Starts(m, {mark})
    BY <1>2 DEF Starts
  <2>4. Cat(m, w) \in Seq(Tokens) /\ Starts(Cat(m, w), {mark})
    BY <1>2, <2>2, <2>3, StartsCat
  <2> QED
    BY <1>3, <2>4 DEF Marked, m
<1>4. CASE w = <<>>
  BY <1>4, EmptySeq DEF Marked, Starts
<1> QED
  BY <1>3, <1>4

\* The mark in front of the optional part that comes next, or what is behind it.
LEMMA MarkedStarts ==
  ASSUME NEW mark \in UriMarks, NEW w \in UriWords \cup {<<>>}, NEW r \in Seq(STRING), NEW M,
         Starts(r, M)
  PROVE  /\ Cat(Marked(mark, w), r) \in Seq(STRING)
         /\ Starts(Cat(Marked(mark, w), r), M \cup {mark})
<1> DEFINE p == Marked(mark, w)
<1>1. p \in Seq(STRING) /\ Starts(p, {mark})
  BY MarkedLemma, LinesAreTexts
<1> HIDE DEF p
<1>2. Starts(p, M \cup {mark}) /\ Starts(r, M \cup {mark})
  BY <1>1 DEF Starts
<1> DEFINE N == M \cup {mark}
<1> HIDE DEF N
<1>3. Starts(p, N) /\ Starts(r, N)
  BY <1>2 DEF N
<1>4. Cat(p, r) \in Seq(STRING) /\ Starts(Cat(p, r), N)
  BY <1>1, <1>3, StartsCat
<1> QED
  BY <1>4 DEF p, N

\* The text of a uri and what is behind it, without brackets.
UriText(u, r) ==
  Cat(<<" ">>, Cat(u.scheme, Cat(<<":", "/", "/">>,
    Cat(IF u.user # <<>> THEN Cat(u.user, <<"@">>) ELSE <<>>,
      Cat(u.host, Cat(Marked(":", IF u.port > 0 THEN Decimal(u.port) ELSE <<>>),
        Cat(Marked("/", u.session_id), Cat(Marked(";", u.transport), r))))))))

\* It is what lmsrp_uri_tostring writes, with something behind it.
LEMMA UriTextIs ==
  ASSUME NEW u \in Uris, NEW r \in Seq(STRING)
  PROVE  /\ UriToString(u) \in Seq(Tokens)
         /\ Cat(UriToString(u), r) = UriText(u, r)
<1> DEFINE a == <<" ">>
           b == u.scheme
           c == <<":", "/", "/">>
           d == IF u.user # <<>> THEN Cat(u.user, <<"@">>) ELSE <<>>
           e == u.host
           f == Marked(":", IF u.port > 0 THEN Decimal(u.port) ELSE <<>>)
           g == Marked("/", u.session_id)
           h == Marked(";", u.transport)
<1>1. \A w \in UriWords : w \in Seq(Tokens)
  BY WordsAreTexts DEF UriWords
<1>2. {" ", ":", "/", "@"} \subseteq Tokens
  BY MarkTokens DEF Marks, CR, LF
<1>3. a \in Seq(Tokens)
  BY <1>2, OneElement
<1>4. b \in Seq(Tokens) /\ e \in Seq(Tokens)
  BY <1>1 DEF Uris
<1>5. c \in Seq(Tokens)
  <2>1. ":" \in Tokens /\ "/" \in Tokens
    BY <1>2
  <2> QED
    BY <2>1, ThreeTokens
<1>6. d \in Seq(Tokens)
  <2>1. CASE u.user # <<>>
    <3>1. u.user \in Seq(Tokens)
      BY <1>1, <2>1 DEF Uris
    <3> DEFINE x == <<"@">>
    <3>2. x \in Seq(Tokens)
      BY <1>2, OneElement
    <3> HIDE DEF x
    <3>3. Cat(u.user, x) \in Seq(Tokens)
      BY <3>1, <3>2, LineCat
    <3> QED
      BY <2>1, <3>3 DEF x
  <2>2. CASE u.user = <<>>
    BY <2>2, LineEmpty
  <2> QED
    BY <2>1, <2>2
<1>7. f \in Seq(Tokens)
  <2> DEFINE w == IF u.port > 0 THEN Decimal(u.port) ELSE <<>>
  <2>1. w \in UriWords \cup {<<>>}
    <3>1. u.port \in Numbers
      BY DEF Uris
    <3> DEFINE C == {" ", ":", "/", "@", ";"}
    <3>2. IsSeparators(C)
      BY DEF IsSeparators, Marks
    <3> HIDE DEF C
    <3>3. Decimal(u.port) \in WordsWithout(C)
      BY <3>1, <3>2, NumberWithout
    <3> QED
      BY <3>3 DEF UriWords, C
  <2>2. ":" \in UriMarks
    BY DEF UriMarks
  <2> HIDE DEF w
  <2>3. Marked(":", w) \in Seq(Tokens)
    BY <2>1, <2>2, MarkedLemma
  <2> QED
    BY <2>3 DEF w
<1>8. g \in Seq(Tokens)
  BY MarkedLemma DEF UriMarks, Uris
<1>9. h \in Seq(Tokens)
  BY MarkedLemma DEF UriMarks, Uris
<1>10. UriToString(u) = a \o b \o c \o d \o e \o f \o g \o h
  <2>1. f = IF u.port > 0 THEN <<":">> \o Decimal(u.port) ELSE <<>>
    <3>1. Decimal(u.port) # <<>>
      BY NumberWord DEF Uris
    <3> QED
      BY <3>1, Zenon DEF Marked, Cat
  <2> HIDE DEF f
  <2> QED
    BY <2>1, Zenon DEF UriToString, Cat, Marked
<1> HIDE DEF a, b, c, d, e, f, g, h
<1>11. UriToString(u) = Cat(Cat(Cat(Cat(Cat(Cat(Cat(a, b), c), d), e), f), g), h)
  BY <1>10, Zenon DEF Cat
<1>12. UriToString(u) \in Seq(Tokens)
  <2> DEFINE l2 == Cat(a, b)
             l3 == Cat(l2, c)
             l4 == Cat(l3, d)
             l5 == Cat(l4, e)
             l6 == Cat(l5, f)
             l7 == Cat(l6, g)
  <2>1. /\ l2 \in Seq(Tokens) /\ l3 \in Seq(Tokens) /\ l4 \in Seq(Tokens)
        /\ l5 \in Seq(Tokens) /\ l6 \in Seq(Tokens) /\ l7 \in Seq(Tokens)
    BY <1>3, <1>4, <1>5, <1>6, <1>7, <1>8, LineCat
  <2>2. Cat(l7, h) \in Seq(Tokens)
    <3> HIDE DEF l7
    <3> QED
      BY <1>9, <2>1, LineCat
  <2> QED
    BY <1>11, <2>2
<1>13. /\ a \in Seq(STRING) /\ b \in Seq(STRING) /\ c \in Seq(STRING) /\ d \in Seq(STRING)
       /\ e \in Seq(STRING) /\ f \in Seq(STRING) /\ g \in Seq(STRING) /\ h \in Seq(STRING)
  BY <1>3, <1>4, <1>5, <1>6, <1>7, <1>8, <1>9, LinesAreTexts
<1>14. Cat(UriToString(u), r) = Cat(a, Cat(b, Cat(c, Cat(d, Cat(e, Cat(f, Cat(g, Cat(h, r))))))))
  <2> DEFINE l2 == Cat(a, b)
             l3 == Cat(l2, c)
             l4 == Cat(l3, d)
             l5 == Cat(l4, e)
             l6 == Cat(l5, f)
             l7 == Cat(l6, g)
             r7 == Cat(h, r)
             r6 == Cat(g, r7)
             r5 == Cat(f, r6)
             r4 == Cat(e, r5)
             r3 == Cat(d, r4)
             r2 == Cat(c, r3)
  <2>1. /\ l2 \in Seq(STRING) /\ l3 \in Seq(STRING) /\ l4 \in Seq(STRING)
        /\ l5 \in Seq(STRING) /\ l6 \in Seq(STRING) /\ l7 \in Seq(STRING)
    BY <1>13, TextCat
  <2>2. /\ r7 \in Seq(STRING) /\ r6 \in Seq(STRING) /\ r5 \in Seq(STRING)
        /\ r4 \in Seq(STRING) /\ r3 \in Seq(STRING) /\ r2 \in Seq(STRING)
    BY <1>13, TextCat
  <2>3. Cat(Cat(l7, h), r) = Cat(l7, r7)
    <3>1. l7 \in Seq(STRING) /\ h \in Seq(STRING) /\ r \in Seq(STRING)
      BY <1>13, <2>1, <2>2, Zenon
    <3> HIDE DEF l2, l3, l4, l5, l6, l7, r2, r3, r4, r5, r6, r7
    <3>2. Cat(Cat(l7, h), r) = Cat(l7, Cat(h, r))
      BY <3>1, ThreeTexts
    <3> QED
      BY <3>2, Zenon DEF r7
  <2>4. Cat(l7, r7) = Cat(l6, r6)
    <3>1. l6 \in Seq(STRING) /\ g \in Seq(STRING) /\ r7 \in Seq(STRING)
      BY <1>13, <2>1, <2>2, Zenon
    <3> HIDE DEF l2, l3, l4, l5, l6, l7, r2, r3, r4, r5, r6, r7
    <3>2. Cat(Cat(l6, g), r7) = Cat(l6, Cat(g, r7))
      BY <3>1, ThreeTexts
    <3> QED
      BY <3>2, Zenon DEF l7, r6
  <2>5. Cat(l6, r6) = Cat(l5, r5)
    <3>1. l5 \in Seq(STRING) /\ f \in Seq(STRING) /\ r6 \in Seq(STRING)
      BY <1>13, <2>1, <2>2, Zenon
    <3> HIDE DEF l2, l3, l4, l5, l6, l7, r2, r3, r4, r5, r6, r7
    <3>2. Cat(Cat(l5, f), r6) = Cat(l5, Cat(f, r6))
      BY <3>1, ThreeTexts
    <3> QED
      BY <3>2, Zenon DEF l6, r5
  <2>6. Cat(l5, r5) = Cat(l4, r4)
    <3>1. l4 \in Seq(STRING) /\ e \in Seq(STRING) /\ r5 \in Seq(STRING)
      BY <1>13, <2>1, <2>2, Zenon
    <3> HIDE DEF l2, l3, l4, l5, l6, l7, r2, r3, r4, r5, r6, r7
    <3>2. Cat(Cat(l4, e), r5) = Cat(l4, Cat(e, r5))
      BY <3>1, ThreeTexts
    <3> QED
      BY <3>2, Zenon DEF l5, r4
  <2>7. Cat(l4, r4) = Cat(l3, r3)
    <3>1. l3 \in Seq(STRING) /\ d \in Seq(STRING) /\ r4 \in Seq(STRING)
      BY <1>13, <2>1, <2>2, Zenon
    <3> HIDE DEF l2, l3, l4, l5, l6, l7, r2, r3, r4, r5, r6, r7
    <3>2. Cat(Cat(l3, d), r4) = Cat(l3, Cat(d, r4))
      BY <3>1, ThreeTexts
    <3> QED
      BY <3>2, Zenon DEF l4, r3
  <2>8. Cat(l3, r3) = Cat(l2, r2)
    <3>1. l2 \in Seq(STRING) /\ c \in Seq(STRING) /\ r3 \in Seq(STRING)
      BY <1>13, <2>1, <2>2, Zenon
    <3> HIDE DEF l2, l3, l4, l5, l6, l7, r2, r3, r4, r5, r6, r7
    <3>2. Cat(Cat(l2, c), r3) = Cat(l2, Cat(c, r3))
      BY <3>1, ThreeTexts
    <3> QED
      BY <3>2, Zenon DEF l3, r2
  <2>9. Cat(l2, r2) = Cat(a, Cat(b, r2))
    <3> HIDE DEF r2
    <3> QED
      BY <1>13, <2>2, ThreeTexts
  <2> HIDE DEF r7, r6, r5, r4, r3, l6, l5, l4, l3, l2
  <2>10. Cat(Cat(l7, h), r) = Cat(a, Cat(b, r2))
    BY <2>3, <2>4, <2>5, <2>6, <2>7, <2>8, <2>9, Zenon
  <2> QED
    BY <1>11, <2>10, Zenon DEF l7, l6, l5, l4, l3, l2, r2, r3, r4, r5, r6, r7
<1> QED
  BY <1>12, <1>14, Zenon DEF UriText, a, b, c, d, e, f, g, h

\* What is behind the host of a uri.
PortWord(u)          == IF u.port > 0 THEN Decimal(u.port) ELSE <<>>
TransportText(u, r)  == Cat(Marked(";", u.transport), r)
SessionText(u, r)    == Cat(Marked("/", u.session_id), TransportText(u, r))
UriRest(u, r)        == Cat(Marked(":", PortWord(u)), SessionText(u, r))

\* The parser takes the parts behind the host one after the other.
LEMMA UriRestIs ==
  ASSUME NEW u \in Uris, NEW r \in Seq(STRING), Starts(r, {" "})
  PROVE  /\ UriRest(u, r) \in Seq(STRING) /\ Starts(UriRest(u, r), {" ", ":", "/", ";"})
         /\ Strtol(PortWord(u)) = u.port
         /\ Optional(":", UriRest(u, r)) =
              [read |-> TRUE, word |-> PortWord(u), rest |-> SessionText(u, r)]
         /\ Optional("/", SessionText(u, r)) =
              [read |-> TRUE, word |-> u.session_id, rest |-> TransportText(u, r)]
         /\ Optional(";", TransportText(u, r)) =
              [read |-> TRUE, word |-> u.transport, rest |-> r]
<1> DEFINE w == PortWord(u)
           t2 == Cat(Marked(";", u.transport), r)
           t1 == Cat(Marked("/", u.session_id), t2)
           t0 == Cat(Marked(":", w), t1)
<1>1. w \in UriWords \cup {<<>>} /\ Strtol(w) = u.port
  <2>1. u.port \in Numbers /\ u.port \in Nat /\ Strtol(Decimal(u.port)) = u.port
    BY NumberWord DEF Uris
  <2> DEFINE C == {" ", ":", "/", "@", ";"}
  <2>2. IsSeparators(C)
    BY DEF IsSeparators, Marks
  <2> HIDE DEF C
  <2>3. Decimal(u.port) \in WordsWithout(C)
    BY <2>1, <2>2, NumberWithout
  <2>4. Strtol(<<>>) = 0
    BY NumberWord
  <2>5. u.port > 0 \/ u.port = 0
    BY <2>1, Positive, Zenon
  <2>6. Decimal(u.port) \in UriWords
    BY <2>3 DEF UriWords, C
  <2> QED
    BY <2>1, <2>4, <2>5, <2>6 DEF PortWord
<1>2. u.session_id \in UriWords \cup {<<>>} /\ u.transport \in UriWords \cup {<<>>}
  BY DEF Uris
<1>3. ":" \in UriMarks /\ "/" \in UriMarks /\ ";" \in UriMarks
  BY DEF UriMarks
<1>4. t2 \in Seq(STRING) /\ Starts(t2, {" "} \cup {";"})
  BY <1>2, <1>3, MarkedStarts
<1> HIDE DEF w, t2
<1>5. t1 \in Seq(STRING) /\ Starts(t1, ({" "} \cup {";"}) \cup {"/"})
  BY <1>2, <1>3, <1>4, MarkedStarts
<1> HIDE DEF t1
<1>6. t0 \in Seq(STRING) /\ Starts(t0, (({" "} \cup {";"}) \cup {"/"}) \cup {":"})
  BY <1>1, <1>3, <1>5, MarkedStarts
<1>7. Optional(":", t0) = [read |-> TRUE, word |-> w, rest |-> t1]
  <2>1. Starts(t1, UriMarks \ {":"})
    BY <1>5 DEF Starts, UriMarks
  <2> QED
    BY <1>1, <1>3, <1>5, <2>1, OptionalIs
<1>8. Optional("/", t1) = [read |-> TRUE, word |-> u.session_id, rest |-> t2]
  <2>1. Starts(t2, UriMarks \ {"/"})
    BY <1>4 DEF Starts, UriMarks
  <2> QED
    BY <1>2, <1>3, <1>4, <2>1, OptionalIs DEF t1
<1>9. Optional(";", t2) = [read |-> TRUE, word |-> u.transport, rest |-> r]
  <2>1. Starts(r, UriMarks \ {";"})
    BY DEF Starts, UriMarks
  <2> QED
    BY <1>2, <1>3, <2>1, OptionalIs DEF t2
<1> HIDE DEF t0
<1>10. UriRest(u, r) = t0 /\ SessionText(u, r) = t1 /\ TransportText(u, r) = t2
  BY Zenon DEF UriRest, SessionText, TransportText, t0, t1, t2, w
<1>11. Starts(t0, {" ", ":", "/", ";"})
  BY <1>6 DEF Starts
<1>12. w = PortWord(u)
  BY DEF w
<1> QED
  BY <1>1, <1>6, <1>7, <1>8, <1>9, <1>10, <1>11, <1>12, Zenon

\* A uri that is written is read back, with what is behind it.
LEMMA UriTrip ==
  ASSUME NEW u \in Uris, NEW r \in Seq(STRING), Starts(r, {" "})
  PROVE  /\ UriPrase(Cat(UriToString(u), r)) = [read |-> TRUE, rest |-> r, uri |-> u]
         /\ Cat(UriToString(u), r) # <<>> /\ Starts(Cat(UriToString(u), r), {" "})
<1> DEFINE z == UriRest(u, r)
           s == Cat(UriToString(u), r)
           c == <<":", "/", "/">>
           d == IF u.user # <<>> THEN Cat(u.user, <<"@">>) ELSE <<>>
           hz == Cat(u.host, z)
           y == Cat(d, hz)
           x == Cat(c, y)
           first == UriWord(x)
           named == StartsWith(first.rest, "@")
           host  == IF named THEN UriWord(first.rest) ELSE first
           name  == IF named THEN first.word ELSE <<>>
<1>1. z \in Seq(STRING) /\ Starts(z, {" ", ":", "/", ";"})
  BY UriRestIs
<1>2. /\ Strtol(PortWord(u)) = u.port
      /\ Optional(":", z) = [read |-> TRUE, word |-> PortWord(u), rest |-> SessionText(u, r)]
      /\ Optional("/", SessionText(u, r)) =
           [read |-> TRUE, word |-> u.session_id, rest |-> TransportText(u, r)]
      /\ Optional(";", TransportText(u, r)) =
           [read |-> TRUE, word |-> u.transport, rest |-> r]
  BY UriRestIs
<1>3. s = Cat(<<" ">>, Cat(u.scheme, x))
  <2>1. s = UriText(u, r)
    BY UriTextIs
  <2> QED
    BY <2>1, Zenon DEF UriText, UriRest, SessionText, TransportText, PortWord
<1> HIDE DEF z, s
<1>4. u.host \in UriWords /\ u.host \in Seq(STRING)
  <2>1. u.host \in UriWords
    BY DEF Uris
  <2> QED
    BY <2>1, WordsAreTexts DEF UriWords
<1>5. hz \in Seq(STRING)
  BY <1>1, <1>4, TextCat
<1>6. Starts(z, UriMarks) /\ ~StartsWith(z, "@")
  BY <1>1 DEF Starts, UriMarks, StartsWith
<1>7. \A m \in {"@", ":", "/", " "} : m \in UriMarks /\ m \in STRING
  BY MarksLemma DEF Marks, UriMarks
<1>8. <<"@">> \in Seq(UriMarks) /\ c \in Seq(UriMarks) /\ <<" ">> \in Seq(UriMarks)
  <2>1. "@" \in UriMarks /\ ":" \in UriMarks /\ "/" \in UriMarks /\ " " \in UriMarks
    BY <1>7
  <2> QED
    BY <2>1, OneElement, ThreeMarks
<1>9. /\ <<"@">> \in Seq(STRING) /\ Starts(<<"@">>, UriMarks) /\ <<"@">> # <<>> /\ <<"@">>[1] = "@"
      /\ c \in Seq(STRING) /\ Starts(c, UriMarks) /\ c # <<>>
  <2>1. UriMarks \subseteq STRING
    BY MarksLemma DEF Marks, UriMarks
  <2>2. <<"@">> \in Seq(STRING) /\ c \in Seq(STRING)
    BY <1>8, <2>1, SeqMonotonic
  <2> QED
    BY <1>7, <2>2 DEF Starts
<1> DEFINE at == <<"@">>
<1> HIDE DEF c, hz, at
<1>10. /\ y \in Seq(STRING) /\ first.read = TRUE /\ name = u.user
       /\ host = [read |-> TRUE, word |-> u.host, rest |-> z]
  <2>1. CASE u.user # <<>>
    <3>1. u.user \in UriWords /\ u.user \in Seq(STRING)
      <4>1. u.user \in UriWords
        BY <2>1 DEF Uris
      <4> QED
        BY <4>1, WordsAreTexts DEF UriWords
    <3> DEFINE ahz == Cat(at, hz)
    <3>2. ahz \in Seq(STRING)
      BY <1>5, <1>9, TextCat DEF at
    <3>3. Starts(ahz, UriMarks) /\ StartsWith(ahz, "@")
      <4>1. Starts(ahz, UriMarks) /\ ahz # <<>> /\ ahz[1] = at[1]
        <5>1. at \in Seq(STRING) /\ Starts(at, UriMarks) /\ at # <<>>
          BY <1>9 DEF at
        <5> QED
          BY <1>5, <5>1, StartsCat
      <4> QED
        BY <1>9, <4>1 DEF StartsWith, at
    <3>4. y = Cat(u.user, ahz)
      <4>1. y = Cat(Cat(u.user, at), hz)
        BY <2>1, Zenon DEF at
      <4>2. at \in Seq(STRING)
        BY <1>9 DEF at
      <4> HIDE DEF y
      <4> QED
        BY <1>5, <3>1, <4>1, <4>2, TextAssoc
    <3>5. UriWord(ahz) = [read |-> TRUE, word |-> u.host, rest |-> z]
      <4>1. at \in Seq(UriMarks)
        BY <1>8 DEF at
      <4> QED
        BY <1>1, <1>4, <1>6, <4>1, UriWordIs DEF hz
    <3> HIDE DEF ahz, y
    <3>6. y \in Seq(STRING)
      BY <3>1, <3>2, <3>4, TextCat
    <3>7. first = [read |-> TRUE, word |-> u.user, rest |-> ahz]
      <4>1. x = Cat(c, Cat(u.user, ahz))
        BY <3>4
      <4> HIDE DEF x
      <4> QED
        BY <1>8, <3>1, <3>2, <3>3, <4>1, UriWordIs
    <3> HIDE DEF first
    <3>8. first.read = TRUE /\ first.word = u.user /\ first.rest = ahz
      BY <3>7
    <3>9. named
      BY <3>3, <3>8
    <3> HIDE DEF named
    <3> QED
      BY <3>5, <3>6, <3>8, <3>9
  <2>2. CASE u.user = <<>>
    <3>1. y = hz
      BY <1>5, <2>2, TextEmpty
    <3> HIDE DEF y
    <3>2. y \in Seq(STRING)
      BY <1>5, <3>1
    <3>3. first = [read |-> TRUE, word |-> u.host, rest |-> z]
      <4>1. x = Cat(c, Cat(u.host, z))
        BY <3>1 DEF hz
      <4> HIDE DEF x
      <4> QED
        BY <1>1, <1>4, <1>6, <1>8, <4>1, UriWordIs
    <3> HIDE DEF first
    <3>4. first.read = TRUE /\ first.rest = z
      BY <3>3
    <3>5. ~named
      BY <1>6, <3>4
    <3> HIDE DEF named
    <3> QED
      BY <2>2, <3>2, <3>3, <3>4, <3>5
  <2> QED
    BY <2>1, <2>2
<1> HIDE DEF y
<1>11. x \in Seq(STRING) /\ Starts(x, UriMarks)
  <2>1. c \in Seq(STRING) /\ Starts(c, UriMarks) /\ c # <<>>
    BY <1>9 DEF c
  <2> QED
    BY <1>10, <2>1, StartsCat
<1>12. UriWord(s) = [read |-> TRUE, word |-> u.scheme, rest |-> x]
  <2>1. u.scheme \in UriWords
    BY DEF Uris
  <2> HIDE DEF x
  <2> QED
    BY <1>3, <1>8, <1>11, <2>1, UriWordIs
<1> HIDE DEF x
<1>13. u = [scheme |-> u.scheme, user |-> u.user, host |-> u.host, port |-> u.port,
            session_id |-> u.session_id, transport |-> u.transport]
  BY DEF Uris
<1> DEFINE scheme    == UriWord(s)
           port      == Optional(":", host.rest)
           session   == Optional("/", port.rest)
           transport == Optional(";", session.rest)
<1> HIDE DEF scheme
<1>14. scheme.rest = x /\ scheme.read = TRUE /\ scheme.word = u.scheme
  <2>1. scheme = [read |-> TRUE, word |-> u.scheme, rest |-> x]
    BY <1>12 DEF scheme
  <2> QED
    BY <2>1
<1>15. UriPrase(s) =
         [read |-> \A w \in {scheme, first, host, port, session, transport} : w.read,
          rest |-> transport.rest,
          uri  |-> [scheme |-> scheme.word, user |-> name,
                    host |-> host.word, port |-> Strtol(port.word),
                    session_id |-> session.word, transport |-> transport.word]]
  BY <1>14, Zenon DEF UriPrase, scheme
<1> HIDE DEF first, host, named, name
<1>16. host.read = TRUE /\ host.word = u.host /\ host.rest = z
  BY <1>10
<1>17. port = [read |-> TRUE, word |-> PortWord(u), rest |-> SessionText(u, r)]
  BY <1>2, <1>16
<1> HIDE DEF port
<1>18. port.read = TRUE /\ port.word = PortWord(u) /\ port.rest = SessionText(u, r)
  BY <1>17
<1>19. session = [read |-> TRUE, word |-> u.session_id, rest |-> TransportText(u, r)]
  BY <1>2, <1>18
<1> HIDE DEF session
<1>20. session.read = TRUE /\ session.word = u.session_id /\ session.rest = TransportText(u, r)
  BY <1>19
<1>21. transport = [read |-> TRUE, word |-> u.transport, rest |-> r]
  BY <1>2, <1>20
<1> HIDE DEF transport
<1>22. transport.read = TRUE /\ transport.word = u.transport /\ transport.rest = r
  BY <1>21
<1>23. \A w \in {scheme, first, host, port, session, transport} : w.read = TRUE
  BY <1>10, <1>14, <1>16, <1>18, <1>20, <1>22
<1>24. (\A w \in {scheme, first, host, port, session, transport} : w.read) = TRUE
  BY <1>23, Zenon
<1>25. UriPrase(s) =
         [read |-> TRUE, rest |-> r,
          uri  |-> [scheme |-> u.scheme, user |-> u.user, host |-> u.host, port |-> u.port,
                    session_id |-> u.session_id, transport |-> u.transport]]
  BY <1>2, <1>10, <1>14, <1>15, <1>16, <1>18, <1>20, <1>22, <1>24, Zenon
<1>26. s # <<>> /\ Starts(s, {" "})
  <2> DEFINE b == <<" ">>
             t == Cat(u.scheme, x)
  <2>1. u.scheme \in Seq(STRING)
    <3>1. u.scheme \in UriWords
      BY DEF Uris
    <3> QED
      BY <3>1, WordsAreTexts DEF UriWords
  <2>2. t \in Seq(STRING)
    BY <1>11, <2>1, TextCat
  <2>3. b \in Seq(STRING) /\ b # <<>> /\ b[1] = " "
    BY <1>7, Token
  <2>4. Starts(b, {" "})
    BY <2>3 DEF Starts
  <2> HIDE DEF b, t
  <2>5. Starts(Cat(b, t), {" "}) /\ Cat(b, t) # <<>>
    BY <2>2, <2>3, <2>4, StartsCat
  <2> QED
    BY <1>3, <2>5 DEF b, t
<1> QED
  BY <1>13, <1>25, <1>26 DEF s

\* Whatever a text is, what is behind a uri is shorter.
LEMMA UriPraseType ==
  ASSUME NEW s \in Seq(STRING)
  PROVE  /\ Shorter(UriPrase(s).rest, s)
         /\ s # <<>> => Len(UriPrase(s).rest) < Len(s)
<1>1. ASSUME NEW t \in Seq(STRING)
      PROVE  Shorter(UriWord(t).rest, t) /\ (t # <<>> => Len(UriWord(t).rest) < Len(t))
  <2> DEFINE C == {" ", ":", "/", "@", ";"}
  <2>1. Places(t, C) \in SUBSET (DOMAIN t)
    BY DEF Places
  <2> HIDE DEF C
  <2> QED
    BY <2>1, GetStrType DEF UriWord, C
<1>2. ASSUME NEW mark, NEW t \in Seq(STRING) PROVE Shorter(Optional(mark, t).rest, t)
  <2>1. CASE StartsWith(t, mark)
    BY <1>1, <2>1 DEF Optional
  <2>2. CASE ~StartsWith(t, mark)
    <3>1. Optional(mark, t) = [read |-> TRUE, word |-> <<>>, rest |-> t]
      BY <2>2 DEF Optional
    <3> DEFINE o == Optional(mark, t)
    <3> HIDE DEF o
    <3>2. o.rest = t
      BY <3>1 DEF o
    <3>3. Len(t) \in Nat
      BY LenProperties
    <3> QED
      BY <3>2, <3>3 DEF Shorter, o
  <2> QED
    BY <2>1, <2>2
<1> DEFINE scheme    == UriWord(s)
           first     == UriWord(scheme.rest)
           named     == StartsWith(first.rest, "@")
           host      == IF named THEN UriWord(first.rest) ELSE first
           port      == Optional(":", host.rest)
           session   == Optional("/", port.rest)
           transport == Optional(";", session.rest)
           a == scheme.rest
           b == first.rest
           c == host.rest
           d == port.rest
           e == session.rest
           f == transport.rest
<1>3. Shorter(a, s) /\ (s # <<>> => Len(a) < Len(s))
  BY <1>1
<1>4. f = UriPrase(s).rest
  BY DEF UriPrase
<1> HIDE DEF scheme
<1>5. Shorter(b, a)
  BY <1>1, <1>3 DEF Shorter
<1> HIDE DEF first, named
<1>6. Shorter(c, b)
  <2>1. CASE named
    BY <1>1, <1>5, <2>1 DEF Shorter
  <2>2. CASE ~named
    <3>1. c = b /\ Len(b) \in Nat
      BY <1>5, <2>2, LenProperties DEF Shorter
    <3> QED
      BY <1>5, <3>1 DEF Shorter
  <2> QED
    BY <2>1, <2>2
<1> HIDE DEF host
<1>7. Shorter(d, c)
  BY <1>2, <1>6 DEF Shorter
<1> HIDE DEF port
<1>8. Shorter(e, d)
  BY <1>2, <1>7 DEF Shorter
<1> HIDE DEF session
<1>9. Shorter(f, e)
  BY <1>2, <1>8 DEF Shorter
<1> HIDE DEF a, b, c, d, e, f
<1>10. a \in Seq(STRING) /\ b \in Seq(STRING) /\ c \in Seq(STRING) /\ d \in Seq(STRING)
  BY <1>3, <1>5, <1>6, <1>7 DEF Shorter
<1>11. Shorter(f, d)
  BY <1>8, <1>9, <1>10, ShorterLemma
<1>12. Shorter(f, c)
  BY <1>7, <1>10, <1>11, ShorterLemma
<1>13. Shorter(f, b)
  BY <1>6, <1>10, <1>12, ShorterLemma
<1>14. Shorter(f, a)
  BY <1>5, <1>10, <1>13, ShorterLemma
<1>15. Shorter(f, s)
  BY <1>3, <1>14, ShorterLemma
<1>16. Len(f) \in Nat /\ Len(a) \in Nat /\ Len(s) \in Nat
  BY <1>3, <1>15, LenProperties DEF Shorter
<1>17. Len(f) <= Len(a)
  BY <1>14 DEF Shorter
<1> QED
  BY <1>3, <1>4, <1>15, <1>16, <1>17

\* The parser of a list takes one uri after the other.
LEMMA ListUriPraseDef ==
  ASSUME NEW s \in Seq(STRING)
  PROVE  ListUriPrase[s] = IF s = <<>> \/ ~UriPrase(s).read THEN <<>>
                             ELSE <<UriPrase(s).uri>> \o ListUriPrase[UriPrase(s).rest]
<1> DEFINE X == Seq(STRING)
           U == {UriPrase(t).uri : t \in X}
           Y == Seq(U)
           E(f, t) == IF t = <<>> \/ ~UriPrase(t).read THEN <<>>
                        ELSE <<UriPrase(t).uri>> \o f[UriPrase(t).rest]
           F == [f \in [X -> Y] |-> [t \in X |-> E(f, t)]]
           measure == [t \in X |-> Len(t)]
<1>1. Y # {}
  BY EmptySeq
<1>2. measure \in [X -> Nat]
  BY LenProperties
<1>3. \A f \in [X -> Y], t \in X : E(f, t) \in Y
  <2> SUFFICES ASSUME NEW f \in [X -> Y], NEW t \in X PROVE E(f, t) \in Y
    OBVIOUS
  <2>1. UriPrase(t).rest \in X
    BY UriPraseType DEF Shorter
  <2>2. f[UriPrase(t).rest] \in Y
    BY <2>1
  <2>3. UriPrase(t).uri \in U
    OBVIOUS
  <2> HIDE DEF U
  <2>4. <<UriPrase(t).uri>> \in Y
    BY <2>3, OneElement
  <2>5. <<UriPrase(t).uri>> \o f[UriPrase(t).rest] \in Y
    BY <2>2, <2>4, ConcatProperties
  <2>6. <<>> \in Y
    BY EmptySeq
  <2> QED
    BY <2>5, <2>6
<1>4. F \in [[X -> Y] -> [X -> Y]]
  <2> HIDE DEF E, X, Y
  <2> QED
    BY <1>3
<1>5. Local(F, X, Y, measure)
  <2> SUFFICES ASSUME NEW f \in [X -> Y], NEW g \in [X -> Y], NEW t \in X,
                      \A y \in X : measure[y] < measure[t] => f[y] = g[y]
               PROVE  F[f][t] = F[g][t]
    BY DEF Local
  <2>1. F[f][t] = E(f, t) /\ F[g][t] = E(g, t)
    <3> HIDE DEF E, X, Y
    <3> QED
      OBVIOUS
  <2>2. CASE t = <<>>
    BY <2>1, <2>2
  <2>3. CASE t # <<>>
    <3>1. UriPrase(t).rest \in X /\ Len(UriPrase(t).rest) < Len(t)
      BY <2>3, UriPraseType DEF Shorter
    <3>2. f[UriPrase(t).rest] = g[UriPrase(t).rest]
      BY <3>1
    <3> HIDE DEF F
    <3> QED
      BY <2>1, <3>2
  <2> QED
    BY <2>2, <2>3
<1> HIDE DEF X, Y, F, measure
<1>6. \E f \in [X -> Y] : F[f] = f
  <2>1. IsRecursion(F, X, Y, measure)
    BY <1>1, <1>2, <1>4, <1>5 DEF IsRecursion
  <2>2. HasFixpoint(F, X, Y)
    BY <2>1, Recursion
  <2> QED
    BY <2>2 DEF HasFixpoint
<1>7. \E f : f = [t \in X |-> E(f, t)]
  <2>1. PICK f \in [X -> Y] : F[f] = f
    BY <1>6
  <2>2. F[f] = [t \in X |-> E(f, t)]
    <3> HIDE DEF E, X
    <3> QED
      BY <2>1 DEF F
  <2> HIDE DEF E, X
  <2> QED
    BY <2>1, <2>2
<1>8. ListUriPrase = [t \in X |-> E(ListUriPrase, t)]
  BY <1>7, Zenon DEF ListUriPrase, X
<1> QED
  BY <1>8, Zenon DEF X

\* The texts of the uris of a list.
UriTexts(us) == [i \in DOMAIN us |-> UriToString(us[i])]

\* A list of uris that is written is read back.
THEOREM ListUriTrip ==
  ASSUME NEW us \in Seq(Uris)
  PROVE  /\ ListUriToString(us) \in Seq(Tokens) /\ Starts(ListUriToString(us), {" "})
         /\ ListUriPrase[ListUriToString(us)] = us
<1> DEFINE ts == UriTexts(us)
           n  == Len(us)
           T  == {k \in 0 .. n : /\ Beyond(ts, k) \in Seq(STRING) /\ Starts(Beyond(ts, k), {" "})
                                 /\ ListUriPrase[Beyond(ts, k)] = Part(us, k, n)}
<1>1. n \in Nat /\ DOMAIN us = 1 .. n /\ \A i \in 1 .. n : us[i] \in Uris
  BY LenProperties, ElementOfSeq
<1>2. ts \in Seq(Seq(Tokens)) /\ Len(ts) = n /\ \A i \in 1 .. n : At(ts, i) = UriToString(us[i])
  <2>1. \A i \in 1 .. n : UriToString(us[i]) \in Seq(Tokens)
    BY <1>1, UriTextIs, EmptySeq
  <2>2. ts \in [1 .. n -> Seq(Tokens)]
    BY <1>1, <2>1 DEF UriTexts
  <2>3. \A i \in 1 .. n : ts[i] = UriToString(us[i])
    BY <1>1 DEF UriTexts
  <2> HIDE DEF ts
  <2> QED
    BY <1>1, <2>2, <2>3, SeqIs DEF At
<1>3. Beyond(ts, 0) = ListUriToString(us)
  <2>1. ListUriToString(us) = FlattenSeq(ts)
    BY DEF ListUriToString, UriTexts
  <2> HIDE DEF ts
  <2> QED
    BY <1>2, <2>1, BeyondEnds
<1> HIDE DEF ts
<1>4. n \in T
  <2>1. Beyond(ts, n) = <<>> /\ Part(us, n, n) = <<>>
    BY <1>2, BeyondEnds, PartAll
  <2>2. <<>> \in Seq(STRING) /\ ListUriPrase[<<>>] = <<>>
    BY EmptySeq, ListUriPraseDef
  <2> QED
    BY <1>1, <2>1, <2>2 DEF Starts
<1>5. ASSUME NEW h \in 0 .. n, NEW i \in 1 .. n, i = h + 1, i \in T PROVE h \in T
  <2> DEFINE r == Beyond(ts, i)
             u == us[i]
             s == Cat(UriToString(u), r)
  <2>1. r \in Seq(STRING) /\ Starts(r, {" "}) /\ ListUriPrase[r] = Part(us, i, n)
    BY <1>5
  <2>2. u \in Uris
    BY <1>1
  <2>3. Beyond(ts, h) = s
    <3>1. Beyond(ts, h) = At(ts, i) \o Beyond(ts, i)
      <4>1. i = h + 1
        BY <1>5
      <4> HIDE DEF T
      <4> QED
        BY <1>2, <4>1, BeyondStep
    <3> QED
      BY <1>2, <3>1, Zenon DEF Cat
  <2>4. Part(us, h, n) = Cat(<<u>>, Part(us, i, n))
    BY <1>5, PartStep
  <2> HIDE DEF r, u
  <2>5. /\ UriPrase(s) = [read |-> TRUE, rest |-> r, uri |-> u]
        /\ s # <<>> /\ Starts(s, {" "})
    BY <2>1, <2>2, UriTrip
  <2>6. s \in Seq(STRING)
    BY <2>1, <2>2, UriTextIs, LinesAreTexts, TextCat
  <2> HIDE DEF s
  <2> DEFINE q == UriPrase(s)
  <2>7. ListUriPrase[s] = IF s = <<>> \/ ~q.read THEN <<>> ELSE <<q.uri>> \o ListUriPrase[q.rest]
    BY <2>6, ListUriPraseDef
  <2> HIDE DEF q
  <2>8. q.read = TRUE /\ q.rest = r /\ q.uri = u
    <3>1. q = [read |-> TRUE, rest |-> r, uri |-> u]
      BY <2>5 DEF q
    <3> QED
      BY <3>1
  <2>9. ListUriPrase[s] = <<u>> \o ListUriPrase[r]
    BY <2>5, <2>7, <2>8
  <2>10. ListUriPrase[s] = Part(us, h, n)
    BY <2>1, <2>4, <2>9, Zenon DEF Cat
  <2> QED
    BY <2>3, <2>5, <2>6, <2>10
<1>6. 0 \in T
  <2>1. \A k \in 0 .. n : k \in T
    <3> HIDE DEF T, n
    <3> QED
      BY <1>1, <1>4, <1>5, Downwards
  <2>2. 0 \in 0 .. n
    BY <1>1
  <2> HIDE DEF T
  <2> QED
    BY <2>1, <2>2
<1>7. ListUriPrase[Beyond(ts, 0)] = us /\ Starts(Beyond(ts, 0), {" "})
  BY <1>6, PartAll
<1>8. Beyond(ts, 0) \in Seq(Tokens)
  BY <1>2, FlattenType, BeyondEnds
<1> QED
  BY <1>3, <1>7, <1>8

-----------------------------------------------------------------------------
(* What all headers have in common.                                        *)

\* The blanks and the colon in front of a value are passed over.
LEMMA RmColonIs ==
  ASSUME NEW C, C = {" "}, NEW p \in Seq(C), NEW x \in Seq(STRING)
  PROVE  RmColon(Cat(p, Cat(<<":">>, x))) = x
<1> DEFINE c == <<":">>
           y == Cat(c, x)
           s == Cat(p, y)
           a == Len(p)
           n == Len(s)
<1>1. " " \in STRING /\ ":" \in STRING /\ " " # ":"
  BY MarksLemma DEF Marks
<1>2. p \in Seq(STRING) /\ c \in Seq(STRING) /\ c # <<>> /\ c[1] = ":" /\ Len(c) = 1
  <2>1. C \subseteq STRING
    BY <1>1
  <2>2. p \in Seq(STRING)
    BY <2>1, SeqMonotonic
  <2> QED
    BY <1>1, <2>2, OneElement
<1>3. \A i \in 1 .. Len(p) : p[i] \in C
  BY ElementOfSeq
<1> HIDE DEF c
<1>4. Starts(c, {":"})
  BY <1>2 DEF Starts
<1>5. y \in Seq(STRING) /\ y # <<>> /\ y[1] = ":"
  BY <1>2, <1>4, StartsCat
<1>6. IsThree(s, STRING, p, c, x, a, a + 1)
  BY <1>2, ThreeParts
<1> DEFINE from == a + 1
<1> HIDE DEF y
<1>7. IsFirstOut(s, C, y, from)
  <2>1. y[1] \notin C
    BY <1>1, <1>5
  <2> QED
    BY <1>2, <1>3, <1>5, <2>1, FirstOutIs
<1> HIDE DEF s, a, from
<1>8. FirstOut(s, {" "}) = from /\ from # 0 /\ s[from] = ":"
  BY <1>5, <1>7 DEF IsFirstOut
<1>9. Part(s, from, n) = x
  BY <1>6 DEF IsThree, from
<1>10. RmColon(s) = SubSeq(s, from + 1, n)
  BY <1>8, Zenon DEF RmColon
<1> QED
  BY <1>9, <1>10, Zenon DEF Part, s, y, c

\* A line without a colon is only stripped of its blanks.
LEMMA RmColonNone ==
  ASSUME NEW C, C = {" "}, NEW p \in Seq(C), NEW x \in Seq(STRING), x # <<>>,
         x[1] \notin C, x[1] # ":"
  PROVE  RmColon(Cat(p, x)) = x
<1> DEFINE s == Cat(p, x)
           from == Len(p) + 1
<1>1. p \in Seq(STRING)
  <2>1. C \subseteq STRING
    BY MarksLemma DEF Marks
  <2> QED
    BY <2>1, SeqMonotonic
<1>2. \A i \in 1 .. Len(p) : p[i] \in C
  BY ElementOfSeq
<1>3. IsFirstOut(s, C, x, from)
  BY <1>1, <1>2, FirstOutIs
<1> HIDE DEF s, from
<1>4. FirstOut(s, {" "}) = from /\ from # 0 /\ s[from] # ":" /\ SubSeq(s, from, Len(s)) = x
  BY <1>3 DEF IsFirstOut
<1> QED
  BY <1>4, Zenon DEF RmColon, s

\* The first word of s, and what is behind it.
WordOf(s, C) == GetStr(s, Places(s, C))

IsWord(x, w, r) == x = [read |-> TRUE, word |-> w, rest |-> r]

\* The fields of a word that was read.
LEMMA WordFields ==
  ASSUME NEW x, NEW w, NEW r, IsWord(x, w, r)
  PROVE  x.read = TRUE /\ x.word = w /\ x.rest = r
BY DEF IsWord

\* A word without the characters of C, behind some of them and with one of them, or
\* nothing, behind it.
LEMMA WordIs ==
  ASSUME NEW C, IsSeparators(C), NEW p \in Seq(C), NEW w \in WordsWithout(C),
         NEW r \in Seq(STRING), Starts(r, C), NEW s, s = Cat(p, Cat(w, r))
  PROVE  IsWord(WordOf(s, C), w, r)
<1>1. C \subseteq STRING
  BY MarksLemma DEF IsSeparators
<1>2. p \in Seq(STRING)
  BY <1>1, SeqMonotonic
<1>3. w \in Seq(STRING \ C) /\ w # <<>>
  <2>1. w \in Seq(STRING \ (C \cup {CR, LF})) /\ w # <<>>
    BY DEF WordsWithout
  <2>2. STRING \ (C \cup {CR, LF}) \subseteq STRING \ C
    OBVIOUS
  <2> QED
    BY <2>1, <2>2, SeqMonotonic
<1>4. r # <<>> => r[1] \in C
  BY DEF Starts
<1>5. GetStr(s, Places(s, C)) = [read |-> TRUE, word |-> w, rest |-> r]
  BY <1>2, <1>3, <1>4, GetStrWord
<1> QED
  BY <1>5, Zenon DEF WordOf, IsWord

\* Words without more characters are words without fewer of them.
LEMMA WordsFewer ==
  ASSUME NEW C, NEW D, C \subseteq D \cup {CR, LF}, NEW w \in WordsWithout(D)
  PROVE  w \in WordsWithout(C)
<1>1. w \in Seq(STRING \ (D \cup {CR, LF})) /\ w # <<>>
  BY DEF WordsWithout
<1>2. STRING \ (D \cup {CR, LF}) \subseteq STRING \ (C \cup {CR, LF})
  OBVIOUS
<1>3. w \in Seq(STRING \ (C \cup {CR, LF}))
  BY <1>1, <1>2, SeqMonotonic
<1> QED
  BY <1>1, <1>3 DEF WordsWithout

\* A single token is a word for whom it is not marked.
LEMMA TokenWord ==
  ASSUME NEW C, NEW c \in STRING, c \notin C \cup {CR, LF}
  PROVE  <<c>> \in WordsWithout(C)
<1> DEFINE S == STRING \ (C \cup {CR, LF})
<1>1. c \in S
  OBVIOUS
<1> HIDE DEF S
<1>2. <<c>> \in Seq(S) /\ <<c>> # <<>>
  BY <1>1, Token, OneElement
<1> QED
  BY <1>2 DEF WordsWithout, S

\* A mark is no number.
LEMMA MarkIsNone == \A c \in Marks : Strtol(<<c>>) = 0
<1> SUFFICES ASSUME NEW c \in Marks PROVE Strtol(<<c>>) = 0
  OBVIOUS
<1>1. \A n \in Numbers : ToString(n) # c
  BY NumbersAssumption
<1>2. \A n \in Numbers : <<c>> # Decimal(n)
  BY <1>1 DEF Decimal
<1> QED
  BY <1>2 DEF Strtol

\* What is left without the blanks around it.
LEMMA StrtrimIs ==
  ASSUME NEW B, B = {" ", CR, LF}, NEW p \in Seq({" "}), NEW x \in Seq(STRING), x # <<>>,
         x[1] \notin B, x[Len(x)] \notin B
  PROVE  Strtrim(Cat(p, x)) = x
<1> DEFINE C == {" "}
           s == Cat(p, x)
           from == Len(p) + 1
<1>1. p \in Seq(STRING)
  <2>1. C \subseteq STRING
    BY MarksLemma DEF Marks
  <2> QED
    BY <2>1, SeqMonotonic
<1>2. \A i \in 1 .. Len(p) : p[i] \in B
  <2>1. \A i \in 1 .. Len(p) : p[i] \in C
    BY ElementOfSeq
  <2> QED
    BY <2>1
<1>3. IsFirstOut(s, B, x, from)
  BY <1>1, <1>2, FirstOutIs
<1> HIDE DEF s, from
<1>4. FirstOut(s, B) = from /\ from # 0 /\ LastOut(s, B) = Len(s) /\ SubSeq(s, from, Len(s)) = x
  BY <1>3 DEF IsFirstOut
<1> QED
  BY <1>4, Zenon DEF Strtrim, s

\* Nothing is left of blanks.
LEMMA StrtrimBlank == \A p \in Seq({" "}) : Strtrim(p) = <<>>
<1> SUFFICES ASSUME NEW p \in Seq({" "}) PROVE Strtrim(p) = <<>>
  OBVIOUS
<1> DEFINE B == {" ", CR, LF}
<1>1. \A i \in 1 .. Len(p) : p[i] \in B
  BY ElementOfSeq
<1>2. {i \in 1 .. Len(p) : p[i] \notin B} = {}
  BY <1>1
<1>3. FirstOut(p, B) = 0
  BY <1>2, Zenon DEF FirstOut, SelectInSeq
<1> QED
  BY <1>3, Zenon DEF Strtrim

\* The words before the first character of C.
LEMMA FirstPartIs ==
  ASSUME NEW C, NEW p \in Seq(STRING), \A i \in 1 .. Len(p) : p[i] \notin C,
         NEW x \in Seq(STRING), Starts(x, C)
  PROVE  FirstPart(Cat(p, x), C) = p
<1> DEFINE s == Cat(p, x)
           a == Len(p)
<1>1. CASE x = <<>>
  <2>1. s = p
    BY <1>1, TextEmpty
  <2>2. FirstIn(p, C) = 0
    BY FirstInNone
  <2> QED
    BY <2>1, <2>2 DEF FirstPart
<1>2. CASE x # <<>>
  <2>1. FirstIn(s, C) = a + 1
    BY <1>2, FirstInIs DEF Starts
  <2>2. IsTwo(s, STRING, p, x, a)
    BY TwoParts
  <2> HIDE DEF a, s
  <2>3. a \in Nat /\ Part(s, 0, a) = p
    BY <2>2 DEF IsTwo
  <2> DEFINE at == a + 1
  <2>4. at # 0 /\ at - 1 = a
    BY <2>3
  <2> HIDE DEF at
  <2>5. FirstIn(s, C) = at
    BY <2>1 DEF at
  <2>6. FirstPart(s, C) = SubSeq(s, 1, at - 1)
    BY <2>4, <2>5, Zenon DEF FirstPart
  <2>7. SubSeq(s, 1, a) = Part(s, 0, a)
    BY DEF Part
  <2> QED
    BY <2>3, <2>4, <2>6, <2>7 DEF s
<1> QED
  BY <1>1, <1>2

-----------------------------------------------------------------------------
(* The short headers.                                                      *)

\* Tokens between the words of a line.
LEMMA TokenText ==
  ASSUME NEW C, IsSeparators(C), NEW c \in C, c \in Tokens
  PROVE  /\ <<c>> \in Seq(C) /\ <<c>> \in Seq(Tokens) /\ <<c>> # <<>>
         /\ Starts(<<c>>, C) /\ <<c>> \in Seq(STRING)
<1> DEFINE t == <<c>>
<1>1. t \in Seq(C) /\ t \in Seq(Tokens) /\ t # <<>> /\ t[1] = c
  BY OneElement
<1> HIDE DEF t
<1>2. Starts(t, C)
  BY <1>1 DEF Starts
<1>3. t \in Seq(STRING)
  BY <1>1, LinesAreTexts
<1> QED
  BY <1>1, <1>2, <1>3 DEF t

\* A word behind a separator, in the middle of a line.
LEMMA NextWord ==
  ASSUME NEW C, IsSeparators(C), NEW c \in C, c \in Tokens,
         NEW w \in WordsWithout(C), NEW r \in Seq(STRING), Starts(r, C),
         NEW s, s = Cat(<<c>>, Cat(w, r))
  PROVE  s \in Seq(STRING) /\ s # <<>> /\ Starts(s, C) /\ IsWord(WordOf(s, C), w, r)
<1> DEFINE t == <<c>>
           u == Cat(w, r)
<1>1. t \in Seq(C) /\ t # <<>> /\ Starts(t, C) /\ t \in Seq(STRING)
  BY TokenText
<1> HIDE DEF t
<1>2. w \in Seq(STRING)
  BY WordsAreTexts
<1>3. u \in Seq(STRING)
  BY <1>2, TextCat
<1>4. s = Cat(t, Cat(w, r))
  BY DEF t
<1>5. IsWord(WordOf(s, C), w, r)
  BY <1>1, <1>4, WordIs
<1>6. s = Cat(t, u)
  BY <1>4
<1> HIDE DEF u
<1>7. s \in Seq(STRING) /\ s # <<>> /\ Starts(s, C)
  BY <1>1, <1>3, <1>6, StartsCat
<1> QED
  BY <1>5, <1>7

RangeMarks == {" ", "/", "-", ":"}
RangeValues == [start : Numbers, end : Numbers, total : Numbers]

\* A star or a number is a word, and is read as the number.
LEMMA StarIs ==
  ASSUME NEW n \in Numbers
  PROVE  Star(n) \in WordsWithout(RangeMarks) /\ Strtol(Star(n)) = n
<1>1. CASE n = 0
  <2>1. "*" \in Marks /\ "*" \notin RangeMarks \cup {CR, LF}
    BY DEF Marks, RangeMarks, CR, LF
  <2>2. "*" \in STRING
    BY <2>1, MarksLemma
  <2>3. <<"*">> \in WordsWithout(RangeMarks) /\ Strtol(<<"*">>) = 0
    BY <2>1, <2>2, TokenWord, MarkIsNone
  <2>4. Star(n) = <<"*">>
    BY <1>1 DEF Star
  <2> QED
    BY <1>1, <2>3, <2>4
<1>2. CASE n # 0
  <2>1. Star(n) = Decimal(n)
    BY <1>2 DEF Star
  <2>2. IsSeparators(RangeMarks)
    BY DEF IsSeparators, RangeMarks, Marks
  <2> QED
    BY <2>1, <2>2, NumberWithout, NumberWord
<1> QED
  BY <1>1, <1>2

\* A byte range that is written is read back.
THEOREM ByteRangeTrip ==
  ASSUME NEW r \in RangeValues
  PROVE  ByteRangeToString(r) \in Seq(Tokens) /\ ByteRangePrase(ByteRangeToString(r)) = r
<1> DEFINE a == <<" ">>
           b == Star(r.start)
           c == <<"-">>
           d == Star(r.end)
           e == <<"/">>
           f == Star(r.total)
           z == <<>>
           t3 == Cat(e, Cat(f, z))
           t2 == Cat(c, Cat(d, t3))
           t1 == Cat(a, Cat(b, t2))
<1>1. IsSeparators(RangeMarks)
  BY DEF IsSeparators, RangeMarks, Marks
<1>2. /\ " " \in RangeMarks /\ "-" \in RangeMarks /\ "/" \in RangeMarks
      /\ " " \in Tokens /\ "-" \in Tokens /\ "/" \in Tokens
  BY MarkTokens DEF RangeMarks, Marks, CR, LF
<1>3. r.start \in Numbers /\ r.end \in Numbers /\ r.total \in Numbers
  BY DEF RangeValues
<1>4. /\ b \in WordsWithout(RangeMarks) /\ Strtol(b) = r.start
      /\ d \in WordsWithout(RangeMarks) /\ Strtol(d) = r.end
      /\ f \in WordsWithout(RangeMarks) /\ Strtol(f) = r.total
  BY <1>3, StarIs
<1>5. a \in Seq(Tokens) /\ c \in Seq(Tokens) /\ e \in Seq(Tokens)
  BY <1>1, <1>2, TokenText
<1>6. b \in Seq(Tokens) /\ d \in Seq(Tokens) /\ f \in Seq(Tokens)
  BY <1>4, WordsAreTexts
<1>7. ByteRangeToString(r) = Cat(Cat(Cat(Cat(Cat(a, b), c), d), e), f)
  BY Zenon DEF ByteRangeToString, Cat
<1> HIDE DEF b, d, f
<1>8. z \in Seq(STRING) /\ Starts(z, RangeMarks)
  BY EmptySeq DEF Starts
<1> HIDE DEF z
<1>9. t3 \in Seq(STRING) /\ Starts(t3, RangeMarks) /\ IsWord(WordOf(t3, RangeMarks), f, z)
  BY <1>1, <1>2, <1>4, <1>8, NextWord
<1> HIDE DEF t3
<1>10. t2 \in Seq(STRING) /\ Starts(t2, RangeMarks) /\ IsWord(WordOf(t2, RangeMarks), d, t3)
  BY <1>1, <1>2, <1>4, <1>9, NextWord
<1> HIDE DEF t2
<1>11. IsWord(WordOf(t1, RangeMarks), b, t2)
  BY <1>1, <1>2, <1>4, <1>10, NextWord
<1>12. ByteRangeToString(r) \in Seq(Tokens) /\ ByteRangeToString(r) = t1
  <2> HIDE DEF a, c, e
  <2>1. /\ Cat(Cat(Cat(Cat(Cat(a, b), c), d), e), f) \in Seq(Tokens)
        /\ Cat(Cat(Cat(Cat(Cat(a, b), c), d), e), f) = Cat(a, Cat(b, Cat(c, Cat(d, Cat(e, f)))))
    BY <1>5, <1>6, BracketsSix
  <2>2. Cat(f, z) = f
    BY <1>6, LinesAreTexts, TextEmpty DEF z
  <2> QED
    BY <1>7, <2>1, <2>2 DEF t1, t2, t3
<1> HIDE DEF t1
<1> DEFINE start == RangeWord(t1)
           end   == RangeWord(start.rest)
           total == RangeWord(end.rest)
<1>13. \A s : RangeWord(s) = WordOf(s, RangeMarks)
  BY Zenon DEF RangeWord, WordOf, RangeMarks
<1>14. start.word = b /\ start.rest = t2
  BY <1>11, <1>13, WordFields
<1> HIDE DEF start
<1>16. end.word = d /\ end.rest = t3
  BY <1>10, <1>13, <1>14, WordFields
<1> HIDE DEF end
<1>18. total.word = f
  BY <1>9, <1>13, <1>16, WordFields
<1> HIDE DEF total
<1>19. ByteRangePrase(t1) =
         [start |-> Strtol(start.word), end |-> Strtol(end.word), total |-> Strtol(total.word)]
  BY Zenon DEF ByteRangePrase, start, end, total
<1>20. r = [start |-> r.start, end |-> r.end, total |-> r.total]
  BY DEF RangeValues
<1>21. ByteRangePrase(t1) = r
  BY <1>4, <1>14, <1>16, <1>18, <1>19, <1>20
<1> QED
  BY <1>12, <1>21


StatusMarks  == {" ", ":"}
Reasons      == {s \in Seq(STRING \ {CR, LF, ":"}) : ~StartsWith(s, " ")}
StatusValues == [code : Numbers, rfc_code : Numbers, reason : Reasons]

\* There is nothing around a word to be taken off.
LEMMA WordTrim ==
  ASSUME NEW C, " " \in C, NEW w \in WordsWithout(C)
  PROVE  Strtrim(w) = w
<1> DEFINE B == {" ", CR, LF}
           p == <<>>
<1>1. w \in Seq(STRING) /\ w # <<>>
  BY WordsAreTexts
<1>2. 1 \in 1 .. Len(w) /\ Len(w) \in 1 .. Len(w)
  BY <1>1, FirstPlace
<1>3. \A i \in 1 .. Len(w) : w[i] \notin B
  <2>1. w \in Seq(STRING \ (C \cup {CR, LF}))
    BY DEF WordsWithout
  <2>2. \A i \in 1 .. Len(w) : w[i] \in STRING \ (C \cup {CR, LF})
    BY <2>1, ElementOfSeq
  <2> QED
    BY <2>2
<1>4. p \in Seq({" "}) /\ Cat(p, w) = w
  BY <1>1, EmptySeq, TextEmpty
<1>5. w[1] \notin B /\ w[Len(w)] \notin B
  BY <1>2, <1>3
<1> HIDE DEF p
<1>6. Strtrim(Cat(p, w)) = w
  BY <1>1, <1>4, <1>5, StrtrimIs
<1> QED
  BY <1>4, <1>6

\* A reason is its first word and what is behind it.
IsReason(s, w, y) ==
  /\ w \in WordsWithout(StatusMarks) /\ y \in Seq(Tokens) /\ Starts(y, StatusMarks)
  /\ s = Cat(w, y) /\ FirstPart(s, {" "}) = w

\* Every reason is.
LEMMA ReasonIs ==
  ASSUME NEW s \in Reasons, s # <<>>
  PROVE  \E w, y : IsReason(s, w, y)
<1> DEFINE S == STRING \ {CR, LF, ":"}
           C == STRING \ {" "}
<1>1. s \in Seq(S) /\ ~StartsWith(s, " ")
  BY DEF Reasons
<1> HIDE DEF S, C
<1>2. PICK w \in Seq(C), y \in Seq(S) : w \in Seq(S) /\ s = w \o y /\ (y # <<>> => y[1] \notin C)
  BY <1>1, Span
<1>3. s = Cat(w, y)
  BY <1>2 DEF Cat
<1>4. S \subseteq STRING /\ S \subseteq Tokens
  BY DEF S, Tokens
<1>5. w \in Seq(STRING) /\ y \in Seq(STRING) /\ y \in Seq(Tokens)
  BY <1>2, <1>4, SeqMonotonic
<1>6. \A i \in 1 .. Len(w) : w[i] \in C /\ w[i] \in S
  BY <1>2, ElementOfSeq
<1>7. \A i \in 1 .. Len(w) : w[i] \in STRING \ (StatusMarks \cup {CR, LF}) /\ w[i] \notin {" "}
  BY <1>6 DEF StatusMarks, S, C
<1>8. ASSUME y # <<>> PROVE y[1] = " "
  <2>1. y[1] \in STRING
    BY <1>5, <1>8, FirstPlace
  <2> QED
    BY <1>2, <1>8, <2>1 DEF C
<1>9. w # <<>>
  <2> SUFFICES ASSUME w = <<>> PROVE FALSE
    OBVIOUS
  <2>1. s = y
    BY <1>3, <1>5, TextEmpty
  <2> QED
    BY <1>1, <1>8, <2>1 DEF StartsWith
<1>10. w \in WordsWithout(StatusMarks)
  <2>1. w \in Seq(STRING \ (StatusMarks \cup {CR, LF}))
    BY <1>5, <1>7, SeqNarrow
  <2> QED
    BY <1>9, <2>1 DEF WordsWithout
<1>11. Starts(y, StatusMarks) /\ Starts(y, {" "})
  BY <1>8 DEF Starts, StatusMarks
<1>12. FirstPart(s, {" "}) = w
  <2> DEFINE D == {" "}
  <2>1. \A i \in 1 .. Len(w) : w[i] \notin D
    BY <1>7
  <2>2. Starts(y, D)
    BY <1>11
  <2> HIDE DEF D
  <2>3. FirstPart(Cat(w, y), D) = w
    BY <1>5, <2>1, <2>2, FirstPartIs
  <2> QED
    BY <1>3, <2>3 DEF D
<1> QED
  BY <1>3, <1>5, <1>10, <1>11, <1>12 DEF IsReason

\* Three tokens, one behind the other.
LEMMA TokensCat ==
  ASSUME NEW S, NEW a \in S, NEW b \in S, NEW c \in S
  PROVE  <<a, b, c>> = Cat(<<a>>, Cat(<<b>>, <<c>>))
<1> DEFINE x == <<a>>
           y == <<b>>
           z == <<c>>
           t == <<a, b, c>>
           s == Cat(x, Cat(y, z))
<1>1. /\ x \in Seq(S) /\ Len(x) = 1 /\ x[1] = a /\ y \in Seq(S) /\ Len(y) = 1 /\ y[1] = b
      /\ z \in Seq(S) /\ Len(z) = 1 /\ z[1] = c
  BY OneElement
<1>2. t \in Seq(S) /\ Len(t) = 3 /\ t[1] = a /\ t[2] = b /\ t[3] = c
  OBVIOUS
<1> HIDE DEF x, y, z, t
<1>3. IsThree(s, S, x, y, z, 1, 2)
  <2> DEFINE one == Len(x)
             two == Len(x) + Len(y)
  <2>1. IsThree(s, S, x, y, z, one, two)
    BY <1>1, ThreeParts
  <2>2. one = 1 /\ two = 2
    BY <1>1
  <2> HIDE DEF one, two
  <2> QED
    BY <2>1, <2>2
<1> HIDE DEF s
<1>4. /\ s \in Seq(S) /\ Len(s) = 2 + Len(z) /\ \A i \in 1 .. 1 : s[i] = x[i]
      /\ \A i \in 1 .. 2 - 1 : s[1 + i] = y[i]
      /\ \A i \in 1 .. Len(z) : s[2 + i] = z[i]
  BY <1>3 DEF IsThree
<1>5. Len(s) = 3 /\ s[1] = a /\ s[2] = b /\ s[3] = c
  <2>1. 1 \in 1 .. 1 /\ 1 \in 1 .. 2 - 1 /\ 1 + 1 = 2 /\ 2 + 1 = 3
    OBVIOUS
  <2> QED
    BY <1>1, <1>4, <2>1
<1>6. \A i \in 1 .. 3 : i = 1 \/ i = 2 \/ i = 3
  OBVIOUS
<1>7. s = t
  <2>1. \A i \in 1 .. Len(s) : s[i] = t[i]
    BY <1>2, <1>5, <1>6
  <2> QED
    BY <1>2, <1>4, <1>5, <2>1, SeqEqual
<1> QED
  BY <1>7 DEF s, t, x, y, z

\* A Status that is written is read back, but for the reason's first word.
THEOREM StatusTrip ==
  ASSUME NEW h \in StatusValues
  PROVE  /\ StatusToString(h) \in Seq(Tokens) /\ StatusToString(h) # <<>>
         /\ Starts(StatusToString(h), {" "})
         /\ StatusPrase(RmColon(StatusToString(h))) = Arrives("status", h)
<1> DEFINE R == IF h.reason = <<>> THEN <<"report">> ELSE h.reason
           v == IF h.reason = <<>> THEN <<"report">> ELSE FirstPart(h.reason, {" "})
           s == <<" ">>
           k == <<":">>
           t == <<" ", ":", " ">>
           a == Decimal(h.code)
           b == Decimal(h.rfc_code)
           t3 == Cat(s, R)
           t2 == Cat(s, Cat(b, t3))
           t1 == Cat(s, Cat(a, t2))
<1>1. IsSeparators(StatusMarks)
  BY DEF IsSeparators, StatusMarks, Marks
<1>2. " " \in StatusMarks /\ ":" \in StatusMarks /\ " " \in Tokens /\ ":" \in Tokens
  BY MarkTokens DEF StatusMarks, Marks, CR, LF
<1>3. h.code \in Numbers /\ h.rfc_code \in Numbers /\ h.reason \in Reasons
  BY DEF StatusValues
<1>4. /\ a \in WordsWithout(StatusMarks) /\ Strtol(a) = h.code
      /\ b \in WordsWithout(StatusMarks) /\ Strtol(b) = h.rfc_code
  BY <1>1, <1>3, NumberWithout, NumberWord
<1>5. \E y : /\ v \in WordsWithout(StatusMarks) /\ y \in Seq(Tokens) /\ Starts(y, StatusMarks)
             /\ R = Cat(v, y)
  <2>1. CASE h.reason = <<>>
    <3> DEFINE word == "report"
    <3>1. word \in STRING
      BY WrittenAssumption DEF Written
    <3>2. word \notin StatusMarks \cup {CR, LF}
      BY DEF StatusMarks, CR, LF
    <3> HIDE DEF word
    <3>3. <<word>> \in WordsWithout(StatusMarks)
      BY <3>1, <3>2, TokenWord
    <3>4. <<word>> \in Seq(STRING)
      BY <3>1, Token
    <3>5. R = <<word>> /\ v = <<word>>
      BY <2>1 DEF word
    <3>6. <<>> \in Seq(Tokens) /\ Starts(<<>>, StatusMarks) /\ R = Cat(v, <<>>)
      BY <3>4, <3>5, TextEmpty, LineEmpty DEF Starts
    <3> QED
      BY <3>3, <3>5, <3>6
  <2>2. CASE h.reason # <<>>
    <3>1. PICK w, y : IsReason(h.reason, w, y)
      BY <1>3, <2>2, ReasonIs
    <3> QED
      BY <2>2, <3>1 DEF IsReason
  <2> QED
    BY <2>1, <2>2
<1>6. PICK y : /\ v \in WordsWithout(StatusMarks) /\ y \in Seq(Tokens) /\ Starts(y, StatusMarks)
               /\ R = Cat(v, y)
  BY <1>5
<1>7. /\ s \in Seq(Tokens) /\ k \in Seq(Tokens) /\ s \in Seq(StatusMarks) /\ s # <<>> /\ s[1] = " "
      /\ t \in Seq(Tokens)
  BY <1>1, <1>2, TokenText, ThreeTokens
<1>8. v \in Seq(Tokens) /\ a \in Seq(Tokens) /\ b \in Seq(Tokens)
  BY <1>4, <1>6, WordsAreTexts
<1>9. R \in Seq(Tokens)
  <2> HIDE DEF R, v
  <2> QED
    BY <1>6, <1>8, LineCat
<1>10. StatusToString(h) = Cat(Cat(Cat(Cat(Cat(t, a), s), b), s), R)
  BY Zenon DEF StatusToString, Cat
<1>11. h = [code |-> h.code, rfc_code |-> h.rfc_code, reason |-> h.reason]
  BY DEF StatusValues
<1>12. t = Cat(s, Cat(k, s))
  BY <1>2, TokensCat
<1>13. Arrives("status", h) = [code |-> h.code, rfc_code |-> h.rfc_code, reason |-> v]
  <2>1. Arrives("status", h) = [h EXCEPT !.reason = v]
    BY Zenon DEF Arrives
  <2> HIDE DEF v
  <2> QED
    BY <1>11, <2>1
<1> HIDE DEF R, v, s, k, t, a, b
<1>14. y \in Seq(STRING)
  BY <1>6, LinesAreTexts
<1>15. t3 \in Seq(STRING) /\ Starts(t3, StatusMarks) /\ IsWord(WordOf(t3, StatusMarks), v, y)
  <2>1. t3 = Cat(<<" ">>, Cat(v, y))
    BY <1>6 DEF s
  <2> HIDE DEF t3
  <2> QED
    BY <1>1, <1>2, <1>6, <1>14, <2>1, NextWord
<1> HIDE DEF t3
<1>16. t2 \in Seq(STRING) /\ Starts(t2, StatusMarks) /\ IsWord(WordOf(t2, StatusMarks), b, t3)
  <2>1. t2 = Cat(<<" ">>, Cat(b, t3))
    BY DEF s
  <2> HIDE DEF t2
  <2> QED
    BY <1>1, <1>2, <1>4, <1>15, <2>1, NextWord
<1> HIDE DEF t2
<1>17. t1 \in Seq(STRING) /\ IsWord(WordOf(t1, StatusMarks), a, t2)
  <2>1. t1 = Cat(<<" ">>, Cat(a, t2))
    BY DEF s
  <2> HIDE DEF t1
  <2> QED
    BY <1>1, <1>2, <1>4, <1>16, <2>1, NextWord
<1>18. StatusToString(h) \in Seq(Tokens) /\ StatusToString(h) = Cat(s, Cat(k, t1))
  <2>1. /\ Cat(Cat(Cat(Cat(Cat(t, a), s), b), s), R) \in Seq(Tokens)
        /\ Cat(Cat(Cat(Cat(Cat(t, a), s), b), s), R) = Cat(t, Cat(a, Cat(s, Cat(b, Cat(s, R)))))
    <3>1. t \in Seq(Tokens) /\ s \in Seq(Tokens)
      BY <1>7
    <3> HIDE DEF t1, t2, t3
    <3> QED
      BY <1>8, <1>9, <3>1, BracketsSix
  <2> DEFINE z == Cat(a, t2)
  <2>2. z \in Seq(STRING) /\ s \in Seq(STRING) /\ k \in Seq(STRING)
    BY <1>7, <1>8, <1>16, LinesAreTexts, TextCat
  <2> HIDE DEF z
  <2>3. Cat(Cat(s, Cat(k, s)), z) = Cat(s, Cat(k, Cat(s, z)))
    <3> DEFINE ks == Cat(k, s)
    <3>1. ks \in Seq(STRING)
      BY <2>2, TextCat
    <3>2. Cat(ks, z) = Cat(k, Cat(s, z))
      BY <2>2, TextAssoc
    <3> HIDE DEF ks
    <3>3. Cat(Cat(s, ks), z) = Cat(s, Cat(ks, z))
      BY <2>2, <3>1, TextAssoc
    <3> QED
      BY <3>2, <3>3 DEF ks
  <2> QED
    BY <1>10, <1>12, <2>1, <2>3 DEF t1, t2, t3, z
<1>19. StatusToString(h) # <<>> /\ Starts(StatusToString(h), {" "})
  <2> DEFINE z == Cat(k, t1)
  <2>1. z \in Seq(STRING) /\ s \in Seq(STRING)
    BY <1>7, <1>17, LinesAreTexts, TextCat
  <2>2. Starts(s, {" "})
    BY <1>7 DEF Starts
  <2> HIDE DEF z
  <2>3. s # <<>>
    BY <1>7
  <2>4. Cat(s, z) # <<>> /\ Starts(Cat(s, z), {" "})
    BY <2>1, <2>2, <2>3, StartsCat
  <2> QED
    BY <1>18, <2>4 DEF z
<1>20. RmColon(StatusToString(h)) = t1
  <2> DEFINE C == {" "}
  <2>1. s \in Seq(C)
    BY OneElement DEF s
  <2> HIDE DEF t1
  <2>2. RmColon(Cat(s, Cat(<<":">>, t1))) = t1
    BY <1>17, <2>1, RmColonIs
  <2> QED
    BY <1>18, <2>2 DEF k
<1> HIDE DEF t1
<1> DEFINE code   == StatusWord(t1)
           rfc    == StatusWord(code.rest)
           reason == StatusWord(rfc.rest)
<1>21. \A x : StatusWord(x) = WordOf(x, StatusMarks)
  BY Zenon DEF StatusWord, WordOf, StatusMarks
<1>22. code.word = a /\ code.rest = t2
  BY <1>17, <1>21, WordFields
<1> HIDE DEF code
<1>23. rfc.word = b /\ rfc.rest = t3
  BY <1>16, <1>21, <1>22, WordFields
<1> HIDE DEF rfc
<1>24. reason.word = v
  BY <1>15, <1>21, <1>23, WordFields
<1> HIDE DEF reason
<1>25. StatusPrase(t1) = [code |-> Strtol(code.word), rfc_code |-> Strtol(rfc.word),
                          reason |-> Strtrim(reason.word)]
  BY Zenon DEF StatusPrase, code, rfc, reason
<1>26. Strtrim(v) = v
  BY <1>2, <1>6, WordTrim
<1>27. StatusPrase(t1) = Arrives("status", h)
  BY <1>4, <1>13, <1>22, <1>23, <1>24, <1>25, <1>26
<1> QED
  BY <1>18, <1>19, <1>20, <1>27

\* Two tokens, one behind the other.
LEMMA PairCat ==
  ASSUME NEW S, NEW a \in S, NEW b \in S
  PROVE  <<a, b>> = Cat(<<a>>, <<b>>)
<1> DEFINE x == <<a>>
           y == <<b>>
           t == <<a, b>>
           s == Cat(x, y)
<1>1. /\ x \in Seq(S) /\ Len(x) = 1 /\ x[1] = a /\ y \in Seq(S) /\ Len(y) = 1 /\ y[1] = b
  BY OneElement
<1>2. t \in Seq(S) /\ Len(t) = 2 /\ t[1] = a /\ t[2] = b
  OBVIOUS
<1> HIDE DEF x, y, t
<1>3. IsTwo(s, S, x, y, 1)
  <2> DEFINE one == Len(x)
  <2>1. IsTwo(s, S, x, y, one)
    BY <1>1, TwoParts
  <2>2. one = 1
    BY <1>1
  <2> HIDE DEF one
  <2> QED
    BY <2>1, <2>2
<1> HIDE DEF s
<1>4. /\ s \in Seq(S) /\ Len(s) = 1 + Len(y) /\ \A i \in 1 .. 1 : s[i] = x[i]
      /\ \A i \in 1 .. Len(y) : s[1 + i] = y[i]
  BY <1>3 DEF IsTwo
<1>5. Len(s) = 2 /\ s[1] = a /\ s[2] = b
  <2>1. 1 \in 1 .. 1 /\ 1 + 1 = 2
    OBVIOUS
  <2> QED
    BY <1>1, <1>4, <2>1
<1>6. \A i \in 1 .. 2 : i = 1 \/ i = 2
  OBVIOUS
<1>7. s = t
  <2>1. \A i \in 1 .. Len(s) : s[i] = t[i]
    BY <1>2, <1>5, <1>6
  <2> QED
    BY <1>2, <1>4, <1>5, <2>1, SeqEqual
<1> QED
  BY <1>7 DEF s, t, x, y

\* A text of one line behind a colon; the parser takes the colon off.
IsColon(V, x) == V \in Seq(Tokens) /\ V # <<>> /\ Starts(V, {":"}) /\ RmColon(V) = x

\* rm_colon takes it off.
LEMMA ColonIs ==
  ASSUME NEW x \in Seq(Tokens)
  PROVE  IsColon(Cat(<<":">>, x), x)
<1> DEFINE k == <<":">>
           V == Cat(k, x)
           e == <<>>
           C == {" "}
<1>1. ":" \in Tokens
  BY MarkTokens DEF Marks, CR, LF
<1>2. k \in Seq(Tokens) /\ k # <<>> /\ k[1] = ":"
  BY <1>1, LineToken, OneElement
<1> HIDE DEF k
<1>3. Starts(k, {":"})
  BY <1>2 DEF Starts
<1>4. V \in Seq(Tokens) /\ V # <<>> /\ Starts(V, {":"})
  BY <1>2, <1>3, StartsCat
<1> HIDE DEF V
<1>5. e \in Seq(C) /\ x \in Seq(STRING) /\ V \in Seq(STRING)
  BY <1>4, LinesAreTexts, EmptySeq
<1>6. Cat(e, V) = V
  BY <1>5, TextEmpty
<1> HIDE DEF e
<1>7. RmColon(Cat(e, Cat(<<":">>, x))) = x
  BY <1>5, RmColonIs
<1> QED
  BY <1>4, <1>6, <1>7 DEF IsColon, V, k

\* The same of a text behind a colon and a blank.
LEMMA ColonBlankIs ==
  ASSUME NEW x \in Seq(Tokens), NEW V, V = Cat(<<":", " ">>, x)
  PROVE  Cat(<<" ">>, x) \in Seq(Tokens) /\ IsColon(V, Cat(<<" ">>, x))
<1> DEFINE k == <<":">>
           b == <<" ">>
           bx == Cat(b, x)
<1>1. ":" \in Tokens /\ " " \in Tokens
  BY MarkTokens DEF Marks, CR, LF
<1>2. <<":", " ">> = Cat(k, b)
  BY <1>1, PairCat
<1>3. k \in Seq(Tokens) /\ b \in Seq(Tokens)
  BY <1>1, LineToken
<1> HIDE DEF k, b
<1>4. bx \in Seq(Tokens)
  BY <1>3, LineCat
<1>5. V = Cat(k, bx)
  <2>1. k \in Seq(STRING) /\ b \in Seq(STRING) /\ x \in Seq(STRING)
    BY <1>3, LinesAreTexts
  <2>2. V = Cat(Cat(k, b), x)
    BY <1>2
  <2> QED
    BY <2>1, <2>2, TextAssoc
<1> HIDE DEF bx
<1>6. IsColon(Cat(<<":">>, bx), bx)
  BY <1>4, ColonIs
<1> QED
  BY <1>4, <1>5, <1>6 DEF bx, k, b

\* The word of a line behind its colon.
LEMMA MessWordIs ==
  ASSUME NEW w \in WordsWithout({" ", ":"}), NEW s, s = Cat(<<" ">>, w)
  PROVE  MessWord(s).word = w
<1> DEFINE C == {" ", ":", CR, LF}
           D == {" ", ":"}
           e == <<>>
<1>1. IsSeparators(C) /\ C \subseteq D \cup {CR, LF}
  BY DEF IsSeparators, Marks
<1>2. " " \in C /\ " " \in Tokens
  BY MarkTokens DEF Marks, CR, LF
<1> HIDE DEF C, D
<1>3. w \in WordsWithout(C)
  BY <1>1, WordsFewer DEF D
<1>4. e \in Seq(STRING) /\ Starts(e, C)
  BY EmptySeq DEF Starts
<1>5. w = Cat(w, e)
  <2>1. w \in Seq(STRING)
    BY <1>3, WordsAreTexts
  <2> QED
    BY <2>1, TextEmpty
<1> HIDE DEF e
<1>6. s = Cat(<<" ">>, Cat(w, e))
  BY <1>5
<1>7. s # <<>> /\ IsWord(WordOf(s, C), w, e)
  BY <1>1, <1>2, <1>3, <1>4, <1>6, NextWord
<1>8. MessWord(s) = WordOf(s, C)
  BY <1>7, Zenon DEF MessWord, WordOf, C
<1> QED
  BY <1>7, <1>8, WordFields

-----------------------------------------------------------------------------
(* Content types.                                                          *)

TypeMarks == {" ", "/", ":"}
Entries   == [name : TypeWords, value : TypeWords]
AnyEntry  == [name : Seq(STRING), value : Seq(STRING)]
TypeState == [list : Seq(AnyEntry), text : Seq(STRING)]

\* The parser, as a function of its own.
TypePrase[x \in [list : Seq([name : Seq(STRING), value : Seq(STRING)]), text : Seq(STRING)]] ==
  LET name  == TypeWord(x.text)
      value == TypeWord(name.rest)
      entry == [name |-> name.word, value |-> value.word]
      more  == IF x.list = <<>> THEN <<entry>> ELSE InsertAt(x.list, 2, entry)
  IN  IF ~name.read \/ ~StartsWith(name.rest, "/") THEN x.list
        ELSE IF value.read THEN TypePrase[[list |-> more, text |-> value.rest]] ELSE more

\* One step of it, with f for what is left.
TypeBody(f, x) ==
  LET name  == TypeWord(x.text)
      value == TypeWord(name.rest)
      entry == [name |-> name.word, value |-> value.word]
      more  == IF x.list = <<>> THEN <<entry>> ELSE InsertAt(x.list, 2, entry)
  IN  IF ~name.read \/ ~StartsWith(name.rest, "/") THEN x.list
        ELSE IF value.read THEN f[[list |-> more, text |-> value.rest]] ELSE more

\* It is the parser.
TypesAt(list, s) == [list |-> list, text |-> s]

\* lmsrp_content_type_prase begins with an empty list.
LEMMA TypePraseIs == \A s : ContentTypePrase(s) = TypePrase[TypesAt(<<>>, s)]
BY Zenon DEF ContentTypePrase, TypePrase, TypesAt

\* The list with an entry put behind the first.
More(list, entry) == IF list = <<>> THEN <<entry>> ELSE InsertAt(list, 2, entry)

\* It is a list again; what stands behind the first entry comes after the new one.
LEMMA MoreIs ==
  ASSUME NEW S, NEW e \in S
  PROVE  /\ \A list \in Seq(S) : More(list, e) \in Seq(S)
         /\ More(<<>>, e) = <<e>>
         /\ \A d \in S, list \in Seq(S) :
              More(Cat(<<d>>, list), e) = Cat(<<d>>, Cat(<<e>>, list))
<1> DEFINE x == <<e>>
<1>1. x \in Seq(S)
  BY OneElement
<1>2. ASSUME NEW d \in S, NEW list \in Seq(S), NEW u, u = Cat(<<d>>, list)
      PROVE  u \in Seq(S) /\ u # <<>> /\ InsertAt(u, 2, e) = Cat(<<d>>, Cat(x, list))
  <2> DEFINE y == <<d>>
             n == Len(u)
  <2>1. y \in Seq(S) /\ Len(y) = 1
    BY OneElement
  <2>2. u = Cat(y, list)
    BY <1>2
  <2> HIDE DEF y
  <2>3. IsTwo(u, S, y, list, 1)
    <3> DEFINE one == Len(y)
    <3>1. IsTwo(u, S, y, list, one)
      BY <2>1, <2>2, TwoParts
    <3> HIDE DEF one
    <3> QED
      BY <2>1, <3>1 DEF one
  <2>4. u \in Seq(S) /\ 1 <= n /\ Part(u, 0, 1) = y /\ Part(u, 1, n) = list
    BY <2>3 DEF IsTwo
  <2>5. u # <<>>
    BY <2>4, EmptySeq
  <2> HIDE DEF x, n
  <2>6. SubSeq(u, 1, 2 - 1) = Part(u, 0, 1) /\ SubSeq(u, 2, n) = Part(u, 1, n)
    <3>1. 2 - 1 = 1 /\ 0 + 1 = 1 /\ 1 + 1 = 2
      OBVIOUS
    <3> QED
      BY <3>1 DEF Part
  <2>7. InsertAt(u, 2, e) = Cat(Cat(y, x), list)
    BY <2>4, <2>6, Zenon DEF InsertAt, Cat, x, n
  <2>8. Cat(Cat(y, x), list) = Cat(y, Cat(x, list))
    BY <1>1, <2>1, CatLemma
  <2> QED
    BY <2>4, <2>5, <2>7, <2>8 DEF y
<1>3. ASSUME NEW list \in Seq(S) PROVE More(list, e) \in Seq(S)
  <2>1. CASE list = <<>>
    BY <1>1, <2>1 DEF More
  <2>2. CASE list # <<>>
    <3> DEFINE n == Len(list)
               d == list[1]
               rest == Part(list, 1, n)
    <3>1. n \in Nat /\ 1 \in 1 .. n /\ 0 \in 0 .. n /\ 1 = 0 + 1 /\ d \in S
      <4>1. n \in Nat /\ 1 \in 1 .. n /\ d \in S
        BY <2>2, FirstPlace
      <4> QED
        BY <4>1
    <3>2. rest \in Seq(S) /\ Part(list, 0, n) = Cat(<<d>>, rest) /\ Part(list, 0, n) = list
      BY <3>1, PartStep, PartAll
    <3> HIDE DEF n, d, rest
    <3> DEFINE z == Cat(x, rest)
               y == <<d>>
    <3>3. InsertAt(list, 2, e) = Cat(y, z)
      BY <1>2, <3>1, <3>2
    <3>4. z \in Seq(S) /\ y \in Seq(S)
      BY <1>1, <3>1, <3>2, CatLemma, OneElement
    <3> HIDE DEF z, y
    <3>5. InsertAt(list, 2, e) \in Seq(S)
      BY <3>3, <3>4, CatLemma
    <3> QED
      BY <2>2, <3>5 DEF More
  <2> QED
    BY <2>1, <2>2
<1>4. ASSUME NEW d \in S, NEW list \in Seq(S)
      PROVE  More(Cat(<<d>>, list), e) = Cat(<<d>>, Cat(x, list))
  <2> DEFINE u == Cat(<<d>>, list)
  <2>1. u # <<>> /\ InsertAt(u, 2, e) = Cat(<<d>>, Cat(x, list))
    BY <1>2
  <2> HIDE DEF u
  <2>2. More(u, e) = Cat(<<d>>, Cat(x, list))
    BY <2>1 DEF More
  <2> QED
    BY <2>2 DEF u
<1>5. More(<<>>, e) = <<e>>
  BY DEF More
<1> QED
  BY <1>3, <1>4, <1>5

\* The parser takes one entry after the other.
LEMMA TypePraseDef == \A x \in TypeState : TypePrase[x] = TypeBody(TypePrase, x)
<1> DEFINE X == TypeState
           Y == Seq(AnyEntry)
           F == [f \in [X -> Y] |-> [x \in X |-> TypeBody(f, x)]]
           measure == [x \in X |-> Len(x.text)]
<1>1. Y # {}
  BY EmptySeq
<1>2. measure \in [X -> Nat]
  <2>1. \A x \in X : Len(x.text) \in Nat
    BY LenProperties DEF TypeState
  <2> QED
    BY <2>1
<1>3. ASSUME NEW t \in Seq(STRING)
      PROVE  /\ TypeWord(t).word \in Seq(STRING) /\ Shorter(TypeWord(t).rest, t)
             /\ t # <<>> => Len(TypeWord(t).rest) < Len(t)
  <2> DEFINE sep == Places(t, {" ", "/", ":"})
  <2>1. sep \in SUBSET (DOMAIN t)
    BY DEF Places
  <2> HIDE DEF sep
  <2> QED
    BY <2>1, GetStrType DEF TypeWord, sep
<1>4. ASSUME NEW x \in X, NEW name, name = TypeWord(x.text), NEW value, value = TypeWord(name.rest),
             NEW y, y = [list |-> More(x.list, [name |-> name.word, value |-> value.word]),
                         text |-> value.rest]
      PROVE  /\ x.list \in Y /\ y.list \in Y /\ y.text \in Seq(STRING) /\ y \in X
             /\ StartsWith(name.rest, "/") => measure[y] < measure[x]
  <2>1. x.list \in Y /\ x.text \in Seq(STRING)
    BY DEF TypeState
  <2>2. /\ name.word \in Seq(STRING) /\ Shorter(name.rest, x.text)
        /\ x.text # <<>> => Len(name.rest) < Len(x.text)
    BY <1>3, <1>4, <2>1
  <2>3. /\ value.word \in Seq(STRING) /\ Shorter(value.rest, name.rest)
        /\ name.rest # <<>> => Len(value.rest) < Len(name.rest)
    BY <1>3, <1>4, <2>2 DEF Shorter
  <2> DEFINE entry == [name |-> name.word, value |-> value.word]
             more == More(x.list, entry)
  <2>4. entry \in AnyEntry
    BY <2>2, <2>3 DEF AnyEntry
  <2> HIDE DEF entry
  <2>5. more \in Y
    BY <2>1, <2>4, MoreIs
  <2> HIDE DEF more
  <2>6. y = [list |-> more, text |-> value.rest]
    BY <1>4 DEF more, entry
  <2>7. y.list = more /\ y.text = value.rest /\ y.text \in Seq(STRING) /\ y \in X
    BY <2>3, <2>5, <2>6 DEF TypeState, Shorter
  <2>8. ASSUME StartsWith(name.rest, "/") PROVE measure[y] < measure[x]
    <3>1. measure[y] = Len(value.rest) /\ measure[x] = Len(x.text)
      BY <2>7
    <3>2. /\ Len(value.rest) \in Nat /\ Len(name.rest) \in Nat /\ Len(x.text) \in Nat
          /\ Len(value.rest) < Len(name.rest) /\ Len(name.rest) <= Len(x.text)
      BY <2>1, <2>2, <2>3, <2>8, LenProperties DEF Shorter, StartsWith
    <3> HIDE DEF measure
    <3> QED
      BY <3>1, <3>2
  <2> QED
    BY <2>1, <2>5, <2>7, <2>8
<1>5. ASSUME NEW f, NEW x, NEW name, name = TypeWord(x.text), NEW value, value = TypeWord(name.rest),
             NEW y, y = [list |-> More(x.list, [name |-> name.word, value |-> value.word]),
                         text |-> value.rest]
      PROVE  TypeBody(f, x) = IF ~name.read \/ ~StartsWith(name.rest, "/") THEN x.list
                                ELSE IF value.read THEN f[y]
                                ELSE More(x.list, [name |-> name.word, value |-> value.word])
  BY <1>5, Zenon DEF TypeBody, More
<1>6. \A f \in [X -> Y], x \in X : TypeBody(f, x) \in Y
  <2> SUFFICES ASSUME NEW f \in [X -> Y], NEW x \in X PROVE TypeBody(f, x) \in Y
    OBVIOUS
  <2> DEFINE name == TypeWord(x.text)
             value == TypeWord(name.rest)
             more == More(x.list, [name |-> name.word, value |-> value.word])
             y == [list |-> more, text |-> value.rest]
  <2>1. TypeBody(f, x) = IF ~name.read \/ ~StartsWith(name.rest, "/") THEN x.list
                           ELSE IF value.read THEN f[y] ELSE more
    BY <1>5
  <2>2. x.list \in Y /\ y.list \in Y /\ y \in X
    BY <1>4
  <2>3. y.list = more
    OBVIOUS
  <2> HIDE DEF X, Y, y, more, name, value
  <2> QED
    BY <2>1, <2>2, <2>3
<1>7. F \in [[X -> Y] -> [X -> Y]]
  <2> HIDE DEF X, Y
  <2> QED
    BY <1>6
<1>8. Local(F, X, Y, measure)
  <2> SUFFICES ASSUME NEW f \in [X -> Y], NEW g \in [X -> Y], NEW x \in X,
                      \A y \in X : measure[y] < measure[x] => f[y] = g[y]
               PROVE  F[f][x] = F[g][x]
    BY DEF Local
  <2>1. F[f][x] = TypeBody(f, x) /\ F[g][x] = TypeBody(g, x)
    <3> HIDE DEF X, Y
    <3> QED
      OBVIOUS
  <2> DEFINE name == TypeWord(x.text)
             value == TypeWord(name.rest)
             more == More(x.list, [name |-> name.word, value |-> value.word])
             y == [list |-> more, text |-> value.rest]
  <2>2. /\ TypeBody(f, x) = IF ~name.read \/ ~StartsWith(name.rest, "/") THEN x.list
                              ELSE IF value.read THEN f[y] ELSE more
        /\ TypeBody(g, x) = IF ~name.read \/ ~StartsWith(name.rest, "/") THEN x.list
                              ELSE IF value.read THEN g[y] ELSE more
    BY <1>5
  <2>3. y \in X /\ (StartsWith(name.rest, "/") => measure[y] < measure[x])
    BY <1>4
  <2> HIDE DEF X, Y, F, measure, y, more, name, value
  <2>4. StartsWith(name.rest, "/") => f[y] = g[y]
    BY <2>3
  <2> QED
    BY <2>1, <2>2, <2>4
<1> HIDE DEF X, Y, F, measure
<1>9. \E f \in [X -> Y] : F[f] = f
  <2>1. IsRecursion(F, X, Y, measure)
    BY <1>1, <1>2, <1>7, <1>8 DEF IsRecursion
  <2>2. HasFixpoint(F, X, Y)
    BY <2>1, Recursion
  <2> QED
    BY <2>2 DEF HasFixpoint
<1>10. \E f : f = [x \in X |-> TypeBody(f, x)]
  <2>1. PICK f \in [X -> Y] : F[f] = f
    BY <1>9
  <2>2. F[f] = [x \in X |-> TypeBody(f, x)]
    <3> HIDE DEF X
    <3> QED
      BY <2>1 DEF F
  <2> HIDE DEF X
  <2> QED
    BY <2>1, <2>2
<1>11. TypePrase = CHOOSE f : f = [x \in X |-> TypeBody(f, x)]
  BY Zenon DEF TypePrase, TypeBody, X, TypeState, AnyEntry
<1>12. TypePrase = [x \in X |-> TypeBody(TypePrase, x)]
  BY <1>10, <1>11, Zenon
<1> QED
  BY <1>12, Zenon DEF X

\* What is written for one entry.
TypeText(e) == <<" ">> \o e.name \o <<"/">> \o e.value

\* It is a text of one line.
LEMMA TypeTextIs ==
  ASSUME NEW e \in Entries, NEW r \in Seq(STRING)
  PROVE  /\ TypeText(e) \in Seq(Tokens)
         /\ Cat(TypeText(e), r) = Cat(<<" ">>, Cat(e.name, Cat(<<"/">>, Cat(e.value, r))))
<1> DEFINE a == <<" ">>
           b == e.name
           c == <<"/">>
           d == e.value
           l2 == Cat(a, b)
           l3 == Cat(l2, c)
           r4 == Cat(d, r)
           r3 == Cat(c, r4)
<1>1. " " \in Tokens /\ "/" \in Tokens
  BY MarkTokens DEF Marks, CR, LF
<1>2. a \in Seq(Tokens) /\ c \in Seq(Tokens)
  BY <1>1, LineToken
<1>3. b \in TypeWords /\ d \in TypeWords
  BY DEF Entries
<1>4. b \in Seq(Tokens) /\ d \in Seq(Tokens)
  BY <1>3, WordsAreTexts DEF TypeWords
<1>5. TypeText(e) = Cat(Cat(Cat(a, b), c), d)
  BY Zenon DEF TypeText, Cat
<1> HIDE DEF a, b, c, d
<1>6. l2 \in Seq(Tokens) /\ l3 \in Seq(Tokens) /\ Cat(l3, d) \in Seq(Tokens)
  BY <1>2, <1>4, LineCat
<1>7. /\ a \in Seq(STRING) /\ b \in Seq(STRING) /\ c \in Seq(STRING) /\ d \in Seq(STRING)
      /\ l2 \in Seq(STRING) /\ l3 \in Seq(STRING)
  BY <1>2, <1>4, <1>6, LinesAreTexts
<1>8. r4 \in Seq(STRING) /\ r3 \in Seq(STRING)
  BY <1>7, TextCat
<1>9. Cat(Cat(l3, d), r) = Cat(l3, r4)
  <2> HIDE DEF l2, l3
  <2> QED
    BY <1>7, TextAssoc
<1>10. Cat(l3, r4) = Cat(l2, r3)
  <2> HIDE DEF l2, r4
  <2> QED
    BY <1>7, <1>8, TextAssoc
<1>11. Cat(l2, r3) = Cat(a, Cat(b, r3))
  <2> HIDE DEF r3
  <2> QED
    BY <1>7, <1>8, TextAssoc
<1>12. TypeText(e) \in Seq(Tokens)
  BY <1>5, <1>6
<1>13. Cat(TypeText(e), r) = Cat(a, Cat(b, Cat(c, Cat(d, r))))
  BY <1>5, <1>9, <1>10, <1>11
<1> QED
  BY <1>12, <1>13 DEF a, b, c, d

\* The entry is read, with what is behind it left.
LEMMA TypeStep ==
  ASSUME NEW e \in Entries, NEW r \in Seq(STRING), Starts(r, {" "}), NEW list \in Seq(AnyEntry),
         NEW t, t = Cat(TypeText(e), r)
  PROVE  TypePrase[TypesAt(list, t)] = TypePrase[TypesAt(More(list, e), r)]
<1> DEFINE x == TypesAt(list, t)
           t2 == Cat(<<"/">>, Cat(e.value, r))
           name == TypeWord(x.text)
           value == TypeWord(name.rest)
           entry == [name |-> name.word, value |-> value.word]
<1>1. IsSeparators(TypeMarks)
  BY DEF IsSeparators, TypeMarks, Marks
<1>2. " " \in TypeMarks /\ "/" \in TypeMarks /\ " " \in Tokens /\ "/" \in Tokens
  BY MarkTokens DEF TypeMarks, Marks, CR, LF
<1>3. e.name \in WordsWithout(TypeMarks) /\ e.value \in WordsWithout(TypeMarks)
  BY DEF Entries, TypeWords, TypeMarks
<1>4. Starts(r, TypeMarks)
  BY DEF Starts, TypeMarks
<1>5. t2 \in Seq(STRING) /\ Starts(t2, TypeMarks) /\ IsWord(WordOf(t2, TypeMarks), e.value, r)
  BY <1>1, <1>2, <1>3, <1>4, NextWord
<1>6. StartsWith(t2, "/")
  <2> DEFINE c == <<"/">>
             u == Cat(e.value, r)
  <2>1. c \in Seq(STRING) /\ c # <<>> /\ c[1] = "/"
    BY <1>2, LineToken, LinesAreTexts, OneElement
  <2>2. e.value \in Seq(STRING)
    BY <1>3, WordsAreTexts
  <2>3. u \in Seq(STRING)
    BY <2>2, TextCat
  <2>4. Starts(c, {"/"})
    BY <2>1 DEF Starts
  <2> HIDE DEF c, u
  <2>5. Cat(c, u) # <<>> /\ Cat(c, u)[1] = c[1]
    BY <2>1, <2>3, <2>4, StartsCat
  <2> QED
    BY <2>1, <2>5 DEF StartsWith, c, u
<1> HIDE DEF t2
<1>7. t \in Seq(STRING) /\ IsWord(WordOf(t, TypeMarks), e.name, t2)
  <2>1. t = Cat(<<" ">>, Cat(e.name, t2))
    BY TypeTextIs DEF t2
  <2> QED
    BY <1>1, <1>2, <1>3, <1>5, <2>1, NextWord
<1>9. x \in TypeState /\ x.list = list /\ x.text = t
  <2>1. t \in Seq(STRING)
    BY <1>7
  <2> QED
    BY <2>1 DEF TypeState, TypesAt
<1> HIDE DEF x
<1>10. \A s : TypeWord(s) = WordOf(s, TypeMarks)
  BY Zenon DEF TypeWord, WordOf, TypeMarks
<1>11. name.read = TRUE /\ name.word = e.name /\ name.rest = t2
  BY <1>7, <1>9, <1>10, WordFields
<1> HIDE DEF name
<1>12. value.read = TRUE /\ value.word = e.value /\ value.rest = r
  BY <1>5, <1>10, <1>11, WordFields
<1> HIDE DEF value
<1>13. entry = e
  <2>1. e = [name |-> e.name, value |-> e.value]
    BY DEF Entries
  <2> QED
    BY <1>11, <1>12, <2>1
<1> HIDE DEF entry
<1>14. TypePrase[x] = IF ~name.read \/ ~StartsWith(name.rest, "/") THEN x.list
                        ELSE IF value.read
                          THEN TypePrase[TypesAt(More(x.list, entry), value.rest)]
                          ELSE More(x.list, entry)
  <2>1. TypePrase[x] = TypeBody(TypePrase, x)
    BY <1>9, TypePraseDef
  <2> QED
    BY <2>1, Zenon DEF TypeBody, More, TypesAt, name, value, entry
<1>15. TypePrase[x] = TypePrase[TypesAt(More(list, e), r)]
  BY <1>6, <1>9, <1>11, <1>12, <1>13, <1>14
<1> QED
  BY <1>15 DEF x

\* The texts of a list's entries, with one more in front.
LEMMA TypesCons ==
  ASSUME NEW e \in Entries, NEW es \in Seq(Entries), ContentTypeToString(es) \in Seq(Tokens)
  PROVE  /\ ContentTypeToString(Cat(<<e>>, es)) \in Seq(Tokens)
         /\ ContentTypeToString(Cat(<<e>>, es)) = Cat(TypeText(e), ContentTypeToString(es))
<1> DEFINE Texts(s) == [i \in DOMAIN s |-> TypeText(s[i])]
           n  == Len(es)
           m  == n + 1
           u  == Cat(<<e>>, es)
           t  == TypeText(e)
           ts == Texts(es)
           us == Texts(u)
           vs == Cat(<<t>>, ts)
           S  == Seq(Tokens)
<1>1. IsCons(u, Entries, e, es, n)
  BY ConsIs
<1> HIDE DEF u
<1>2. /\ u \in Seq(Entries) /\ n \in Nat /\ Len(u) = m /\ u[1] = e
      /\ \A h \in 0 .. n, i \in 1 .. n : i = h + 1 => At(u, i + 1) = es[i]
  BY <1>1 DEF IsCons
<1>3. \A d \in Entries : TypeText(d) \in S
  BY TypeTextIs, EmptySeq
<1>4. DOMAIN es = 1 .. n /\ (\A i \in 1 .. n : es[i] \in Entries)
  BY LenProperties, ElementOfSeq
<1>5. DOMAIN u = 1 .. m /\ (\A i \in 1 .. m : u[i] \in Entries) /\ m \in Nat
  <2>1. m \in Nat
    BY <1>2
  <2> QED
    BY <1>2, <2>1, LenProperties, ElementOfSeq
<1> HIDE DEF S, n
<1>6. ts \in Seq(S) /\ Len(ts) = n /\ \A i \in 1 .. n : ts[i] = TypeText(es[i])
  <2>1. ts \in [1 .. n -> S] /\ \A i \in 1 .. n : ts[i] = TypeText(es[i])
    BY <1>3, <1>4
  <2> HIDE DEF ts
  <2> QED
    BY <1>2, <2>1, SeqIs
<1>7. us \in Seq(S) /\ Len(us) = m /\ \A i \in 1 .. m : us[i] = TypeText(u[i])
  <2>1. us \in [1 .. m -> S] /\ \A i \in 1 .. m : us[i] = TypeText(u[i])
    BY <1>3, <1>5
  <2> HIDE DEF us, m
  <2> QED
    BY <1>5, <2>1, SeqIs
<1>8. t \in S
  BY <1>3
<1> HIDE DEF ts, us, t
<1>9. IsCons(vs, S, t, ts, n)
  BY <1>6, <1>8, ConsIs
<1> HIDE DEF vs
<1>10. /\ vs \in Seq(S) /\ Len(vs) = m /\ vs[1] = t
       /\ \A h \in 0 .. n, i \in 1 .. n : i = h + 1 => At(vs, i + 1) = ts[i]
  BY <1>9 DEF IsCons
<1>11. ASSUME NEW i \in 1 .. m PROVE us[i] = vs[i]
  <2>1. CASE i = 1
    BY <1>2, <1>7, <1>10, <2>1 DEF t
  <2>2. CASE i # 1
    <3> DEFINE j == i - 1
               h == i - 2
    <3>1. j \in 1 .. n /\ h \in 0 .. n /\ j = h + 1 /\ j + 1 = i
      BY <1>2, <2>2
    <3> HIDE DEF j, h
    <3>2. At(u, i) = es[j] /\ At(vs, i) = ts[j]
      BY <1>2, <1>10, <3>1
    <3> QED
      BY <1>6, <1>7, <3>1, <3>2 DEF At
  <2> QED
    BY <2>1, <2>2
<1>12. us = vs
  BY <1>7, <1>10, <1>11, SeqEqual
<1>13. ContentTypeToString(es) = FlattenSeq(ts) /\ ContentTypeToString(u) = FlattenSeq(us)
  BY Zenon DEF ContentTypeToString, TypeText, ts, us
<1>14. FlattenSeq(vs) = Cat(t, FlattenSeq(ts))
  BY <1>6, <1>8, FlattenCons DEF S, vs
<1>15. ContentTypeToString(u) = Cat(t, ContentTypeToString(es))
  BY <1>12, <1>13, <1>14
<1>16. Cat(t, ContentTypeToString(es)) \in Seq(Tokens)
  BY <1>8, LineCat DEF S
<1> QED
  BY <1>15, <1>16 DEF u, t

\* The types behind the first are read in the reverse order.
IsTypes(es) ==
  /\ es \in Seq(Entries)
  /\ ContentTypeToString(es) \in Seq(Tokens) /\ Starts(ContentTypeToString(es), {" "})
  /\ \A d \in Entries, list \in Seq(Entries) :
       TypePrase[TypesAt(Cat(<<d>>, list), ContentTypeToString(es))] =
         Cat(<<d>>, Cat(Reverse(es), list))

\* By induction over the length of the list: all lists are.
LEMMA TypesAre == \A es \in Seq(Entries) : IsTypes(es)
<1> DEFINE T == {es \in Seq(Entries) : IsTypes(es)}
<1>0. \A s \in Seq(Entries) : s \in Seq(AnyEntry)
  <2>1. \A w \in TypeWords : w \in Seq(STRING)
    BY WordsAreTexts DEF TypeWords
  <2>2. Entries \subseteq AnyEntry
    BY <2>1 DEF Entries, AnyEntry
  <2> QED
    BY <2>2, SeqMonotonic
<1>1. <<>> \in T
  <2> DEFINE e == <<>>
             t == ContentTypeToString(e)
  <2>1. e \in Seq(Entries) /\ e \in Seq(Seq(Tokens)) /\ Len(e) = 0 /\ DOMAIN e = {}
    BY EmptySeq
  <2>2. t = <<>>
    <3>1. [i \in DOMAIN e |-> <<" ">> \o e[i].name \o <<"/">> \o e[i].value] = e
      BY <2>1
    <3>2. t = FlattenSeq(e)
      BY <3>1 DEF ContentTypeToString
    <3> QED
      BY <2>1, <3>2, Zenon DEF FlattenSeq
  <2>3. t \in Seq(Tokens) /\ t \in Seq(STRING) /\ Starts(t, {" "})
    BY <2>2, LineEmpty, EmptySeq DEF Starts
  <2>4. Reverse(e) = <<>>
    BY <2>1 DEF Reverse
  <2> HIDE DEF e
  <2> HIDE DEF t
  <2>5. ASSUME NEW d \in Entries, NEW list \in Seq(Entries)
        PROVE  TypePrase[TypesAt(Cat(<<d>>, list), t)] = Cat(<<d>>, Cat(Reverse(e), list))
    <3> DEFINE y == <<d>>
               u == Cat(y, list)
               x == TypesAt(u, t)
               name == TypeWord(x.text)
    <3>1. y \in Seq(Entries)
      BY OneElement
    <3> HIDE DEF y
    <3>2. u \in Seq(Entries)
      BY <3>1, CatLemma
    <3>3. u \in Seq(AnyEntry)
      BY <1>0, <3>2
    <3> HIDE DEF u
    <3>4. x \in TypeState /\ x.list = u /\ x.text = t
      BY <2>3, <3>3 DEF TypeState, TypesAt
    <3> HIDE DEF x
    <3>5. TypePrase[x] = TypeBody(TypePrase, x)
      BY <3>4, TypePraseDef
    <3>6. name = [read |-> TRUE, word |-> <<CR>>, rest |-> <<>>]
      BY <2>2, <3>4 DEF TypeWord, GetStr
    <3>7. name.rest = <<>>
      <4> HIDE DEF name
      <4> QED
        BY <3>6
    <3>8. ~StartsWith(name.rest, "/")
      BY <3>7 DEF StartsWith
    <3>9. TypeBody(TypePrase, x) = x.list
      BY <3>8, Zenon DEF TypeBody
    <3>10. Cat(Reverse(e), list) = list
      BY <2>4, ConcatEmptySeq DEF Cat
    <3> QED
      BY <3>4, <3>5, <3>9, <3>10 DEF x, u, y
  <2> QED
    BY <2>1, <2>3, <2>5 DEF IsTypes, t, e
<1>2. ASSUME NEW e \in Entries, NEW es \in Seq(Entries), es \in T PROVE Cat(<<e>>, es) \in T
  <2> DEFINE us == Cat(<<e>>, es)
             s == ContentTypeToString(es)
             t == ContentTypeToString(us)
             x == <<e>>
  <2>1. /\ s \in Seq(Tokens) /\ Starts(s, {" "})
        /\ \A d \in Entries, list \in Seq(Entries) :
             TypePrase[TypesAt(Cat(<<d>>, list), s)] = Cat(<<d>>, Cat(Reverse(es), list))
    BY <1>2 DEF IsTypes
  <2>2. t \in Seq(Tokens) /\ t = Cat(TypeText(e), s)
    BY <2>1, TypesCons
  <2>3. x \in Seq(Entries) /\ us \in Seq(Entries)
    BY OneElement, CatLemma
  <2>4. Starts(t, {" "})
    <3> DEFINE b == <<" ">>
               z == Cat(e.name, Cat(<<"/">>, Cat(e.value, s)))
    <3>1. s \in Seq(STRING)
      BY <2>1, LinesAreTexts
    <3>2. t = Cat(b, z)
      <4> HIDE DEF s, t
      <4> QED
        BY <2>2, <3>1, TypeTextIs
    <3>3. b \in Seq(STRING) /\ b # <<>> /\ b[1] = " "
      BY MarksLemma, Token DEF Marks
    <3>4. z \in Seq(STRING)
      <4>1. e.name \in Seq(STRING) /\ e.value \in Seq(STRING)
        BY WordsAreTexts DEF Entries, TypeWords
      <4>2. <<"/">> \in Seq(STRING)
        BY MarksLemma, Token DEF Marks
      <4> HIDE DEF s
      <4> QED
        BY <3>1, <4>1, <4>2, TextCat
    <3>5. Starts(b, {" "})
      BY <3>3 DEF Starts
    <3> HIDE DEF b, z, t
    <3>6. Starts(Cat(b, z), {" "})
      BY <3>3, <3>4, <3>5, StartsCat
    <3> QED
      BY <3>2, <3>6
  <2>5. Reverse(us) = Cat(Reverse(es), x) /\ Reverse(es) \in Seq(Entries)
    BY ReverseCons
  <2>6. ASSUME NEW d \in Entries, NEW list \in Seq(Entries)
        PROVE  TypePrase[TypesAt(Cat(<<d>>, list), t)] = Cat(<<d>>, Cat(Reverse(us), list))
    <3> DEFINE y == <<d>>
               u == Cat(y, list)
               w == Cat(x, list)
    <3>1. y \in Seq(Entries)
      BY OneElement
    <3>2. u \in Seq(Entries) /\ w \in Seq(Entries)
      <4> HIDE DEF x, y
      <4> QED
        BY <2>3, <3>1, CatLemma
    <3>3. u \in Seq(AnyEntry)
      BY <1>0, <3>2
    <3>4. More(u, e) = Cat(y, w)
      BY MoreIs
    <3>5. TypePrase[TypesAt(u, t)] = TypePrase[TypesAt(More(u, e), s)]
      <4>1. s \in Seq(STRING)
        BY <2>1, LinesAreTexts
      <4> HIDE DEF u, s, t
      <4> QED
        BY <2>1, <2>2, <3>3, <4>1, TypeStep
    <3>6. TypePrase[TypesAt(Cat(<<d>>, w), s)] = Cat(<<d>>, Cat(Reverse(es), w))
      <4> HIDE DEF w, s
      <4> QED
        BY <2>1, <3>2
    <3>7. Cat(Reverse(es), w) = Cat(Reverse(us), list)
      <4> DEFINE r == Reverse(es)
      <4> HIDE DEF x, r
      <4>1. Cat(Cat(r, x), list) = Cat(r, Cat(x, list))
        BY <2>3, <2>5, CatLemma DEF r
      <4> QED
        BY <2>5, <4>1 DEF r
    <3> QED
      BY <3>4, <3>5, <3>6, <3>7
  <2> QED
    BY <2>2, <2>3, <2>4, <2>6 DEF IsTypes
<1>3. \A es \in Seq(Entries) : es \in T
  <2> HIDE DEF T
  <2> QED
    BY <1>1, <1>2, SeqInduction
<1> QED
  BY <1>3

\* A list of content types that is written is read back, those behind the first in the
\* reverse order.
THEOREM ContentTypeTrip ==
  ASSUME NEW v \in Seq(Entries), v # <<>>
  PROVE  /\ ContentTypeToString(v) \in Seq(Tokens)
         /\ ContentTypePrase(ContentTypeToString(v)) = <<v[1]>> \o Reverse(Tail(v))
<1> DEFINE n == Len(v)
           d == v[1]
           es == Part(v, 1, n)
           t == ContentTypeToString(v)
           s == ContentTypeToString(es)
           e == <<>>
<1>1. 1 \in 1 .. n /\ 0 \in 0 .. n /\ 1 = 0 + 1 /\ d \in Entries /\ n \in Nat
  <2>1. n \in Nat /\ 1 \in 1 .. n /\ d \in Entries
    BY FirstPlace
  <2> QED
    BY <2>1
<1>2. es \in Seq(Entries) /\ Part(v, 0, n) = Cat(<<d>>, es) /\ Part(v, 0, n) = v
  BY <1>1, PartStep, PartAll
<1>3. Tail(v) = es
  <2>1. Tail(v) = SubSeq(v, 2, n)
    BY HeadTailProperties, SMT
  <2> QED
    BY <2>1 DEF Part
<1>4. IsTypes(v) /\ IsTypes(es)
  BY <1>2, TypesAre
<1>5. t \in Seq(Tokens) /\ t = Cat(TypeText(d), s)
  <2>1. s \in Seq(Tokens)
    BY <1>4 DEF IsTypes
  <2> HIDE DEF d, es
  <2> QED
    BY <1>1, <1>2, <2>1, TypesCons
<1> HIDE DEF es, d, t
<1>6. /\ s \in Seq(STRING) /\ Starts(s, {" "})
      /\ \A c \in Entries, list \in Seq(Entries) :
           TypePrase[TypesAt(Cat(<<c>>, list), s)] = Cat(<<c>>, Cat(Reverse(es), list))
  BY <1>4, LinesAreTexts DEF IsTypes
<1> HIDE DEF s
<1>7. e \in Seq(AnyEntry) /\ e \in Seq(Entries) /\ Len(e) = 0 /\ e = <<>>
  BY EmptySeq
<1>8. More(e, d) = Cat(<<d>>, e)
  <2>1. <<d>> \in Seq(Entries)
    BY <1>1, OneElement
  <2>2. Cat(<<d>>, e) = <<d>>
    BY <2>1, ConcatEmptySeq DEF Cat
  <2> QED
    BY <1>1, <2>2, MoreIs
<1> HIDE DEF e
<1>9. TypePrase[TypesAt(e, t)] = TypePrase[TypesAt(More(e, d), s)]
  BY <1>1, <1>5, <1>6, <1>7, TypeStep
<1>10. TypePrase[TypesAt(Cat(<<d>>, e), s)] = Cat(<<d>>, Cat(Reverse(es), e))
  BY <1>1, <1>6, <1>7
<1>11. Cat(Reverse(es), e) = Reverse(es)
  <2>1. Reverse(es) \in Seq(Entries)
    BY <1>1, <1>2, ReverseCons
  <2> QED
    BY <1>7, <2>1, ConcatEmptySeq DEF Cat
<1>12. ContentTypePrase(t) = TypePrase[TypesAt(e, t)]
  BY <1>7, TypePraseIs
<1>13. ContentTypePrase(t) = Cat(<<d>>, Reverse(es))
  BY <1>8, <1>9, <1>10, <1>11, <1>12
<1> QED
  BY <1>3, <1>5, <1>13 DEF Cat, d, t

-----------------------------------------------------------------------------
(* The first line.                                                         *)

MethodWords == {w \in WordsWithout({" ", ":"}) : Strtol(w) = 0}
Phrases     == {s \in OneLine : ~StartsWith(s, " ") /\ (s # <<>> => Last(s) # " ")}
Requests    == [method : MethodWords, code : {0}, reason : {<<>>}]
Responses   == [method : {<<>>}, code : Numbers \ {0}, reason : Phrases]

\* The words of a line have none of some characters.
LEMMA LineWord ==
  ASSUME NEW w \in Seq(Tokens)
  PROVE  \A i \in 1 .. Len(w) : w[i] \in STRING /\ w[i] \notin {CR, LF}
<1>1. \A i \in 1 .. Len(w) : w[i] \in Tokens
  BY ElementOfSeq
<1> QED
  BY <1>1 DEF Tokens

\* A method, or a code and a reason, that is written is read back.
THEOREM InfoTrip ==
  ASSUME NEW info \in Requests \cup Responses
  PROVE  /\ InfoToString(info) \in Seq(Tokens)
         /\ InfoPrase(Cat(<<" ">>, InfoToString(info))) = info
<1> DEFINE t == InfoToString(info)
           b == <<" ">>
           s == Cat(b, t)
           e == <<>>
           w == StatusWord(s)
<1>1. IsSeparators(StatusMarks)
  BY DEF IsSeparators, StatusMarks, Marks
<1>2. " " \in StatusMarks /\ " " \in Tokens
  BY MarkTokens DEF StatusMarks, Marks, CR, LF
<1>3. \A x : StatusWord(x) = WordOf(x, StatusMarks)
  BY Zenon DEF StatusWord, WordOf, StatusMarks
<1>4. e \in Seq(STRING) /\ Starts(e, StatusMarks)
  BY EmptySeq DEF Starts
<1>5. b \in Seq(Tokens)
  BY <1>2, LineToken
<1>6. CASE info \in Requests
  <2> DEFINE m == info.method
  <2>1. /\ m \in WordsWithout(StatusMarks) /\ Strtol(m) = 0 /\ info.code = 0
        /\ info = [method |-> m, code |-> 0, reason |-> <<>>]
    BY <1>6 DEF Requests, MethodWords, StatusMarks
  <2>2. m \in Seq(STRING) /\ m \in Seq(Tokens)
    BY <2>1, WordsAreTexts
  <2> HIDE DEF m
  <2>3. t = m
    BY <2>1 DEF InfoToString, m
  <2> HIDE DEF t
  <2>4. s = Cat(<<" ">>, Cat(m, e))
    BY <2>2, <2>3, TextEmpty
  <2> HIDE DEF s, e
  <2>5. IsWord(WordOf(s, StatusMarks), m, e)
    BY <1>1, <1>2, <1>4, <2>1, <2>4, NextWord
  <2>6. w.word = m
    BY <1>3, <2>5, WordFields
  <2>7. InfoPrase(s) = IF Strtol(w.word) = 0 THEN [method |-> w.word, code |-> 0, reason |-> <<>>]
                       ELSE [method |-> <<>>, code |-> Strtol(w.word), reason |-> Strtrim(w.rest)]
    BY Zenon DEF InfoPrase
  <2> HIDE DEF w
  <2>8. InfoPrase(s) = info
    BY <2>1, <2>6, <2>7
  <2> QED
    BY <2>2, <2>3, <2>8 DEF s, t
<1>7. CASE info \in Responses
  <2> DEFINE c == info.code
             d == Decimal(c)
             p == info.reason
             r == Cat(b, p)
  <2>1. /\ c \in Numbers /\ c # 0 /\ p \in Phrases
        /\ info = [method |-> <<>>, code |-> c, reason |-> p]
    BY <1>7 DEF Responses
  <2>2. d \in WordsWithout(StatusMarks) /\ Strtol(d) = c
    BY <1>1, <2>1, NumberWithout, NumberWord
  <2>3. d \in Seq(Tokens)
    BY <2>2, WordsAreTexts
  <2>4. p \in Seq(Tokens) /\ ~StartsWith(p, " ") /\ (p # <<>> => p[Len(p)] # " ")
    BY <2>1 DEF Phrases, OneLine, Tokens, Last
  <2>5. t = Cat(Cat(d, b), p)
    BY <2>1, Zenon DEF InfoToString, Cat
  <2> HIDE DEF t, d, p
  <2>6. Cat(d, b) \in Seq(Tokens) /\ r \in Seq(Tokens)
    BY <1>5, <2>3, <2>4, LineCat
  <2>7. t \in Seq(Tokens)
    <3> DEFINE db == Cat(d, b)
    <3> HIDE DEF db
    <3> QED
      BY <2>4, <2>5, <2>6, LineCat DEF db
  <2>8. t = Cat(d, r)
    <3>1. d \in Seq(STRING) /\ b \in Seq(STRING) /\ p \in Seq(STRING)
      BY <1>5, <2>3, <2>4, LinesAreTexts
    <3> HIDE DEF b
    <3> QED
      BY <2>5, <3>1, TextAssoc
  <2>9. Starts(r, StatusMarks) /\ r \in Seq(STRING)
    <3>1. b # <<>> /\ b[1] = " "
      BY OneElement
    <3>2. Starts(b, StatusMarks)
      BY <1>2, <3>1 DEF Starts
    <3> HIDE DEF b
    <3>3. Starts(Cat(b, p), StatusMarks)
      BY <1>5, <2>4, <3>1, <3>2, StartsCat
    <3> QED
      BY <2>6, <3>3, LinesAreTexts
  <2>10. Strtrim(r) = p
    <3> DEFINE B == {" ", CR, LF}
    <3>1. b \in Seq({" "})
      BY OneElement
    <3>2. CASE p = <<>>
      <4>1. r = b
        BY <1>5, <3>2, LinesAreTexts, TextEmpty
      <4> HIDE DEF r, b
      <4> QED
        BY <3>1, <3>2, <4>1, StrtrimBlank
    <3>3. CASE p # <<>>
      <4>1. 1 \in 1 .. Len(p) /\ Len(p) \in 1 .. Len(p)
        BY <2>4, <3>3, FirstPlace
      <4>2. p[1] \notin {CR, LF} /\ p[Len(p)] \notin {CR, LF}
        BY <2>4, <4>1, LineWord
      <4>3. p[1] \notin B /\ p[Len(p)] \notin B
        BY <2>4, <3>3, <4>2 DEF StartsWith
      <4>4. p \in Seq(STRING)
        BY <2>4, LinesAreTexts
      <4> HIDE DEF b
      <4> QED
        BY <3>1, <3>3, <4>3, <4>4, StrtrimIs
    <3> QED
      BY <3>2, <3>3
  <2> HIDE DEF r
  <2>11. s = Cat(<<" ">>, Cat(d, r))
    BY <2>8
  <2> HIDE DEF s
  <2>12. IsWord(WordOf(s, StatusMarks), d, r)
    BY <1>1, <1>2, <2>2, <2>9, <2>11, NextWord
  <2>13. w.word = d /\ w.rest = r
    BY <1>3, <2>12, WordFields
  <2>14. InfoPrase(s) = IF Strtol(w.word) = 0 THEN [method |-> w.word, code |-> 0, reason |-> <<>>]
                        ELSE [method |-> <<>>, code |-> Strtol(w.word), reason |-> Strtrim(w.rest)]
    BY Zenon DEF InfoPrase
  <2> HIDE DEF w, c
  <2>15. InfoPrase(s) = info
    BY <2>1, <2>2, <2>10, <2>13, <2>14
  <2> QED
    BY <2>7, <2>15 DEF s, t
<1> QED
  BY <1>6, <1>7

\* The first line behind its name: the id, and what InfoTrip says of the rest.
IsFirst(x, tid, info) ==
  /\ x \in Seq(Tokens) /\ RmColon(Cat(<<" ">>, x)) = x
  /\ MessWord(x).word = tid /\ InfoPrase(MessWord(x).rest) = info

\* The first line is read so.
LEMMA FirstIs ==
  ASSUME NEW tid \in WordsWithout({" ", ":"}), NEW info \in Requests \cup Responses,
         NEW x, x = Cat(tid, Cat(<<" ">>, InfoToString(info)))
  PROVE  IsFirst(x, tid, info)
<1> DEFINE C == {" ", ":", CR, LF}
           D == {" ", ":"}
           B == {" "}
           b == <<" ">>
           e == <<>>
           t == InfoToString(info)
           r == Cat(b, t)
<1>1. IsSeparators(C) /\ C \subseteq D \cup {CR, LF} /\ " " \in C /\ ":" \in C
  BY DEF IsSeparators, Marks
<1>2. " " \in Tokens
  BY MarkTokens DEF Marks, CR, LF
<1>3. tid \in WordsWithout(C)
  BY <1>1, WordsFewer
<1>4. b \in Seq(Tokens) /\ b # <<>> /\ b[1] = " " /\ b \in Seq(B)
  BY <1>2, OneElement
<1>5. t \in Seq(Tokens) /\ InfoPrase(r) = info
  BY InfoTrip
<1> HIDE DEF t, b
<1>6. r \in Seq(Tokens) /\ r \in Seq(STRING)
  BY <1>4, <1>5, LineCat, LinesAreTexts
<1>7. Starts(r, C)
  <2>1. Starts(b, C)
    BY <1>1, <1>4 DEF Starts
  <2> HIDE DEF C
  <2> QED
    BY <1>4, <1>5, <2>1, StartsCat
<1>8. tid \in Seq(Tokens) /\ tid \in Seq(STRING) /\ tid # <<>>
  BY WordsAreTexts
<1>9. x = Cat(tid, r)
  BY DEF r, b, t
<1> HIDE DEF r
<1>10. x \in Seq(Tokens) /\ x \in Seq(STRING) /\ x # <<>> /\ x[1] = tid[1]
  <2>1. x \in Seq(Tokens)
    BY <1>6, <1>8, <1>9, LineCat
  <2> DEFINE M == {tid[1]}
  <2>2. Starts(tid, M)
    BY DEF Starts
  <2> HIDE DEF M
  <2> DEFINE u == Cat(tid, r)
  <2>3. u # <<>> /\ u[1] = tid[1]
    <3>1. tid \in Seq(STRING) /\ r \in Seq(STRING) /\ (tid = <<>> => Starts(r, M))
      BY <1>6, <1>8
    <3> QED
      BY <1>8, <2>2, <3>1, StartsCat
  <2> QED
    BY <1>9, <2>1, <2>3, LinesAreTexts
<1>11. tid[1] \notin B /\ tid[1] # ":"
  <2>1. tid \in Seq(STRING \ (C \cup {CR, LF}))
    BY <1>3 DEF WordsWithout
  <2>2. tid[1] \in STRING \ (C \cup {CR, LF})
    BY <1>8, <2>1, FirstPlace
  <2> QED
    BY <1>1, <2>2
<1>12. RmColon(Cat(b, x)) = x
  BY <1>4, <1>10, <1>11, RmColonNone
<1>13. e \in Seq(C) /\ x = Cat(e, Cat(tid, r))
  <2>1. Cat(e, x) = x
    BY <1>10, TextEmpty
  <2> QED
    BY <1>9, <2>1, EmptySeq
<1> HIDE DEF C, e
<1>14. IsWord(WordOf(x, C), tid, r)
  BY <1>1, <1>3, <1>6, <1>7, <1>13, WordIs
<1>15. MessWord(x) = WordOf(x, C)
  BY <1>10, Zenon DEF MessWord, WordOf, C
<1>16. MessWord(x).word = tid /\ MessWord(x).rest = r
  BY <1>14, <1>15, WordFields
<1> QED
  BY <1>5, <1>10, <1>12, <1>16 DEF IsFirst, b, r

-----------------------------------------------------------------------------
(* WWW-Authenticate and Authorization.                                     *)

Stops  == {",", " "}
Parts  == {" ", ",", "="}
Breaks == {Quote, ",", " ", "="}

\* What the provers need to know of these characters.
LEMMA BreaksLemma ==
  /\ Breaks \subseteq STRING /\ Stops \subseteq Parts /\ Parts \subseteq Breaks
  /\ Quote \notin Parts /\ "=" \in Parts /\ "=" \notin Stops
  /\ \A c \in Breaks : c \in Tokens
  /\ Quote \in Breaks /\ "," \in Stops /\ " " \in Stops
BY MarksLemma, MarkTokens DEF Breaks, Parts, Stops, Quote, Marks, CR, LF

\* Outside of quotes, where there was no quote before, and in and behind them.
LEMMA QuotesNone ==
  ASSUME NEW s, NEW i, \A j \in 1 .. i - 1 : s[j] # Quote
  PROVE  InQuotes(s, FALSE, i) = FALSE
<1>1. {j \in 1 .. i - 1 : s[j] = Quote} = {}
  OBVIOUS
<1>2. Cardinality({j \in 1 .. i - 1 : s[j] = Quote}) = 0
  BY <1>1, FS_EmptySet
<1> DEFINE n == Cardinality({j \in 1 .. i - 1 : s[j] = Quote})
<1>3. n % 2 = 0
  BY <1>2
<1> HIDE DEF n
<1>4. InQuotes(s, FALSE, i) = ((n % 2 = 1) # FALSE)
  BY Zenon DEF InQuotes, n
<1>5. ~(n % 2 = 1)
  BY <1>3
<1> QED
  BY <1>4, <1>5, Zenon

\* Behind one quote a place is between quotes.
LEMMA QuotesOne ==
  ASSUME NEW s, NEW i \in Nat, NEW k \in 1 .. i - 1,
         \A j \in 1 .. i - 1 : s[j] = Quote <=> j = k
  PROVE  InQuotes(s, FALSE, i) = TRUE
<1> DEFINE n == Cardinality({j \in 1 .. i - 1 : s[j] = Quote})
<1>1. {j \in 1 .. i - 1 : s[j] = Quote} = {k}
  OBVIOUS
<1>2. Cardinality({k}) = 1
  BY FS_Singleton
<1>3. n = 1
  BY <1>1, <1>2, Zenon
<1> HIDE DEF n
<1>4. n % 2 = 1
  BY <1>3
<1>5. InQuotes(s, FALSE, i) = ((n % 2 = 1) # FALSE)
  BY Zenon DEF InQuotes, n
<1> QED
  BY <1>4, <1>5, Zenon

\* Behind two it is outside again.
LEMMA QuotesTwo ==
  ASSUME NEW s, NEW i \in Nat, NEW k \in 1 .. i - 1, NEW l \in 1 .. i - 1, k # l,
         \A j \in 1 .. i - 1 : s[j] = Quote <=> j = k \/ j = l
  PROVE  InQuotes(s, FALSE, i) = FALSE
<1> DEFINE n == Cardinality({j \in 1 .. i - 1 : s[j] = Quote})
<1>1. {j \in 1 .. i - 1 : s[j] = Quote} = {k} \cup {l}
  OBVIOUS
<1>2. IsFiniteSet({k}) /\ Cardinality({k}) = 1 /\ l \notin {k}
  BY FS_Singleton
<1>3. Cardinality({k} \cup {l}) = Cardinality({k}) + 1
  BY <1>2, FS_AddElement
<1>4. n = 2
  <2>1. Cardinality({k} \cup {l}) = 2
    BY <1>2, <1>3
  <2> QED
    BY <1>1, <2>1, Zenon
<1> HIDE DEF n
<1>5. ~(n % 2 = 1)
  BY <1>4
<1>6. InQuotes(s, FALSE, i) = ((n % 2 = 1) # FALSE)
  BY Zenon DEF InQuotes, n
<1> QED
  BY <1>5, <1>6, Zenon

\* Where the separators are, for GetStrAt.
Between(sep, a, b, r) ==
  /\ \A i \in 1 .. a : i \in sep
  /\ \A i \in a + 1 .. b : i \notin sep
  /\ r # <<>> => b + 1 \in sep

\* A word between separators is the one that is read.
LEMMA GetStrBetween ==
  ASSUME NEW S, NEW p \in Seq(S), NEW w \in Seq(S), NEW r \in Seq(S),
         NEW s, s = Cat(p, Cat(w, r)), NEW sep \in SUBSET (DOMAIN s), w # <<>>,
         NEW a, a = Len(p), NEW b, b = Len(p) + Len(w), Between(sep, a, b, r)
  PROVE  IsWord(GetStr(s, sep), w, r)
<1>1. \A i \in 1 .. Len(p) : i \in sep
  BY DEF Between
<1>2. \A i \in Len(p) + 1 .. Len(p) + Len(w) : i \notin sep
  BY DEF Between
<1>3. r # <<>> => Len(p) + Len(w) + 1 \in sep
  BY DEF Between
<1>4. Around(S, p, w, r, s, sep)
  BY <1>1, <1>2, <1>3, Zenon DEF Around
<1> QED
  BY <1>4, GetStrAround DEF IsWord

\* What is read of a name or a value.
IsAuthWord(x, w, r) == x.read = TRUE /\ x.word = w /\ x.rest = r

\* The separators of AuthWord, where no quote is left open.
AuthSep(s) == {i \in DOMAIN s : \/ s[i] = Quote
                                \/ s[i] \in {",", " ", "="} /\ ~InQuotes(s, FALSE, i)}

AuthQuoted(s, w) ==
  InQuotes(s, FALSE, IF w.rest = <<>> THEN Len(s) + 1 ELSE Len(s) - Len(w.rest) + 2)

\* The word is what GetStr takes.
LEMMA AuthWordIs ==
  ASSUME NEW s, NEW w, NEW r,
         IsWord(GetStr(s, AuthSep(s)), w, r)
  PROVE  /\ IsAuthWord(AuthWord(s, FALSE), w, r)
         /\ AuthWord(s, FALSE).quoted =
              InQuotes(s, FALSE, IF r = <<>> THEN Len(s) + 1 ELSE Len(s) - Len(r) + 2)
<1> DEFINE g == GetStr(s, AuthSep(s))
           a == AuthWord(s, FALSE)
<1>1. a = [read |-> g.read, word |-> g.word, rest |-> g.rest, quoted |-> AuthQuoted(s, g)]
  BY Zenon DEF AuthWord, AuthSep, AuthQuoted
<1>2. g.read = TRUE /\ g.word = w /\ g.rest = r
  BY WordFields
<1> HIDE DEF a, g
<1>3. a.read = TRUE /\ a.word = w /\ a.rest = r /\ a.quoted = AuthQuoted(s, g)
  BY <1>1, <1>2
<1>4. AuthQuoted(s, g) = InQuotes(s, FALSE, IF r = <<>> THEN Len(s) + 1 ELSE Len(s) - Len(r) + 2)
  BY <1>2, Zenon DEF AuthQuoted
<1> QED
  BY <1>3, <1>4 DEF IsAuthWord, a

\* A word without any separators.
LEMMA BareWord ==
  ASSUME NEW w \in Seq(STRING \ Breaks), w # <<>>, NEW r \in Seq(STRING), Starts(r, Breaks),
         NEW s, s = Cat(w, r)
  PROVE  /\ IsAuthWord(AuthWord(s, FALSE), w, r)
         /\ Starts(r, Stops) => AuthWord(s, FALSE).quoted = FALSE
<1> DEFINE a == Len(w)
           n == Len(s)
           e == <<>>
           sep == AuthSep(s)
<1>1. w \in Seq(STRING)
  <2>1. STRING \ Breaks \subseteq STRING
    OBVIOUS
  <2> QED
    BY <2>1, SeqMonotonic
<1>2. IsTwo(s, STRING, w, r, a)
  BY <1>1, TwoParts
<1> HIDE DEF a, n
<1>3. /\ s \in Seq(STRING) /\ a \in Nat /\ n = a + Len(r) /\ Len(r) \in Nat
      /\ DOMAIN s = 1 .. n /\ \A i \in 1 .. a : s[i] = w[i]
      /\ \A i \in 1 .. Len(r) : s[a + i] = r[i]
  BY <1>2 DEF IsTwo, n
<1>4. \A i \in 1 .. a : w[i] \notin Breaks
  BY ElementOfSeq DEF a
<1>5. \A i \in 1 .. a : s[i] \notin Breaks /\ s[i] # Quote /\ i \notin sep
  <2>1. \A i \in 1 .. a : s[i] \notin Breaks
    BY <1>3, <1>4
  <2> QED
    BY <2>1 DEF AuthSep, Breaks
<1>6. \A i \in 1 .. (a + 1) - 1 : s[i] # Quote
  BY <1>3, <1>5
<1>7. ASSUME r # <<>> PROVE 1 \in 1 .. Len(r) /\ s[a + 1] = r[1] /\ a + 1 \in 1 .. n
  <2>1. 1 \in 1 .. Len(r)
    BY <1>7, FirstPlace
  <2> QED
    BY <1>3, <2>1
<1>8. ASSUME r # <<>> PROVE a + 1 \in sep
  <2>1. s[a + 1] \in Breaks
    BY <1>7, <1>8 DEF Starts
  <2>2. InQuotes(s, FALSE, a + 1) = FALSE
    BY <1>6, QuotesNone
  <2> QED
    BY <1>3, <1>7, <1>8, <2>1, <2>2 DEF AuthSep, Breaks
<1>9. IsWord(GetStr(s, sep), w, r)
  <2> DEFINE u == Cat(w, r)
             z == Len(e)
             b == Len(e) + Len(w)
  <2>1. sep \in SUBSET (DOMAIN s)
    BY DEF AuthSep
  <2>2. e \in Seq(STRING) /\ z = 0 /\ b = a
    <3>1. Len(e) = 0 /\ e \in Seq(STRING)
      BY EmptySeq
    <3> QED
      BY <1>3, <3>1 DEF a
  <2>3. s = Cat(e, Cat(w, r))
    <3>1. u \in Seq(STRING)
      BY <1>1, TextCat
    <3> HIDE DEF u
    <3>2. Cat(e, u) = u
      BY <3>1, TextEmpty
    <3> QED
      BY <3>2 DEF u
  <2>4. Between(sep, z, b, r)
    <3>1. Between(sep, 0, a, r)
      BY <1>3, <1>5, <1>8 DEF Between
    <3> HIDE DEF z, b
    <3> QED
      BY <2>2, <3>1
  <2> HIDE DEF e, sep, u
  <2> QED
    BY <1>1, <2>1, <2>2, <2>3, <2>4, GetStrBetween
<1>10. /\ IsAuthWord(AuthWord(s, FALSE), w, r)
       /\ AuthWord(s, FALSE).quoted =
            InQuotes(s, FALSE, IF r = <<>> THEN Len(s) + 1 ELSE Len(s) - Len(r) + 2)
  BY <1>9, AuthWordIs
<1>11. ASSUME Starts(r, Stops) PROVE AuthWord(s, FALSE).quoted = FALSE
  <2> DEFINE k == IF r = <<>> THEN n + 1 ELSE n - Len(r) + 2
  <2>1. CASE r = <<>>
    <3>1. k = (a + 1)
      BY <1>3, <2>1, EmptySeq
    <3>2. InQuotes(s, FALSE, a + 1) = FALSE
      BY <1>6, QuotesNone
    <3> HIDE DEF k
    <3> QED
      BY <1>10, <3>1, <3>2 DEF k, n
  <2>2. CASE r # <<>>
    <3>1. k = a + 2
      BY <1>3, <2>2
    <3>2. s[a + 1] # Quote
      BY <1>7, <1>11, <2>2 DEF Starts, Stops, Quote
    <3>3. \A i \in 1 .. (a + 2) - 1 : s[i] # Quote
      <4>1. \A i \in 1 .. (a + 2) - 1 : i \in 1 .. a \/ i = a + 1
        BY <1>3
      <4> QED
        BY <1>5, <3>2, <4>1
    <3>4. InQuotes(s, FALSE, a + 2) = FALSE
      BY <3>3, QuotesNone
    <3> HIDE DEF k
    <3> QED
      BY <1>10, <3>1, <3>4 DEF k, n
  <2> QED
    BY <2>1, <2>2
<1> QED
  BY <1>10, <1>11

\* A place where something else stands, if there is one.
LEMMA FirstOutPlace ==
  ASSUME NEW s \in Seq(STRING), NEW B
  PROVE  FirstOut(s, B) \in 0 .. Len(s) /\ Len(s) \in Nat
<1> DEFINE n == Len(s)
           I == {i \in 1 .. n : s[i] \notin B}
<1>1. n \in Nat
  BY LenProperties
<1>2. FirstOut(s, B) = IF I # {} THEN Min(I) ELSE 0
  BY DEF FirstOut, SelectInSeq, I
<1>3. ASSUME I # {} PROVE Min(I) \in 1 .. n
  <2>1. I \in SUBSET Nat
    BY <1>1
  <2>2. I \in SUBSET (1 .. n)
    OBVIOUS
  <2> HIDE DEF I, n
  <2>3. Min(I) \in I
    BY <1>3, <2>1, MinLemma
  <2> QED
    BY <2>2, <2>3
<1>4. FirstOut(s, B) \in 0 .. n
  <2> HIDE DEF I, n
  <2>1. \A i \in 1 .. n : i \in 0 .. n
    BY <1>1
  <2>2. 0 \in 0 .. n
    BY <1>1
  <2> QED
    BY <1>2, <1>3, <2>1, <2>2
<1> QED
  BY <1>1, <1>4

\* What the parser takes is shorter than what there was.
LEMMA AuthWordType ==
  ASSUME NEW s \in Seq(STRING), NEW q
  PROVE  /\ AuthWord(s, q).word \in Seq(STRING) /\ Shorter(AuthWord(s, q).rest, s)
         /\ s # <<>> => Len(AuthWord(s, q).rest) < Len(s)
         /\ AuthWord(s, q).quoted \in BOOLEAN
<1> DEFINE sep == {i \in DOMAIN s : \/ s[i] = Quote
                                    \/ s[i] \in {",", " ", "="} /\ ~InQuotes(s, q, i)}
           w == GetStr(s, sep)
           z == InQuotes(s, q, IF w.rest = <<>> THEN Len(s) + 1 ELSE Len(s) - Len(w.rest) + 2)
           a == AuthWord(s, q)
<1>1. sep \in SUBSET (DOMAIN s)
  OBVIOUS
<1>2. a = [read |-> w.read, word |-> w.word, rest |-> w.rest, quoted |-> z]
  BY Zenon DEF AuthWord
<1>3. z \in BOOLEAN
  BY Zenon DEF InQuotes
<1> HIDE DEF a, z
<1>4. a.word = w.word /\ a.rest = w.rest /\ a.quoted = z
  BY <1>2
<1> HIDE DEF sep
<1>5. /\ w.word \in Seq(STRING) /\ Shorter(w.rest, s)
      /\ s # <<>> => Len(w.rest) < Len(s)
  BY <1>1, GetStrType
<1> QED
  BY <1>3, <1>4, <1>5 DEF a

\* What comes behind a separator is no longer than the text.
LEMMA CheckEqualType ==
  ASSUME NEW s \in Seq(STRING)
  PROVE  Shorter(CheckEqual(s).rest, s) /\ (CheckEqual(s).read => s # <<>>)
<1> DEFINE at == FirstOut(s, Parts)
           n == Len(s)
           e == \E i \in 1 .. at - 1 : s[i] = "="
           c == CheckEqual(s)
<1>1. at \in 0 .. n /\ n \in Nat
  BY FirstOutPlace
<1>2. {" ", ",", "="} = Parts
  BY DEF Parts
<1>3. c = [read |-> at # 0, equal |-> e, rest |-> IF at = 0 THEN <<>> ELSE SubSeq(s, at, n)]
  BY <1>2, Zenon DEF CheckEqual
<1> HIDE DEF at, c, e, n
<1>4. (c.read <=> at # 0) /\ c.rest = IF at = 0 THEN <<>> ELSE SubSeq(s, at, n)
  BY <1>3
<1>5. CASE at = 0
  <2>1. c.rest = <<>> /\ ~c.read
    BY <1>4, <1>5
  <2>2. <<>> \in Seq(STRING) /\ Len(<<>>) = 0
    BY EmptySeq
  <2> QED
    BY <1>1, <2>1, <2>2 DEF Shorter, c, n
<1>6. CASE at # 0
  <2> DEFINE h == at - 1
  <2>1. h \in Nat /\ h + 1 = at /\ h <= n /\ n <= Len(s)
    BY <1>1, <1>6 DEF n
  <2> HIDE DEF h
  <2>2. Part(s, h, n) \in Seq(STRING) /\ Len(Part(s, h, n)) = n - h
    BY <1>1, <2>1, PartLemma
  <2>3. c.rest = Part(s, h, n)
    BY <1>4, <1>6, <2>1 DEF Part
  <2>4. Shorter(c.rest, s)
    BY <1>1, <2>1, <2>2, <2>3 DEF Shorter, n
  <2>5. s # <<>>
    BY <1>1, <1>6, EmptySeq DEF n
  <2> QED
    BY <2>4, <2>5 DEF c
<1> QED
  BY <1>5, <1>6

\* What comes behind a closing quote is no longer, either.
LEMMA BehindType ==
  ASSUME NEW w, w.rest \in Seq(STRING)
  PROVE  Shorter(Behind(w), w.rest)
<1> DEFINE s == w.rest
<1>1. Len(s) \in Nat
  BY LenProperties
<1>2. CASE StartsWith(s, Quote)
  <2>1. s # <<>>
    BY <1>2 DEF StartsWith
  <2>2. Tail(s) \in Seq(STRING) /\ Len(Tail(s)) = Len(s) - 1
    BY <2>1, HeadTailProperties
  <2>3. Behind(w) = Tail(s)
    BY <1>2 DEF Behind
  <2> QED
    BY <1>1, <2>2, <2>3 DEF Shorter
<1>3. CASE ~StartsWith(s, Quote)
  <2>1. Behind(w) = s
    BY <1>3 DEF Behind
  <2> QED
    BY <1>1, <2>1 DEF Shorter
<1> QED
  BY <1>2, <1>3

\* The values again.
LEMMA ValuesType ==
  ASSUME NEW names, NEW h \in Values(names), NEW w, NEW v \in Seq(STRING), w \in Seq(STRING)
  PROVE  SetName(h, w) \in Values(names) /\ SetPro(h, w, v) \in Values(names)
<1>1. h.gone \in BOOLEAN /\ h.scheme \in Seq(STRING) /\ h.value \in [names -> Seq(STRING)]
      /\ h = [gone |-> h.gone, scheme |-> h.scheme, value |-> h.value]
  BY DEF Values
<1>2. [h EXCEPT !.gone = TRUE] \in Values(names) /\ [h EXCEPT !.scheme = w] \in Values(names)
  BY <1>1 DEF Values
<1>3. [h EXCEPT !.value[w[1]] = v] \in Values(names)
  BY <1>1 DEF Values
<1>4. SetName(h, w) \in Values(names)
  BY <1>2, Zenon DEF SetName
<1>5. SetPro(h, w, v) \in Values(names)
  BY <1>2, <1>3, Zenon DEF SetPro
<1> QED
  BY <1>4, <1>5

AuthState(names) == [head : Values(names), text : Seq(STRING), quoted : BOOLEAN]

\* The parser, as a function of its own.
AuthParser(names) ==
  LET prase[x \in [head : Values(names), text : Seq(STRING), quoted : BOOLEAN]] ==
        LET name  == AuthWord(x.text, x.quoted)
            eq    == CheckEqual(name.rest)
            value == AuthWord(eq.rest, FALSE)
            alone == SetName(x.head, name.word)
            set   == SetPro(x.head, name.word, value.word)
        IN  CASE x.head.gone \/ ~name.read -> x.head
              [] ~x.head.gone /\ name.read /\ ~eq.read -> alone
              [] ~x.head.gone /\ name.read /\ eq.read /\ ~eq.equal ->
                   prase[[head |-> alone, text |-> eq.rest, quoted |-> FALSE]]
              [] OTHER ->
                   IF value.read
                     THEN prase[[head |-> set, text |-> Behind(value), quoted |-> value.quoted]]
                     ELSE set
  IN  prase

\* One step of it, with f for what is left.
AuthBody(f, x) ==
  LET name  == AuthWord(x.text, x.quoted)
      eq    == CheckEqual(name.rest)
      value == AuthWord(eq.rest, FALSE)
      alone == SetName(x.head, name.word)
      set   == SetPro(x.head, name.word, value.word)
  IN  CASE x.head.gone \/ ~name.read -> x.head
        [] ~x.head.gone /\ name.read /\ ~eq.read -> alone
        [] ~x.head.gone /\ name.read /\ eq.read /\ ~eq.equal ->
             f[[head |-> alone, text |-> eq.rest, quoted |-> FALSE]]
        [] OTHER ->
             IF value.read
               THEN f[[head |-> set, text |-> Behind(value), quoted |-> value.quoted]]
               ELSE set

\* What is left after a name, and after a value.
AuthAt(h, t, q) == [head |-> h, text |-> t, quoted |-> q]

NameOf(x)  == AuthWord(x.text, x.quoted)
EqualOf(x) == CheckEqual(NameOf(x).rest)
ValueOf(x) == AuthWord(EqualOf(x).rest, FALSE)
AloneOf(x) == SetName(x.head, NameOf(x).word)
SetOf(x)   == SetPro(x.head, NameOf(x).word, ValueOf(x).word)
AfterName(x)  == AuthAt(AloneOf(x), EqualOf(x).rest, FALSE)
AfterValue(x) == AuthAt(SetOf(x), Behind(ValueOf(x)), ValueOf(x).quoted)

\* The step in these words.
AuthTaken(f, x) ==
  CASE x.head.gone \/ ~NameOf(x).read -> x.head
    [] ~x.head.gone /\ NameOf(x).read /\ ~EqualOf(x).read -> AloneOf(x)
    [] ~x.head.gone /\ NameOf(x).read /\ EqualOf(x).read /\ ~EqualOf(x).equal -> f[AfterName(x)]
    [] OTHER -> IF ValueOf(x).read THEN f[AfterValue(x)] ELSE SetOf(x)

\* It is the same.
LEMMA AuthBodyIs == \A f, x : AuthBody(f, x) = AuthTaken(f, x)
BY Zenon DEF AuthBody, AuthTaken, NameOf, EqualOf, ValueOf, AloneOf, SetOf, AfterName, AfterValue,
             AuthAt

\* The four cases of it.
IsTaken(t, f, x) ==
  /\ x.head.gone \/ ~NameOf(x).read => t = x.head
  /\ ~x.head.gone /\ NameOf(x).read /\ ~EqualOf(x).read => t = AloneOf(x)
  /\ ~x.head.gone /\ NameOf(x).read /\ EqualOf(x).read /\ ~EqualOf(x).equal => t = f[AfterName(x)]
  /\ ~x.head.gone /\ NameOf(x).read /\ EqualOf(x).read /\ EqualOf(x).equal =>
       t = IF ValueOf(x).read THEN f[AfterValue(x)] ELSE SetOf(x)

\* The parser takes one of them.
LEMMA TakenIs == \A f, x : IsTaken(AuthTaken(f, x), f, x)
<1> SUFFICES ASSUME NEW f, NEW x PROVE IsTaken(AuthTaken(f, x), f, x)
  OBVIOUS
<1> DEFINE a == x.head.gone
           b == NameOf(x).read
           c == EqualOf(x).read
           d == EqualOf(x).equal
           v == IF ValueOf(x).read THEN f[AfterValue(x)] ELSE SetOf(x)
<1>1. CASE a \/ ~b
  BY <1>1 DEF AuthTaken, IsTaken
<1>2. CASE ~a /\ b /\ ~c
  BY <1>2 DEF AuthTaken, IsTaken
<1>3. CASE ~a /\ b /\ c /\ ~d
  BY <1>3 DEF AuthTaken, IsTaken
<1>4. CASE ~a /\ b /\ c /\ d
  BY <1>4 DEF AuthTaken, IsTaken
<1> QED
  BY <1>1, <1>2, <1>3, <1>4

\* What is left is shorter.
LEMMA AuthShorter ==
  ASSUME NEW names, NEW x \in AuthState(names)
  PROVE  /\ x.head \in Values(names) /\ AloneOf(x) \in Values(names) /\ SetOf(x) \in Values(names)
         /\ AfterName(x) \in AuthState(names) /\ AfterValue(x) \in AuthState(names)
         /\ EqualOf(x).read => /\ Len(AfterName(x).text) < Len(x.text)
                               /\ Len(AfterValue(x).text) < Len(x.text)
<1>1. x.head \in Values(names) /\ x.text \in Seq(STRING) /\ x.quoted \in BOOLEAN
  BY DEF AuthState
<1> DEFINE name == NameOf(x)
           eq == EqualOf(x)
           value == ValueOf(x)
           alone == AloneOf(x)
           set == SetOf(x)
           left == Behind(value)
<1>2. /\ name.word \in Seq(STRING) /\ Shorter(name.rest, x.text)
      /\ x.text # <<>> => Len(name.rest) < Len(x.text)
  BY <1>1, AuthWordType DEF NameOf
<1>3. Shorter(eq.rest, name.rest) /\ (eq.read => name.rest # <<>>)
  <2>1. name.rest \in Seq(STRING)
    BY <1>2 DEF Shorter
  <2> HIDE DEF name
  <2> QED
    BY <2>1, CheckEqualType DEF EqualOf, name
<1>4. value.word \in Seq(STRING) /\ Shorter(value.rest, eq.rest) /\ value.quoted \in BOOLEAN
  <2>1. eq.rest \in Seq(STRING)
    BY <1>3 DEF Shorter
  <2> HIDE DEF eq
  <2> QED
    BY <2>1, AuthWordType DEF ValueOf, eq
<1>5. Shorter(left, value.rest)
  <2>1. value.rest \in Seq(STRING)
    BY <1>4 DEF Shorter
  <2> HIDE DEF value
  <2> QED
    BY <2>1, BehindType
<1>6. alone \in Values(names) /\ set \in Values(names)
  BY <1>1, <1>2, <1>4, ValuesType DEF AloneOf, SetOf
<1> HIDE DEF name, eq, value, alone, set, left
<1>7. AfterName(x) = [head |-> alone, text |-> eq.rest, quoted |-> FALSE]
  BY Zenon DEF AfterName, AuthAt, alone, eq
<1>8. AfterValue(x) = [head |-> set, text |-> left, quoted |-> value.quoted]
  BY Zenon DEF AfterValue, AuthAt, set, left, value
<1>9. /\ AfterName(x) \in AuthState(names) /\ AfterValue(x) \in AuthState(names)
      /\ AfterName(x).text = eq.rest /\ AfterValue(x).text = left
  BY <1>3, <1>4, <1>5, <1>6, <1>7, <1>8 DEF AuthState, Shorter
<1>10. ASSUME eq.read PROVE Len(eq.rest) < Len(x.text) /\ Len(left) < Len(x.text)
  <2>1. /\ Len(x.text) \in Nat /\ Len(name.rest) \in Nat /\ Len(eq.rest) \in Nat
        /\ Len(value.rest) \in Nat /\ Len(left) \in Nat
    BY <1>1, <1>2, <1>3, <1>4, <1>5, LenProperties DEF Shorter
  <2>2. /\ Len(name.rest) <= Len(x.text) /\ Len(eq.rest) <= Len(name.rest)
        /\ Len(value.rest) <= Len(eq.rest) /\ Len(left) <= Len(value.rest)
    BY <1>2, <1>3, <1>4, <1>5 DEF Shorter
  <2>3. Len(name.rest) # 0
    <3>1. name.rest \in Seq(STRING) /\ name.rest # <<>>
      BY <1>2, <1>3, <1>10 DEF Shorter
    <3> QED
      BY <3>1, EmptySeq
  <2>4. x.text # <<>>
    BY <2>1, <2>2, <2>3, EmptySeq
  <2>5. Len(name.rest) < Len(x.text)
    BY <1>2, <2>4
  <2> QED
    BY <2>1, <2>2, <2>5
<1> QED
  BY <1>1, <1>6, <1>9, <1>10 DEF eq, alone, set

\* The parser takes one name or value after the other.
LEMMA AuthParserDef ==
  ASSUME NEW names
  PROVE  \A x \in AuthState(names) : AuthParser(names)[x] = AuthTaken(AuthParser(names), x)
<1> DEFINE X == AuthState(names)
           Y == Values(names)
           F == [f \in [X -> Y] |-> [x \in X |-> AuthBody(f, x)]]
           measure == [x \in X |-> Len(x.text)]
           P == AuthParser(names)
<1>1. Y # {}
  <2>1. <<>> \in Seq(STRING)
    BY EmptySeq
  <2> DEFINE h == [gone |-> FALSE, scheme |-> <<>>, value |-> [n \in names |-> <<>>]]
  <2>2. h \in Values(names)
    BY <2>1 DEF Values
  <2> QED
    BY <2>2
<1>2. measure \in [X -> Nat]
  <2>1. \A x \in X : Len(x.text) \in Nat
    BY LenProperties DEF AuthState
  <2> QED
    BY <2>1
<1>3. \A f \in [X -> Y], x \in X : AuthBody(f, x) \in Y
  <2> SUFFICES ASSUME NEW f \in [X -> Y], NEW x \in X PROVE AuthTaken(f, x) \in Y
    BY AuthBodyIs
  <2>1. /\ x.head \in Y /\ AloneOf(x) \in Y /\ SetOf(x) \in Y
        /\ AfterName(x) \in X /\ AfterValue(x) \in X
    BY AuthShorter
  <2> HIDE DEF X, Y
  <2>2. f[AfterName(x)] \in Y /\ f[AfterValue(x)] \in Y
    BY <2>1
  <2> DEFINE p == f[AfterName(x)]
             q == f[AfterValue(x)]
  <2> HIDE DEF p, q
  <2>3. p \in Y /\ q \in Y
    BY <2>2 DEF p, q
  <2>4. AuthTaken(f, x) \in {x.head, AloneOf(x), SetOf(x), p, q}
    BY DEF AuthTaken, p, q
  <2> QED
    BY <2>1, <2>3, <2>4
<1>4. F \in [[X -> Y] -> [X -> Y]]
  <2> HIDE DEF X, Y
  <2> QED
    BY <1>3
<1>5. Local(F, X, Y, measure)
  <2> SUFFICES ASSUME NEW f \in [X -> Y], NEW g \in [X -> Y], NEW x \in X,
                      \A y \in X : measure[y] < measure[x] => f[y] = g[y]
               PROVE  F[f][x] = F[g][x]
    BY DEF Local
  <2>1. F[f][x] = AuthBody(f, x) /\ F[g][x] = AuthBody(g, x)
    <3> HIDE DEF X, Y
    <3> QED
      OBVIOUS
  <2>2. F[f][x] = AuthTaken(f, x) /\ F[g][x] = AuthTaken(g, x)
    BY <2>1, AuthBodyIs
  <2>3. /\ AfterName(x) \in X /\ AfterValue(x) \in X
        /\ EqualOf(x).read => /\ measure[AfterName(x)] < measure[x]
                              /\ measure[AfterValue(x)] < measure[x]
    BY AuthShorter
  <2> HIDE DEF X, Y, F, measure
  <2>4. EqualOf(x).read => f[AfterName(x)] = g[AfterName(x)] /\ f[AfterValue(x)] = g[AfterValue(x)]
    BY <2>3
  <2>5. IsTaken(AuthTaken(f, x), f, x) /\ IsTaken(AuthTaken(g, x), g, x)
    BY TakenIs
  <2>6. AuthTaken(f, x) = AuthTaken(g, x)
    BY <2>4, <2>5 DEF IsTaken
  <2> QED
    BY <2>2, <2>6
<1> HIDE DEF X, Y, F, measure
<1>6. \E f \in [X -> Y] : F[f] = f
  <2>1. IsRecursion(F, X, Y, measure)
    BY <1>1, <1>2, <1>4, <1>5 DEF IsRecursion
  <2>2. HasFixpoint(F, X, Y)
    BY <2>1, Recursion
  <2> QED
    BY <2>2 DEF HasFixpoint
<1>7. \E f : f = [x \in X |-> AuthBody(f, x)]
  <2>1. PICK f \in [X -> Y] : F[f] = f
    BY <1>6
  <2>2. F[f] = [x \in X |-> AuthBody(f, x)]
    <3> HIDE DEF X
    <3> QED
      BY <2>1 DEF F
  <2> QED
    BY <2>1, <2>2
<1>8. P = CHOOSE f : f = [x \in X |-> AuthBody(f, x)]
  BY Zenon DEF AuthParser, AuthBody, X, AuthState
<1> HIDE DEF P
<1>9. P = [x \in X |-> AuthBody(P, x)]
  BY <1>7, <1>8, Zenon
<1>10. \A x \in X : P[x] = AuthBody(P, x)
  BY <1>9, Zenon
<1> QED
  BY <1>10, AuthBodyIs, Zenon DEF X, P

\* It is the parser.
LEMMA AuthPraseIs ==
  \A names, t : AuthCommonPrase(names, t) = AuthParser(names)[AuthAt(NoValues(names), t, FALSE)]
BY Zenon DEF AuthCommonPrase, AuthParser, AuthAt

\* A word behind separators.
LEMMA NameWord ==
  ASSUME NEW p \in Seq(Stops), NEW w \in Seq(STRING \ Breaks), w # <<>>,
         NEW r \in Seq(STRING), Starts(r, Breaks), NEW s, s = Cat(p, Cat(w, r))
  PROVE  IsAuthWord(AuthWord(s, FALSE), w, r)
<1> DEFINE a == Len(p)
           b == Len(p) + Len(w)
           sep == AuthSep(s)
<1>1. w \in Seq(STRING) /\ p \in Seq(STRING)
  <2>1. STRING \ Breaks \subseteq STRING /\ Stops \subseteq STRING
    BY BreaksLemma
  <2> QED
    BY <2>1, SeqMonotonic
<1>2. IsThree(s, STRING, p, w, r, a, b)
  BY <1>1, ThreeParts
<1>3. \A i \in 1 .. a : p[i] \in Stops
  BY ElementOfSeq
<1>4. \A i \in 1 .. Len(w) : w[i] \notin Breaks
  BY ElementOfSeq
<1>5. b - a = Len(w)
  <2>1. Len(p) \in Nat /\ Len(w) \in Nat
    BY LenProperties
  <2> QED
    BY <2>1
<1> HIDE DEF a, b
<1>6. /\ s \in Seq(STRING) /\ a \in Nat /\ b \in Nat /\ a <= b /\ b <= Len(s)
      /\ Len(s) = b + Len(r) /\ Len(s) \in Nat /\ DOMAIN s = 1 .. Len(s)
      /\ \A i \in 1 .. a : s[i] = p[i]
      /\ \A i \in 1 .. b - a : s[a + i] = w[i]
      /\ \A i \in 1 .. Len(r) : s[b + i] = r[i]
  BY <1>2 DEF IsThree
<1>7. \A i \in 1 .. a : s[i] \in Stops
  BY <1>3, <1>6
<1>8. \A i \in a + 1 .. b : s[i] \notin Breaks
  <2> SUFFICES ASSUME NEW i \in a + 1 .. b PROVE s[i] \notin Breaks
    OBVIOUS
  <2> DEFINE j == i - a
  <2>1. j \in 1 .. b - a /\ a + j = i
    BY <1>6
  <2> HIDE DEF j
  <2> QED
    BY <1>4, <1>5, <1>6, <2>1
<1>9. Quote \notin Stops /\ Stops \subseteq {",", " ", "="} /\ Quote \in Breaks
      /\ Breaks = {",", " ", "="} \cup {Quote}
  BY DEF Stops, Breaks, Quote
<1>10. \A i \in 1 .. b : s[i] # Quote
  <2>1. \A i \in 1 .. b : i \in 1 .. a \/ i \in a + 1 .. b
    BY <1>6
  <2> QED
    BY <1>7, <1>8, <1>9, <2>1
<1>11. \A i \in 1 .. b + 1 : InQuotes(s, FALSE, i) = FALSE
  <2> SUFFICES ASSUME NEW i \in 1 .. b + 1 PROVE InQuotes(s, FALSE, i) = FALSE
    OBVIOUS
  <2>1. \A j \in 1 .. i - 1 : j \in 1 .. b
    BY <1>6
  <2>2. \A j \in 1 .. i - 1 : s[j] # Quote
    BY <1>10, <2>1
  <2> QED
    BY <2>2, QuotesNone
<1>12. \A i \in 1 .. a : i \in sep
  <2> SUFFICES ASSUME NEW i \in 1 .. a PROVE i \in sep
    OBVIOUS
  <2>1. i \in 1 .. Len(s) /\ i \in 1 .. b + 1
    BY <1>6
  <2>2. InQuotes(s, FALSE, i) = FALSE
    BY <1>11, <2>1
  <2>3. s[i] \in {",", " ", "="}
    BY <1>7, <1>9
  <2> QED
    BY <1>6, <2>1, <2>2, <2>3 DEF AuthSep
<1>13. \A i \in a + 1 .. b : i \notin sep
  BY <1>8, <1>9 DEF AuthSep
<1>14. ASSUME r # <<>> PROVE b + 1 \in sep
  <2>1. 1 \in 1 .. Len(r) /\ r[1] \in Breaks
    BY <1>14, FirstPlace DEF Starts
  <2>2. s[b + 1] = r[1] /\ b + 1 \in 1 .. Len(s) /\ b + 1 \in 1 .. b + 1
    BY <1>6, <2>1
  <2>3. InQuotes(s, FALSE, b + 1) = FALSE
    BY <1>11, <2>2
  <2> QED
    BY <1>6, <1>9, <2>1, <2>2, <2>3 DEF AuthSep
<1>15. Between(sep, a, b, r)
  BY <1>12, <1>13, <1>14 DEF Between
<1>16. sep \in SUBSET (DOMAIN s)
  BY DEF AuthSep
<1> HIDE DEF sep
<1>17. IsWord(GetStr(s, sep), w, r)
  BY <1>1, <1>15, <1>16, GetStrBetween DEF a, b
<1> QED
  BY <1>17, AuthWordIs DEF sep

\* Separators alone are no word.
LEMMA NoWord ==
  ASSUME NEW p \in Seq(Stops), p # <<>>
  PROVE  AuthWord(p, FALSE).read = FALSE
<1> DEFINE sep == AuthSep(p)
           g == GetStr(p, sep)
           a == AuthWord(p, FALSE)
<1>1. Len(p) \in Nat /\ DOMAIN p = 1 .. Len(p) /\ \A i \in 1 .. Len(p) : p[i] \in Stops
  BY LenProperties, ElementOfSeq
<1>2. \A i \in 1 .. Len(p) : p[i] # Quote /\ p[i] \in {",", " ", "="}
  BY <1>1 DEF Stops, Quote
<1>3. \A i \in 1 .. Len(p) : InQuotes(p, FALSE, i) = FALSE
  <2> SUFFICES ASSUME NEW i \in 1 .. Len(p) PROVE InQuotes(p, FALSE, i) = FALSE
    OBVIOUS
  <2>1. \A j \in 1 .. i - 1 : j \in 1 .. Len(p)
    BY <1>1
  <2>2. \A j \in 1 .. i - 1 : p[j] # Quote
    BY <1>2, <2>1
  <2> QED
    BY <2>2, QuotesNone
<1>4. DOMAIN p \subseteq sep
  BY <1>1, <1>2, <1>3 DEF AuthSep
<1> HIDE DEF sep
<1>5. g = None
  BY <1>4 DEF GetStr
<1> HIDE DEF g
<1>6. g.read = FALSE
  BY <1>5 DEF None
<1>7. a = [read |-> g.read, word |-> g.word, rest |-> g.rest, quoted |-> AuthQuoted(p, g)]
  BY Zenon DEF AuthWord, AuthSep, AuthQuoted, g, sep
<1> HIDE DEF a
<1>8. a.read = g.read
  BY <1>7
<1> QED
  BY <1>6, <1>8, Zenon DEF a

\* What comes behind a name, and whether it is a value.
IsEqual(c, e, z) == c.read = TRUE /\ c.equal = e /\ c.rest = z

\* Between a name and what follows there is a '=' or none.
LEMMA EqualIs ==
  ASSUME NEW q \in Seq(Parts), NEW z \in Seq(STRING), z # <<>>, z[1] \notin Parts,
         NEW s, s = Cat(q, z)
  PROVE  /\ (\A i \in 1 .. Len(q) : q[i] # "=") => IsEqual(CheckEqual(s), FALSE, z)
         /\ (\E i \in 1 .. Len(q) : q[i] = "=") => IsEqual(CheckEqual(s), TRUE, z)
<1> DEFINE from == Len(q) + 1
           at == FirstOut(s, Parts)
           c == CheckEqual(s)
           a == Len(q)
           e == \E i \in 1 .. at - 1 : s[i] = "="
<1>1. q \in Seq(STRING) /\ \A i \in 1 .. Len(q) : q[i] \in Parts
  <2>1. Parts \subseteq STRING
    BY BreaksLemma
  <2> QED
    BY <2>1, SeqMonotonic, ElementOfSeq
<1>2. IsFirstOut(s, Parts, z, from)
  BY <1>1, FirstOutIs
<1>3. at = from /\ SubSeq(s, at, Len(s)) = z /\ at # 0
  <2> HIDE DEF from
  <2> QED
    BY <1>2 DEF IsFirstOut
<1>4. IsTwo(s, STRING, q, z, a)
  BY <1>1, TwoParts
<1>5. a \in Nat /\ from = a + 1
  BY <1>1, LenProperties
<1> HIDE DEF a, from, at
<1>6. \A i \in 1 .. a : s[i] = q[i]
  BY <1>4 DEF IsTwo
<1>7. at - 1 = a
  BY <1>3, <1>5
<1>8. e <=> \E i \in 1 .. a : q[i] = "="
  BY <1>6, <1>7
<1>9. {" ", ",", "="} = Parts
  BY DEF Parts
<1>10. c = [read |-> at # 0, equal |-> e, rest |-> IF at = 0 THEN <<>> ELSE SubSeq(s, at, Len(s))]
  BY <1>9, Zenon DEF CheckEqual, at
<1> HIDE DEF c, e
<1>11. (c.read <=> at # 0) /\ (c.equal <=> e) /\ c.rest = z
  BY <1>3, <1>10
<1>12. c.read \in BOOLEAN /\ c.equal \in BOOLEAN
  <2>1. e \in BOOLEAN
    BY Zenon DEF e
  <2> QED
    BY <1>10, <2>1
<1>13. c.read = TRUE
  BY <1>3, <1>11, <1>12
<1>14. ASSUME \A i \in 1 .. a : q[i] # "=" PROVE c.equal = FALSE
  BY <1>8, <1>11, <1>12, <1>14
<1>15. ASSUME \E i \in 1 .. a : q[i] = "=" PROVE c.equal = TRUE
  BY <1>8, <1>11, <1>12, <1>15
<1> QED
  BY <1>11, <1>13, <1>14, <1>15 DEF IsEqual, c, a

\* Nothing comes behind it.
LEMMA EqualNone ==
  ASSUME NEW q \in Seq(Parts)
  PROVE  CheckEqual(q).read = FALSE
<1> DEFINE at == FirstOut(q, Parts)
           c == CheckEqual(q)
           e == \E i \in 1 .. at - 1 : q[i] = "="
<1>1. \A i \in 1 .. Len(q) : q[i] \in Parts
  BY ElementOfSeq
<1>2. {i \in 1 .. Len(q) : q[i] \notin Parts} = {}
  BY <1>1
<1>3. at = 0
  BY <1>2, Zenon DEF FirstOut, SelectInSeq
<1>4. {" ", ",", "="} = Parts
  BY DEF Parts
<1>5. c = [read |-> at # 0, equal |-> e, rest |-> IF at = 0 THEN <<>> ELSE SubSeq(q, at, Len(q))]
  BY <1>4, Zenon DEF CheckEqual
<1> HIDE DEF at, c, e
<1>6. c.read = (at # 0)
  BY <1>5
<1>7. c.read = FALSE
  BY <1>3, <1>6
<1> QED
  BY <1>7, Zenon DEF c

\* Between quotes is one word, whatever it has in it.
LEMMA QuotedWord ==
  ASSUME NEW v \in Seq(STRING \ {Quote}), v # <<>>, NEW r \in Seq(STRING),
         NEW t, t = Cat(<<Quote>>, r), NEW s, s = Cat(<<Quote>>, Cat(v, t))
  PROVE  IsAuthWord(AuthWord(s, FALSE), v, t) /\ AuthWord(s, FALSE).quoted = FALSE
<1> DEFINE p == <<Quote>>
           a == Len(p)
           b == Len(p) + Len(v)
           sep == AuthSep(s)
<1>1. p \in Seq(STRING) /\ a = 1 /\ p[1] = Quote /\ p # <<>>
  BY BreaksLemma, OneElement
<1>2. v \in Seq(STRING) /\ \A i \in 1 .. Len(v) : v[i] # Quote
  <2>1. STRING \ {Quote} \subseteq STRING
    OBVIOUS
  <2> QED
    BY <2>1, SeqMonotonic, ElementOfSeq
<1> HIDE DEF p
<1>3. t = Cat(p, r) /\ s = Cat(p, Cat(v, t))
  BY DEF p
<1>4. t \in Seq(STRING) /\ t # <<>> /\ t[1] = Quote
  <2> DEFINE M == {Quote}
             u == Cat(p, r)
  <2>1. Starts(p, M)
    BY <1>1 DEF Starts
  <2> HIDE DEF M
  <2>2. u \in Seq(STRING) /\ u # <<>> /\ u[1] = Quote
    BY <1>1, <2>1, StartsCat
  <2> QED
    BY <1>3, <2>2
<1>5. b = a + Len(v) /\ Len(v) \in Nat /\ b - a = Len(v) /\ a = 1
  BY <1>1, <1>2, LenProperties
<1>6. IsThree(s, STRING, p, v, t, a, b)
  BY <1>1, <1>2, <1>3, <1>4, ThreeParts
<1> HIDE DEF a, b
<1>7. /\ s \in Seq(STRING) /\ a \in Nat /\ b \in Nat /\ a <= b /\ b <= Len(s)
      /\ Len(s) = b + Len(t) /\ Len(s) \in Nat /\ DOMAIN s = 1 .. Len(s)
      /\ \A i \in 1 .. a : s[i] = p[i]
      /\ \A i \in 1 .. b - a : s[a + i] = v[i]
      /\ \A i \in 1 .. Len(t) : s[b + i] = t[i]
  BY <1>6 DEF IsThree
<1>8. Len(t) \in Nat /\ 1 \in 1 .. Len(t)
  BY <1>4, FirstPlace
<1>9. s[1] = Quote /\ s[b + 1] = Quote /\ b + 1 \in 1 .. Len(s) /\ 1 \in 1 .. Len(s)
  <2>1. 1 \in 1 .. a
    BY <1>5
  <2>2. s[1] = p[1] /\ s[b + 1] = t[1]
    BY <1>7, <1>8, <2>1
  <2>3. b + 1 \in 1 .. Len(s) /\ 1 \in 1 .. Len(s)
    <3>1. b \in Nat /\ Len(t) \in Nat /\ Len(s) = b + Len(t) /\ 1 <= Len(t)
      BY <1>7, <1>8
    <3> QED
      BY <3>1
  <2> QED
    BY <1>1, <1>4, <2>2, <2>3, Zenon
<1>10. \A i \in 2 .. b : s[i] # Quote
  <2> SUFFICES ASSUME NEW i \in 2 .. b PROVE s[i] # Quote
    OBVIOUS
  <2> DEFINE j == i - a
  <2>1. j \in 1 .. b - a /\ a + j = i
    BY <1>5, <1>7
  <2> HIDE DEF j
  <2> QED
    BY <1>2, <1>5, <1>7, <2>1
<1>11. \A i \in 2 .. b : InQuotes(s, FALSE, i) = TRUE
  <2> SUFFICES ASSUME NEW i \in 2 .. b PROVE InQuotes(s, FALSE, i) = TRUE
    OBVIOUS
  <2>1. \A j \in 1 .. i - 1 : j = 1 \/ j \in 2 .. b
    BY <1>7
  <2>2. \A j \in 1 .. i - 1 : s[j] = Quote <=> j = 1
    BY <1>9, <1>10, <2>1
  <2>3. i \in Nat /\ 1 \in 1 .. i - 1
    BY <1>7
  <2> QED
    BY <2>2, <2>3, QuotesOne
<1>12. InQuotes(s, FALSE, b + 2) = FALSE
  <2> DEFINE i == b + 2
             l == b + 1
  <2>1. i \in Nat /\ 1 \in 1 .. i - 1 /\ l \in 1 .. i - 1 /\ 1 # l
    BY <1>5, <1>7, <1>1
  <2>2. \A j \in 1 .. i - 1 : j = 1 \/ j \in 2 .. b \/ j = l
    BY <1>7
  <2>3. \A j \in 1 .. i - 1 : s[j] = Quote <=> j = 1 \/ j = l
    <3> HIDE DEF i
    <3>1. s[l] = Quote
      BY <1>9
    <3> HIDE DEF l
    <3> QED
      BY <1>9, <1>10, <2>2, <3>1
  <2> HIDE DEF i, l
  <2>4. InQuotes(s, FALSE, i) = FALSE
    BY <2>1, <2>3, QuotesTwo
  <2> QED
    BY <2>4 DEF i
<1>13. Between(sep, a, b, t)
  <2>1. \A i \in 1 .. a : i = 1
    BY <1>5
  <2>2. 1 \in sep /\ b + 1 \in sep
    BY <1>7, <1>9 DEF AuthSep
  <2>3. \A i \in a + 1 .. b : i \in 2 .. b
    BY <1>5
  <2>4. \A i \in 2 .. b : i \notin sep
    BY <1>10, <1>11 DEF AuthSep
  <2> HIDE DEF sep
  <2> QED
    BY <2>1, <2>2, <2>3, <2>4 DEF Between
<1>14. sep \in SUBSET (DOMAIN s)
  BY DEF AuthSep
<1> HIDE DEF sep
<1>15. IsWord(GetStr(s, sep), v, t)
  BY <1>1, <1>2, <1>3, <1>4, <1>13, <1>14, GetStrBetween DEF a, b
<1>16. /\ IsAuthWord(AuthWord(s, FALSE), v, t)
       /\ AuthWord(s, FALSE).quoted =
            InQuotes(s, FALSE, IF t = <<>> THEN Len(s) + 1 ELSE Len(s) - Len(t) + 2)
  BY <1>15, AuthWordIs DEF sep
<1>17. (IF t = <<>> THEN Len(s) + 1 ELSE Len(s) - Len(t) + 2) = b + 2
  <2>1. b \in Nat /\ Len(t) \in Nat /\ Len(s) = b + Len(t)
    BY <1>7, <1>8
  <2>2. Len(s) - Len(t) + 2 = b + 2
    BY <2>1
  <2> QED
    BY <1>4, <2>2, Zenon
<1> QED
  BY <1>12, <1>16, <1>17

\* The quote behind it is passed over.
LEMMA BehindQuote ==
  ASSUME NEW r \in Seq(STRING), NEW w, w.rest = Cat(<<Quote>>, r)
  PROVE  Behind(w) = r
<1> DEFINE t == w.rest
           p == <<Quote>>
<1>1. p \in Seq(STRING) /\ p # <<>> /\ p[1] = Quote /\ Len(p) = 1
  BY BreaksLemma, OneElement
<1> HIDE DEF p
<1>2. t = Cat(p, r)
  BY DEF p
<1>3. t # <<>> /\ t[1] = Quote /\ t \in Seq(STRING)
  <2> DEFINE M == {Quote}
             u == Cat(p, r)
  <2>1. Starts(p, M)
    BY <1>1 DEF Starts
  <2> HIDE DEF M
  <2>2. u \in Seq(STRING) /\ u # <<>> /\ u[1] = Quote
    BY <1>1, <2>1, StartsCat
  <2> QED
    BY <1>2, <2>2
<1>4. Behind(w) = Tail(t)
  BY <1>3 DEF Behind, StartsWith
<1>5. IsTwo(t, STRING, p, r, 1)
  <2> DEFINE a == Len(p)
  <2>1. IsTwo(t, STRING, p, r, a)
    <3> HIDE DEF a, t
    <3> QED
      BY <1>1, <1>2, TwoParts DEF a
  <2> QED
    BY <1>1, <2>1
<1>6. Part(t, 1, Len(t)) = r
  BY <1>5 DEF IsTwo
<1>7. Tail(t) = SubSeq(t, 2, Len(t))
  BY <1>3, TailIsSubSeq
<1>8. SubSeq(t, 2, Len(t)) = Part(t, 1, Len(t))
  <2>1. 1 + 1 = 2
    OBVIOUS
  <2> QED
    BY <2>1 DEF Part
<1> QED
  BY <1>4, <1>6, <1>7, <1>8

\* What the parser makes of the text t when it has h before.
Reads(names, t, h) == AuthParser(names)[AuthAt(h, t, FALSE)]

Live(names, h) == h \in Values(names) /\ h.gone = FALSE

\* What the provers need to know of the names.
Known(names) ==
  /\ \A n \in names : n \in STRING \ Breaks /\ n \in STRING /\ n \in Tokens
  /\ CR \notin names /\ "Digest" \notin names

\* The names of both headers are known.
LEMMA KnownNames == Known(Www) /\ Known(Auth)
<1>1. \A n \in Www \cup Auth : n \in STRING
  BY WrittenAssumption DEF Written
<1>2. \A n \in Www \cup Auth : n \notin Breaks
  BY DEF Www, Auth, Breaks, Quote
<1>3. \A n \in Www \cup Auth : n # CR /\ n # LF /\ n # "Digest"
  BY DEF Www, Auth, CR, LF
<1>4. \A n \in Www \cup Auth : n \in Tokens
  BY <1>1, <1>3 DEF Tokens
<1>5. Www \subseteq Www \cup Auth /\ Auth \subseteq Www \cup Auth
  OBVIOUS
<1> DEFINE W == Www \cup Auth
<1> HIDE DEF W
<1>6. \A n \in W : n \in STRING \ Breaks /\ n \in STRING /\ n \in Tokens /\ n # CR /\ n # "Digest"
  BY <1>1, <1>2, <1>3, <1>4 DEF W
<1>7. Www \subseteq W /\ Auth \subseteq W
  BY <1>5 DEF W
<1> QED
  BY <1>6, <1>7 DEF Known

\* What comes of the first name.
IsStart(names, h, t, x) ==
  /\ x.head = h /\ x.head.gone = FALSE /\ x \in AuthState(names)
  /\ NameOf(x) = AuthWord(t, FALSE)
  /\ IsTaken(Reads(names, t, h), AuthParser(names), x)

\* The parser begins so.
LEMMA ReadsStep ==
  ASSUME NEW names, NEW h, Live(names, h), NEW t \in Seq(STRING)
  PROVE  IsStart(names, h, t, AuthAt(h, t, FALSE))
<1> DEFINE x == AuthAt(h, t, FALSE)
<1>1. x = [head |-> h, text |-> t, quoted |-> FALSE]
  BY Zenon DEF AuthAt
<1>2. h \in Values(names) /\ h.gone = FALSE
  BY DEF Live
<1> DEFINE H == Values(names)
<1> HIDE DEF x, H
<1>3. x.head = h /\ x.text = t /\ x.quoted = FALSE
  BY <1>1
<1>4. x \in [head : H, text : Seq(STRING), quoted : BOOLEAN]
  BY <1>1, <1>2 DEF H
<1>5. x \in AuthState(names)
  BY <1>4, Zenon DEF AuthState, H
<1>6. NameOf(x) = AuthWord(t, FALSE)
  BY <1>3, Zenon DEF NameOf
<1>7. Reads(names, t, h) = AuthParser(names)[x]
  BY Zenon DEF Reads, x
<1>8. AuthParser(names)[x] = AuthTaken(AuthParser(names), x)
  BY <1>5, AuthParserDef
<1>9. IsTaken(AuthTaken(AuthParser(names), x), AuthParser(names), x)
  BY TakenIs
<1>10. IsTaken(Reads(names, t, h), AuthParser(names), x)
  BY <1>7, <1>8, <1>9
<1> QED
  BY <1>2, <1>3, <1>5, <1>6, <1>10 DEF IsStart, x

\* A name with nothing behind it.
LEMMA ReadsAlone ==
  ASSUME NEW names, NEW h, Live(names, h), NEW t \in Seq(STRING), NEW w, NEW r,
         IsAuthWord(AuthWord(t, FALSE), w, r), CheckEqual(r).read = FALSE
  PROVE  Reads(names, t, h) = SetName(h, w)
<1> DEFINE x == AuthAt(h, t, FALSE)
<1>0. IsStart(names, h, t, x)
  BY ReadsStep
<1> HIDE DEF x
<1>1. /\ x.head = h /\ x.head.gone = FALSE /\ NameOf(x) = AuthWord(t, FALSE)
      /\ IsTaken(Reads(names, t, h), AuthParser(names), x)
  BY <1>0 DEF IsStart
<1>2. NameOf(x).read = TRUE /\ NameOf(x).word = w /\ NameOf(x).rest = r
  BY <1>1 DEF IsAuthWord
<1>3. EqualOf(x).read = FALSE /\ AloneOf(x) = SetName(h, w)
  BY <1>1, <1>2 DEF EqualOf, AloneOf
<1> QED
  BY <1>1, <1>2, <1>3 DEF IsTaken

\* The first word of a text is w, and what is behind it is or is not a value.
NamedAt(t, w, r)     == IsAuthWord(AuthWord(t, FALSE), w, r)
OtherAt(r, z)        == IsEqual(CheckEqual(r), FALSE, z)
ValueAt(r, z)        == IsEqual(CheckEqual(r), TRUE, z)
ReadAs(z, v, u, y)   ==
  /\ IsAuthWord(AuthWord(z, FALSE), v, u) /\ AuthWord(z, FALSE).quoted = FALSE
  /\ Behind(AuthWord(z, FALSE)) = y

\* A name with another behind it.
LEMMA ReadsName ==
  ASSUME NEW names, NEW h, Live(names, h), NEW t \in Seq(STRING), NEW w, NEW r, NEW z,
         NamedAt(t, w, r), OtherAt(r, z)
  PROVE  Reads(names, t, h) = Reads(names, z, SetName(h, w))
<1> DEFINE x == AuthAt(h, t, FALSE)
<1>0. IsStart(names, h, t, x)
  BY ReadsStep
<1> HIDE DEF x
<1>1. /\ x.head = h /\ x.head.gone = FALSE /\ NameOf(x) = AuthWord(t, FALSE)
      /\ IsTaken(Reads(names, t, h), AuthParser(names), x)
  BY <1>0 DEF IsStart
<1>2. NameOf(x).read = TRUE /\ NameOf(x).word = w /\ NameOf(x).rest = r
  BY <1>1 DEF IsAuthWord, NamedAt
<1>3. /\ EqualOf(x).read = TRUE /\ EqualOf(x).equal = FALSE /\ EqualOf(x).rest = z
      /\ AloneOf(x) = SetName(h, w)
  BY <1>1, <1>2 DEF EqualOf, AloneOf, IsEqual, OtherAt
<1>4. AfterName(x) = AuthAt(SetName(h, w), z, FALSE)
  BY <1>3 DEF AfterName
<1>5. Reads(names, t, h) = AuthParser(names)[AfterName(x)]
  BY <1>1, <1>2, <1>3 DEF IsTaken
<1> QED
  BY <1>4, <1>5, Zenon DEF Reads

\* A name with its value.
LEMMA ReadsValue ==
  ASSUME NEW names, NEW h, Live(names, h), NEW t \in Seq(STRING), NEW w, NEW r, NEW z, NEW v, NEW u,
         NEW y, NamedAt(t, w, r), ValueAt(r, z), ReadAs(z, v, u, y)
  PROVE  Reads(names, t, h) = Reads(names, y, SetPro(h, w, v))
<1> DEFINE x == AuthAt(h, t, FALSE)
<1>0. IsStart(names, h, t, x)
  BY ReadsStep
<1> HIDE DEF x
<1>1. /\ x.head = h /\ x.head.gone = FALSE /\ NameOf(x) = AuthWord(t, FALSE)
      /\ IsTaken(Reads(names, t, h), AuthParser(names), x)
  BY <1>0 DEF IsStart
<1>2. NameOf(x).read = TRUE /\ NameOf(x).word = w /\ NameOf(x).rest = r
  BY <1>1 DEF IsAuthWord, NamedAt
<1>3. EqualOf(x).read = TRUE /\ EqualOf(x).equal = TRUE /\ EqualOf(x).rest = z
  BY <1>1, <1>2 DEF EqualOf, IsEqual, ValueAt
<1>4. ValueOf(x) = AuthWord(z, FALSE)
  BY <1>3 DEF ValueOf
<1>5. ValueOf(x).read = TRUE /\ ValueOf(x).word = v /\ ValueOf(x).quoted = FALSE
      /\ Behind(ValueOf(x)) = y
  BY <1>4 DEF IsAuthWord, ReadAs
<1>6. SetOf(x) = SetPro(h, w, v)
  BY <1>1, <1>2, <1>5 DEF SetOf
<1>7. AfterValue(x) = AuthAt(SetPro(h, w, v), y, FALSE)
  BY <1>5, <1>6 DEF AfterValue
<1>8. Reads(names, t, h) = AuthParser(names)[AfterValue(x)]
  <2> DEFINE f == AuthParser(names)
             c == f[AfterValue(x)]
  <2>1. Reads(names, t, h) = IF ValueOf(x).read THEN c ELSE SetOf(x)
    BY <1>1, <1>2, <1>3, Zenon DEF IsTaken
  <2> QED
    BY <1>5, <2>1, Zenon
<1> QED
  BY <1>7, <1>8, Zenon DEF Reads

\* What is said of one text is said of another that has the same first name.
LEMMA ReadsSame ==
  ASSUME NEW names, NEW h, Live(names, h), NEW t \in Seq(STRING), NEW s \in Seq(STRING),
         NEW w, NEW r, IsAuthWord(AuthWord(t, FALSE), w, r), IsAuthWord(AuthWord(s, FALSE), w, r)
  PROVE  Reads(names, t, h) = Reads(names, s, h)
<1> DEFINE x == AuthAt(h, t, FALSE)
           y == AuthAt(h, s, FALSE)
<1>0. IsStart(names, h, t, x) /\ IsStart(names, h, s, y)
  BY ReadsStep
<1> HIDE DEF x, y
<1>1. /\ x.head = h /\ NameOf(x) = AuthWord(t, FALSE) /\ x \in AuthState(names)
      /\ y.head = h /\ NameOf(y) = AuthWord(s, FALSE) /\ y \in AuthState(names)
  BY <1>0 DEF IsStart
<1>2. /\ NameOf(x).read = NameOf(y).read /\ NameOf(x).word = NameOf(y).word
      /\ NameOf(x).rest = NameOf(y).rest /\ x.head = y.head
  BY <1>1 DEF IsAuthWord
<1>3. EqualOf(x) = EqualOf(y) /\ AloneOf(x) = AloneOf(y)
  BY <1>2, Zenon DEF EqualOf, AloneOf
<1>4. ValueOf(x) = ValueOf(y)
  BY <1>3, Zenon DEF ValueOf
<1>5. SetOf(x) = SetOf(y)
  BY <1>2, <1>4, Zenon DEF SetOf
<1>6. AfterName(x) = AfterName(y) /\ AfterValue(x) = AfterValue(y)
  BY <1>3, <1>4, <1>5, Zenon DEF AfterName, AfterValue
<1>7. AuthTaken(AuthParser(names), x) = AuthTaken(AuthParser(names), y)
  BY <1>2, <1>3, <1>4, <1>5, <1>6, Zenon DEF AuthTaken
<1>8. AuthParser(names)[x] = AuthParser(names)[y]
  BY <1>1, <1>7, AuthParserDef
<1> QED
  BY <1>8, Zenon DEF Reads, x, y

\* Separators, and behind them nothing or the first character of a word.
IsClean(x, q, z) ==
  /\ x = Cat(q, z) /\ q \in Seq(Stops) /\ z \in Seq(STRING)
  /\ z # <<>> => z[1] \notin Breaks

Clean(x) == \E q, z : IsClean(x, q, z)

\* Separators alone are passed over; so is the CR that stands behind the line.
LEMMA ReadsStops ==
  ASSUME NEW names, Known(names), NEW h, Live(names, h), NEW q \in Seq(Stops)
  PROVE  Reads(names, q, h) = h
<1>1. q \in Seq(STRING)
  <2>1. Stops \subseteq STRING
    BY BreaksLemma
  <2> QED
    BY <2>1, SeqMonotonic
<1>2. CASE q # <<>>
  <2> DEFINE x == AuthAt(h, q, FALSE)
  <2>1. IsStart(names, h, q, x)
    BY <1>1, ReadsStep
  <2>2. AuthWord(q, FALSE).read = FALSE
    BY <1>2, NoWord
  <2> HIDE DEF x
  <2>3. x.head = h /\ NameOf(x).read = FALSE /\ IsTaken(Reads(names, q, h), AuthParser(names), x)
    BY <2>1, <2>2 DEF IsStart
  <2> QED
    BY <2>3 DEF IsTaken
<1>3. CASE q = <<>>
  <2> DEFINE e == <<>>
             c == <<CR>>
             g == GetStr(e, AuthSep(e))
  <2>1. g = [read |-> TRUE, word |-> c, rest |-> e]
    BY DEF GetStr
  <2>2. e \in Seq(STRING) /\ e \in Seq(Parts)
    BY EmptySeq
  <2> HIDE DEF e, c, g
  <2>3. IsWord(g, c, e)
    BY <2>1 DEF IsWord
  <2>4. IsAuthWord(AuthWord(e, FALSE), c, e)
    BY <2>3, AuthWordIs DEF g
  <2>5. CheckEqual(e).read = FALSE
    BY <2>2, EqualNone
  <2>6. Reads(names, e, h) = SetName(h, c)
    BY <2>2, <2>4, <2>5, ReadsAlone
  <2>7. SetName(h, c) = h
    <3>1. DOMAIN h.value = names
      BY DEF Live, Values
    <3>2. \A n : c = <<n>> => n = CR
      BY DEF c
    <3>3. ~\E n \in DOMAIN h.value : c = <<n>>
      BY <3>1, <3>2 DEF Known
    <3>4. c # <<"Digest">>
      BY DEF c, CR
    <3> QED
      BY <3>3, <3>4, Zenon DEF SetName
  <2> QED
    BY <1>3, <2>6, <2>7 DEF e
<1> QED
  BY <1>2, <1>3

\* So they are in front of a word.
LEMMA ReadsClean ==
  ASSUME NEW names, Known(names), NEW h, Live(names, h), NEW x, NEW q, NEW z, IsClean(x, q, z)
  PROVE  Reads(names, x, h) = Reads(names, z, h)
<1>1. /\ x = Cat(q, z) /\ q \in Seq(Stops) /\ z \in Seq(STRING)
      /\ z # <<>> => z[1] \notin Breaks
  BY DEF IsClean
<1>2. q \in Seq(STRING)
  <2>1. Stops \subseteq STRING
    BY BreaksLemma
  <2> QED
    BY <1>1, <2>1, SeqMonotonic
<1>3. CASE z = <<>>
  <2> DEFINE e == <<>>
  <2>1. e \in Seq(Stops) /\ Cat(q, e) = q
    BY <1>2, TextEmpty, EmptySeq
  <2> HIDE DEF e
  <2>2. Reads(names, e, h) = h /\ Reads(names, q, h) = h
    BY <1>1, <2>1, ReadsStops
  <2>3. z = e /\ x = q
    BY <1>1, <1>3, <2>1 DEF e
  <2> QED
    BY <2>2, <2>3
<1>4. CASE z # <<>>
  <2> DEFINE C == STRING \ Breaks
             e == <<>>
  <2>1. PICK w \in Seq(C), r \in Seq(STRING) :
          w \in Seq(STRING) /\ z = w \o r /\ (r # <<>> => r[1] \notin C)
    BY <1>1, Span
  <2>2. z = Cat(w, r)
    BY <2>1, Zenon DEF Cat
  <2>3. w # <<>>
    <3> SUFFICES ASSUME w = <<>> PROVE FALSE
      OBVIOUS
    <3>1. Cat(<<>>, r) = r
      BY <2>1, TextEmpty
    <3>2. z = r
      BY <2>2, <3>1
    <3>3. z[1] \in STRING
      BY <1>1, <1>4, FirstPlace
    <3> QED
      BY <1>1, <1>4, <2>1, <3>2, <3>3
  <2>4. Starts(r, Breaks)
    <3>1. ASSUME r # <<>> PROVE r[1] \in STRING
      BY <2>1, <3>1, FirstPlace
    <3> QED
      BY <2>1, <3>1 DEF Starts
  <2>5. e \in Seq(Stops) /\ z = Cat(e, Cat(w, r))
    <3>1. Cat(e, z) = z
      BY <1>1, TextEmpty
    <3>2. e \in Seq(Stops)
      BY EmptySeq
    <3> QED
      BY <2>2, <3>1, <3>2
  <2>6. x = Cat(q, Cat(w, r))
    BY <1>1, <2>2
  <2>7. w \in Seq(STRING \ Breaks)
    BY <2>1
  <2> HIDE DEF C, e
  <2>8. IsAuthWord(AuthWord(z, FALSE), w, r)
    BY <2>1, <2>3, <2>4, <2>5, <2>7, NameWord
  <2>9. IsAuthWord(AuthWord(x, FALSE), w, r)
    BY <1>1, <2>1, <2>3, <2>4, <2>6, <2>7, NameWord
  <2>10. x \in Seq(STRING)
    BY <1>1, <1>2, TextCat
  <2> QED
    BY <1>1, <2>8, <2>9, <2>10, ReadsSame
<1> QED
  BY <1>3, <1>4

\* A word that no value follows.
LEMMA ReadsWord ==
  ASSUME NEW names, Known(names), NEW h, Live(names, h), NEW w \in Seq(STRING \ Breaks), w # <<>>,
         NEW x, Clean(x), Starts(x, Stops), NEW g, g = SetName(h, w), Live(names, g)
  PROVE  Reads(names, Cat(w, x), h) = Reads(names, x, g)
<1>1. PICK q, z : IsClean(x, q, z)
  BY DEF Clean
<1>2. /\ x = Cat(q, z) /\ q \in Seq(Stops) /\ z \in Seq(STRING)
      /\ z # <<>> => z[1] \notin Breaks
  BY <1>1 DEF IsClean
<1>3. q \in Seq(STRING) /\ q \in Seq(Parts) /\ w \in Seq(STRING)
  <2>1. Stops \subseteq STRING /\ Stops \subseteq Parts /\ STRING \ Breaks \subseteq STRING
    BY BreaksLemma
  <2> QED
    BY <1>2, <2>1, SeqMonotonic
<1>4. x \in Seq(STRING)
  BY <1>2, <1>3, TextCat
<1> DEFINE t == Cat(w, x)
           e == <<>>
<1>5. t \in Seq(STRING)
  BY <1>3, <1>4, TextCat
<1>6. IsAuthWord(AuthWord(t, FALSE), w, x)
  <2>1. Starts(x, Breaks)
    BY BreaksLemma DEF Starts
  <2>2. e \in Seq(Stops) /\ t = Cat(e, Cat(w, x))
    <3> HIDE DEF t
    <3>1. Cat(e, t) = t
      BY <1>5, TextEmpty
    <3>2. e \in Seq(Stops)
      BY EmptySeq
    <3> QED
      BY <3>1, <3>2 DEF t
  <2> HIDE DEF t, e
  <2> QED
    BY <1>4, <2>1, <2>2, NameWord
<1> HIDE DEF t
<1>7. CASE z = <<>>
  <2>1. x = q
    <3>1. Cat(q, <<>>) = q
      BY <1>3, TextEmpty
    <3> QED
      BY <1>2, <1>7, <3>1
  <2>2. CheckEqual(x).read = FALSE
    BY <1>3, <2>1, EqualNone
  <2>3. Reads(names, t, h) = g
    BY <1>5, <1>6, <2>2, ReadsAlone
  <2>4. Reads(names, x, g) = g
    BY <1>2, <2>1, ReadsStops
  <2> QED
    BY <2>3, <2>4 DEF t
<1>8. CASE z # <<>>
  <2>1. z[1] \notin Parts
    BY <1>2, <1>8, BreaksLemma
  <2>2. \A i \in 1 .. Len(q) : q[i] # "="
    <3>1. \A i \in 1 .. Len(q) : q[i] \in Stops
      BY <1>2, ElementOfSeq
    <3> QED
      BY <3>1, BreaksLemma
  <2>3. IsEqual(CheckEqual(x), FALSE, z)
    BY <1>2, <1>3, <1>8, <2>1, <2>2, EqualIs
  <2>4. NamedAt(t, w, x) /\ OtherAt(x, z)
    BY <1>6, <2>3 DEF NamedAt, OtherAt
  <2>5. Reads(names, t, h) = Reads(names, z, SetName(h, w))
    BY <1>5, <2>4, ReadsName
  <2>6. Reads(names, x, g) = Reads(names, z, g)
    BY <1>1, ReadsClean
  <2> QED
    BY <2>5, <2>6 DEF t
<1> QED
  BY <1>7, <1>8

\* A name and its value, between quotes or not.
Set(h, n, v) == [h EXCEPT !.value[n] = v]

\* A known name gets the value.
LEMMA SetIs ==
  ASSUME NEW names, Known(names), NEW h, Live(names, h), NEW n \in names, NEW v \in Seq(STRING)
  PROVE  SetPro(h, <<n>>, v) = Set(h, n, v) /\ Live(names, Set(h, n, v))
<1>1. /\ h.gone = FALSE /\ h.scheme \in Seq(STRING) /\ h.value \in [names -> Seq(STRING)]
      /\ h = [gone |-> h.gone, scheme |-> h.scheme, value |-> h.value]
  BY DEF Live, Values
<1>2. \E m \in DOMAIN h.value : <<n>> = <<m>>
  BY <1>1
<1> DEFINE w == <<n>>
           g == [h EXCEPT !.value[w[1]] = v]
           k == [h EXCEPT !.scheme = w]
<1> HIDE DEF w, g, k
<1>3. SetPro(h, w, v) = CASE \E m \in DOMAIN h.value : w = <<m>> -> g
                          [] w = <<"Digest">> -> k
                          [] OTHER -> h
  BY Zenon DEF SetPro, g, k
<1>4. SetPro(h, <<n>>, v) = Set(h, n, v)
  <2>1. w # <<"Digest">>
    <3>1. n # "Digest"
      BY DEF Known
    <3>2. w = <<"Digest">> => w[1] = "Digest" /\ w[1] = n
      BY DEF w
    <3> QED
      BY <3>1, <3>2
  <2>2. SetPro(h, w, v) = g
    BY <1>2, <1>3, <2>1 DEF w
  <2>3. w[1] = n
    BY DEF w
  <2> QED
    BY <2>2, <2>3 DEF Set, g, w
<1>5. Live(names, Set(h, n, v))
  BY <1>1 DEF Live, Set, Values
<1> QED
  BY <1>4, <1>5

\* The name, the '=' behind it and what the value is read from.
LEMMA NameEqual ==
  ASSUME NEW n, n \in STRING \ Breaks, NEW z \in Seq(STRING), z # <<>>, z[1] \notin Parts,
         NEW r, r = Cat(<<"=">>, z), NEW t, t = Cat(<<n>>, r)
  PROVE  /\ r \in Seq(STRING) /\ t \in Seq(STRING)
         /\ IsAuthWord(AuthWord(t, FALSE), <<n>>, r) /\ IsEqual(CheckEqual(r), TRUE, z)
<1> DEFINE q == <<"=">>
           w == <<n>>
           e == <<>>
<1>1. q \in Seq(Parts) /\ q \in Seq(STRING) /\ Len(q) = 1 /\ q[1] = "=" /\ q # <<>>
  <2>1. "=" \in Parts /\ "=" \in STRING
    BY BreaksLemma
  <2> QED
    BY <2>1, OneElement
<1>2. w \in Seq(STRING \ Breaks) /\ w # <<>> /\ w \in Seq(STRING)
  BY OneElement
<1> HIDE DEF q, w
<1>3. \E i \in 1 .. Len(q) : q[i] = "="
  BY <1>1
<1>4. r = Cat(q, z) /\ t = Cat(w, r)
  BY DEF q, w
<1>5. IsEqual(CheckEqual(r), TRUE, z)
  BY <1>1, <1>3, <1>4, EqualIs
<1>6. r \in Seq(STRING) /\ Starts(r, Breaks)
  <2>1. Starts(q, Breaks)
    BY <1>1, BreaksLemma DEF Starts
  <2> DEFINE u == Cat(q, z)
  <2>2. u \in Seq(STRING) /\ Starts(u, Breaks)
    BY <1>1, <2>1, StartsCat
  <2> QED
    BY <1>4, <2>2
<1>7. t \in Seq(STRING)
  BY <1>2, <1>4, <1>6, TextCat
<1>8. e \in Seq(Stops) /\ t = Cat(e, Cat(w, r))
  <2>1. Cat(e, t) = t
    BY <1>7, TextEmpty
  <2>2. e \in Seq(Stops)
    BY EmptySeq
  <2> QED
    BY <1>4, <2>1, <2>2
<1> HIDE DEF e
<1>9. IsAuthWord(AuthWord(t, FALSE), w, r)
  BY <1>2, <1>6, <1>8, NameWord
<1> QED
  BY <1>5, <1>6, <1>7, <1>9 DEF w

QuotedText(n, v, r) == Cat(<<n>>, Cat(<<"=">>, Cat(<<Quote>>, Cat(v, Cat(<<Quote>>, r)))))
BareText(n, v, r)   == Cat(<<n>>, Cat(<<"=">>, Cat(v, r)))

\* A value between quotes, whatever follows it.
LEMMA ReadsQuoted ==
  ASSUME NEW names, Known(names), NEW h, Live(names, h), NEW n \in names,
         NEW v \in Seq(STRING \ {Quote}), v # <<>>, NEW r \in Seq(STRING)
  PROVE  Reads(names, QuotedText(n, v, r), h) = Reads(names, r, Set(h, n, v))
<1> DEFINE p == <<Quote>>
           u == Cat(p, r)
           x == Cat(v, u)
           z == Cat(p, x)
           y == Cat(<<"=">>, z)
           t == Cat(<<n>>, y)
           w == <<n>>
<1>1. p \in Seq(STRING) /\ p # <<>> /\ p[1] = Quote
  BY BreaksLemma, OneElement
<1>2. v \in Seq(STRING)
  <2>1. STRING \ {Quote} \subseteq STRING
    OBVIOUS
  <2> QED
    BY <2>1, SeqMonotonic
<1> HIDE DEF p
<1>3. u \in Seq(STRING)
  BY <1>1, TextCat
<1> HIDE DEF u
<1>4. x \in Seq(STRING)
  BY <1>2, <1>3, TextCat
<1> HIDE DEF x
<1>5. z \in Seq(STRING) /\ z # <<>> /\ z[1] \notin Parts
  <2> DEFINE M == {Quote}
  <2>1. Starts(p, M)
    BY <1>1 DEF Starts
  <2> HIDE DEF M
  <2>2. z \in Seq(STRING) /\ z # <<>> /\ z[1] = Quote
    BY <1>1, <1>4, <2>1, StartsCat
  <2> QED
    BY <2>2, BreaksLemma
<1>6. IsAuthWord(AuthWord(z, FALSE), v, u) /\ AuthWord(z, FALSE).quoted = FALSE
  <2>1. u = Cat(<<Quote>>, r) /\ z = Cat(<<Quote>>, Cat(v, u))
    BY DEF u, p, x
  <2> HIDE DEF z
  <2> QED
    BY <2>1, QuotedWord
<1>7. Behind(AuthWord(z, FALSE)) = r
  <2>1. AuthWord(z, FALSE).rest = Cat(<<Quote>>, r)
    BY <1>6 DEF IsAuthWord, u, p
  <2> QED
    BY <2>1, BehindQuote
<1> HIDE DEF z
<1>8. n \in STRING \ Breaks
  BY DEF Known
<1>9. /\ y \in Seq(STRING) /\ t \in Seq(STRING)
      /\ IsAuthWord(AuthWord(t, FALSE), w, y) /\ IsEqual(CheckEqual(y), TRUE, z)
  BY <1>5, <1>8, NameEqual
<1> HIDE DEF t, y
<1>10. Reads(names, t, h) = Reads(names, r, SetPro(h, w, v))
  <2> HIDE DEF w
  <2>1. t \in Seq(STRING) /\ NamedAt(t, w, y) /\ ValueAt(y, z) /\ ReadAs(z, v, u, r)
    BY <1>6, <1>7, <1>9 DEF NamedAt, ValueAt, ReadAs
  <2> QED
    BY <2>1, ReadsValue
<1>11. SetPro(h, w, v) = Set(h, n, v)
  BY <1>2, SetIs
<1> QED
  BY <1>10, <1>11 DEF t, y, z, x, u, p, QuotedText

\* A value without quotes.
LEMMA ReadsBare ==
  ASSUME NEW names, Known(names), NEW h, Live(names, h), NEW n \in names,
         NEW v \in Seq(STRING \ Breaks), v # <<>>, NEW r \in Seq(STRING), Starts(r, Stops)
  PROVE  Reads(names, BareText(n, v, r), h) = Reads(names, r, Set(h, n, v))
<1> DEFINE z == Cat(v, r)
           y == Cat(<<"=">>, z)
           t == Cat(<<n>>, y)
           w == <<n>>
<1>1. v \in Seq(STRING) /\ v[1] \notin Breaks
  <2>1. STRING \ Breaks \subseteq STRING
    OBVIOUS
  <2>2. v[1] \in STRING \ Breaks
    BY FirstPlace
  <2> QED
    BY <2>1, <2>2, SeqMonotonic
<1>2. z \in Seq(STRING) /\ z # <<>> /\ z[1] \notin Parts
  <2> DEFINE M == {v[1]}
  <2>1. Starts(v, M)
    BY DEF Starts
  <2> HIDE DEF M
  <2>2. z \in Seq(STRING) /\ z # <<>> /\ z[1] = v[1]
    BY <1>1, <2>1, StartsCat
  <2> QED
    BY <1>1, <2>2, BreaksLemma
<1>3. IsAuthWord(AuthWord(z, FALSE), v, r) /\ AuthWord(z, FALSE).quoted = FALSE
  <2>1. Starts(r, Breaks)
    BY BreaksLemma DEF Starts
  <2> QED
    BY <2>1, BareWord
<1> HIDE DEF z
<1>4. Behind(AuthWord(z, FALSE)) = r
  <2>1. AuthWord(z, FALSE).rest = r
    BY <1>3 DEF IsAuthWord
  <2>2. ~StartsWith(r, Quote)
    BY BreaksLemma DEF StartsWith, Starts
  <2> QED
    BY <2>1, <2>2 DEF Behind
<1>5. n \in STRING \ Breaks
  BY DEF Known
<1>6. /\ y \in Seq(STRING) /\ t \in Seq(STRING)
      /\ IsAuthWord(AuthWord(t, FALSE), w, y) /\ IsEqual(CheckEqual(y), TRUE, z)
  BY <1>2, <1>5, NameEqual
<1> HIDE DEF t, y
<1>7. Reads(names, t, h) = Reads(names, r, SetPro(h, w, v))
  <2> HIDE DEF w
  <2>1. t \in Seq(STRING) /\ NamedAt(t, w, y) /\ ValueAt(y, z) /\ ReadAs(z, v, r, r)
    BY <1>3, <1>4, <1>6 DEF NamedAt, ValueAt, ReadAs
  <2> QED
    BY <2>1, ReadsValue
<1>8. SetPro(h, w, v) = Set(h, n, v)
  BY <1>1, SetIs
<1> QED
  BY <1>7, <1>8 DEF t, y, z, BareText

\* The characters of the entries of a list that are not read as its value.
Others == STRING \ ({Quote, "=", CR, LF, "Digest"} \cup Www \cup Auth)

Bare == Others \ Breaks

\* They are passed over, whatever word is in front of them.
IsJunk(names, h, r, j) ==
  LET x == Cat(j, r)
  IN  /\ x \in Seq(STRING) /\ Clean(x)
      /\ \A w \in Seq(Bare) : Reads(names, Cat(w, x), h) = Reads(names, r, h)

\* What is no name changes nothing.
LEMMA NoName ==
  ASSUME NEW names, names = Www \/ names = Auth, NEW h, Live(names, h), NEW w \in Seq(Bare)
  PROVE  SetName(h, w) = h
<1>1. DOMAIN h.value = names
  BY DEF Live, Values
<1>2. ASSUME NEW n, w = <<n>>, n \in names \cup {"Digest"} PROVE FALSE
  <2>1. w # <<>> /\ w[1] = n
    BY <1>2
  <2>2. w[1] \in Bare
    BY <2>1, FirstPlace
  <2> QED
    BY <1>2, <2>1, <2>2 DEF Bare, Others
<1>3. ~\E n \in DOMAIN h.value : w = <<n>>
  BY <1>1, <1>2
<1>4. w # <<"Digest">>
  BY <1>2
<1> QED
  BY <1>3, <1>4, Zenon DEF SetName

\* Nothing is no name.
LEMMA JunkFirst ==
  ASSUME NEW names, names = Www \/ names = Auth, NEW h, Live(names, h),
         NEW r \in Seq(STRING), Clean(r), Starts(r, Stops)
  PROVE  IsJunk(names, h, r, <<>>)
<1> DEFINE e == <<>>
           x == Cat(e, r)
<1>1. x = r
  BY TextEmpty
<1> HIDE DEF x
<1>2. Known(names)
  BY KnownNames
<1>3. ASSUME NEW w \in Seq(Bare) PROVE Reads(names, Cat(w, r), h) = Reads(names, r, h)
  <2>1. CASE w = <<>>
    <3>1. Cat(<<>>, r) = r
      BY TextEmpty
    <3> QED
      BY <2>1, <3>1
  <2>2. CASE w # <<>>
    <3>1. w \in Seq(STRING \ Breaks)
      <4>1. Bare \subseteq STRING \ Breaks
        BY DEF Bare, Others
      <4> QED
        BY <4>1, SeqMonotonic
    <3> DEFINE g == SetName(h, w)
    <3>2. g = h
      BY NoName
    <3>3. Live(names, g)
      BY <3>2
    <3> HIDE DEF g
    <3>4. Reads(names, Cat(w, r), h) = Reads(names, r, g)
      BY <1>2, <2>2, <3>1, <3>3, ReadsWord DEF g
    <3> QED
      BY <3>2, <3>4
  <2> QED
    BY <2>1, <2>2
<1>4. IsJunk(names, h, r, e)
  BY <1>1, <1>3 DEF IsJunk, x
<1> QED
  BY <1>4

\* One more token that is no name changes nothing.
LEMMA JunkStep ==
  ASSUME NEW names, names = Www \/ names = Auth, NEW h, Live(names, h),
         NEW r \in Seq(STRING), NEW e \in Others, NEW j \in Seq(Others), IsJunk(names, h, r, j)
  PROVE  IsJunk(names, h, r, Cat(<<e>>, j))
<1> DEFINE a == <<e>>
           y == Cat(j, r)
           u == Cat(a, j)
           x == Cat(u, r)
<1>1. Others \subseteq STRING /\ Bare \subseteq STRING
  BY DEF Others, Bare
<1>2. a \in Seq(STRING) /\ a # <<>> /\ a[1] = e
  BY <1>1, OneElement
<1>3. j \in Seq(STRING)
  BY <1>1, SeqMonotonic
<1>4. /\ y \in Seq(STRING) /\ Clean(y)
      /\ \A w \in Seq(Bare) : Reads(names, Cat(w, y), h) = Reads(names, r, h)
  BY DEF IsJunk
<1>5. PICK q, z : IsClean(y, q, z)
  BY <1>4 DEF Clean
<1>6. /\ y = Cat(q, z) /\ q \in Seq(Stops) /\ z \in Seq(STRING)
      /\ z # <<>> => z[1] \notin Breaks
  BY <1>5 DEF IsClean
<1>7. Known(names)
  BY KnownNames
<1>8. x = Cat(a, y)
  <2> HIDE DEF a
  <2> QED
    BY <1>2, <1>3, TextAssoc
<1> HIDE DEF a, x, u
<1>9. x \in Seq(STRING) /\ x # <<>> /\ x[1] = e
  <2> DEFINE M == {e}
             v == Cat(a, y)
  <2>1. Starts(a, M)
    BY <1>2 DEF Starts
  <2> HIDE DEF M, y
  <2>2. v \in Seq(STRING) /\ v # <<>> /\ v[1] = e
    BY <1>2, <1>4, <2>1, StartsCat
  <2> QED
    BY <1>8, <2>2
<1> HIDE DEF y
<1>10. CASE e \in Stops
  <2> DEFINE p == Cat(a, q)
  <2>1. q \in Seq(STRING) /\ a \in Seq(Stops)
    <3>1. Stops \subseteq STRING
      BY BreaksLemma
    <3>2. <<e>> \in Seq(Stops)
      BY <1>10, OneElement
    <3> QED
      BY <1>6, <3>1, <3>2, SeqMonotonic DEF a
  <2>2. p \in Seq(Stops)
    BY <1>6, <2>1, CatLemma
  <2>3. Cat(p, z) = Cat(a, y)
    BY <1>2, <1>6, <2>1, TextAssoc
  <2> HIDE DEF p
  <2>4. IsClean(x, p, z)
    BY <1>6, <1>8, <2>2, <2>3 DEF IsClean
  <2>5. Clean(x) /\ Starts(x, Stops)
    BY <1>9, <1>10, <2>4 DEF Clean, Starts
  <2>6. Reads(names, x, h) = Reads(names, r, h)
    <3>1. Reads(names, x, h) = Reads(names, z, h) /\ Reads(names, y, h) = Reads(names, z, h)
      BY <1>5, <1>7, <2>4, ReadsClean
    <3> DEFINE o == <<>>
    <3>2. o \in Seq(Bare) /\ Cat(o, y) = y
      BY <1>4, EmptySeq, TextEmpty
    <3> HIDE DEF o
    <3>3. Reads(names, Cat(o, y), h) = Reads(names, r, h)
      BY <1>4, <3>2
    <3> QED
      BY <3>1, <3>2, <3>3
  <2>7. IsJunk(names, h, x, <<>>)
    BY <1>9, <2>5, JunkFirst
  <2>8. Cat(<<>>, x) = x
    BY <1>9, TextEmpty
  <2>9. \A w \in Seq(Bare) : Reads(names, Cat(w, x), h) = Reads(names, x, h)
    BY <2>7, <2>8 DEF IsJunk
  <2>10. IsJunk(names, h, r, u)
    BY <1>9, <2>5, <2>6, <2>9 DEF IsJunk, x
  <2> QED
    BY <2>10 DEF u, a
<1>11. CASE e \notin Stops
  <2>1. e \in Bare /\ e \notin Breaks
    BY <1>11 DEF Bare, Others, Breaks, Stops
  <2>2. Clean(x)
    <3> DEFINE o == <<>>
    <3>1. o \in Seq(Stops) /\ x = Cat(o, x)
      BY <1>9, EmptySeq, TextEmpty
    <3> HIDE DEF o
    <3>2. IsClean(x, o, x)
      BY <1>9, <2>1, <3>1 DEF IsClean
    <3> QED
      BY <3>2 DEF Clean
  <2>3. ASSUME NEW w \in Seq(Bare) PROVE Reads(names, Cat(w, x), h) = Reads(names, r, h)
    <3> DEFINE v == Cat(w, a)
    <3>1. a \in Seq(Bare)
      BY <2>1, OneElement DEF a
    <3>2. v \in Seq(Bare)
      BY <3>1, CatLemma
    <3>3. w \in Seq(STRING)
      BY <1>1, SeqMonotonic
    <3>4. Cat(v, y) = Cat(w, Cat(a, y))
      BY <1>2, <1>4, <3>3, TextAssoc
    <3> HIDE DEF v
    <3>5. Reads(names, Cat(v, y), h) = Reads(names, r, h)
      BY <1>4, <3>2
    <3> QED
      BY <1>8, <3>4, <3>5
  <2>4. IsJunk(names, h, r, u)
    BY <1>9, <2>2, <2>3 DEF IsJunk, x
  <2> QED
    BY <2>4 DEF u, a
<1> QED
  BY <1>10, <1>11

\* So none of them does, however many there are.
LEMMA JunkIs ==
  ASSUME NEW names, names = Www \/ names = Auth, NEW h, Live(names, h),
         NEW r \in Seq(STRING), Clean(r), Starts(r, Stops), NEW j \in Seq(Others)
  PROVE  Reads(names, Cat(j, r), h) = Reads(names, r, h) /\ Cat(j, r) \in Seq(STRING)
<1> DEFINE T == {i \in Seq(Others) : IsJunk(names, h, r, i)}
           e == <<>>
           x == Cat(j, r)
<1>1. e \in T
  <2>1. IsJunk(names, h, r, e)
    BY JunkFirst
  <2> QED
    BY <2>1, EmptySeq
<1>2. ASSUME NEW c \in Others, NEW s \in Seq(Others), s \in T PROVE Cat(<<c>>, s) \in T
  <2>1. IsJunk(names, h, r, Cat(<<c>>, s))
    BY <1>2, JunkStep
  <2>2. <<c>> \in Seq(Others)
    BY OneElement
  <2>3. Cat(<<c>>, s) \in Seq(Others)
    BY <2>2, CatLemma
  <2> QED
    BY <2>1, <2>3
<1> HIDE DEF T
<1>3. \A i \in Seq(Others) : i \in T
  BY <1>1, <1>2, SeqInduction
<1>4. IsJunk(names, h, r, j)
  BY <1>3 DEF T
<1>5. x \in Seq(STRING) /\ \A w \in Seq(Bare) : Reads(names, Cat(w, x), h) = Reads(names, r, h)
  BY <1>4 DEF IsJunk
<1> HIDE DEF x
<1>6. e \in Seq(Bare) /\ Cat(e, x) = x
  BY <1>5, EmptySeq, TextEmpty
<1> HIDE DEF e
<1>7. Reads(names, Cat(e, x), h) = Reads(names, r, h)
  BY <1>5, <1>6
<1> QED
  BY <1>5, <1>6, <1>7 DEF x

\* Where a list that is written without quotes ends for the parser.
IsList(v, w, j) ==
  /\ v = Cat(w, j) /\ w \in Seq(STRING \ Breaks) /\ w # <<>> /\ j \in Seq(Others)
  /\ Starts(j, Stops) /\ FirstPart(v, {",", " "}) = w

\* Every list does.
LEMMA ListIs ==
  ASSUME NEW v \in Lists, v # <<>>
  PROVE  \E w, j : IsList(v, w, j)
<1> DEFINE C == STRING \ Stops
           M == STRING \ {Quote, "=", CR, LF}
           n == Len(v)
<1>1. v \in Seq(M) /\ v \in Seq(STRING)
  <2>1. v \in Seq(M)
    BY DEF Lists
  <2>2. M \subseteq STRING
    OBVIOUS
  <2> QED
    BY <2>1, <2>2, SeqMonotonic
<1>2. \A i \in DOMAIN v : IF i = 1 THEN v[i] \notin {" ", ","} ELSE v[i] \notin Www \cup Auth \cup {"Digest"}
  BY DEF Lists
<1>3. n \in Nat /\ DOMAIN v = 1 .. n /\ n # 0 /\ 1 \in 1 .. n
  BY <1>1, FirstPlace, LenProperties
<1>4. \A i \in 1 .. n : v[i] \in M
  BY <1>1, ElementOfSeq
<1>5. PICK w \in Seq(C), j \in Seq(STRING) :
        w \in Seq(STRING) /\ v = w \o j /\ (j # <<>> => j[1] \notin C)
  BY <1>1, Span
<1>6. v = Cat(w, j)
  BY <1>5, Zenon DEF Cat
<1>7. v[1] \in C /\ {" ", ","} = Stops
  <2>1. v[1] \notin {" ", ","}
    BY <1>2, <1>3
  <2>2. v[1] \in STRING
    BY <1>1, <1>3, ElementOfSeq
  <2> QED
    BY <2>1, <2>2 DEF Stops
<1> DEFINE a == Len(w)
<1>8. IsTwo(v, STRING, w, j, a)
  BY <1>5, <1>6, TwoParts
<1>9. /\ a \in Nat /\ n = a + Len(j)
      /\ \A i \in 1 .. a : v[i] = w[i]
      /\ \A i \in 1 .. Len(j) : v[a + i] = j[i]
  BY <1>8 DEF IsTwo
<1>10. Len(j) \in Nat /\ \A i \in 1 .. a : w[i] \in C
  BY <1>5, LenProperties, ElementOfSeq
<1>11. w # <<>> /\ a # 0
  <2>1. ASSUME w = <<>> PROVE FALSE
    <3>1. Cat(<<>>, j) = j
      BY <1>5, TextEmpty
    <3>2. v = j
      BY <1>6, <2>1, <3>1
    <3> QED
      BY <1>5, <1>7, <3>2
  <2> QED
    BY <1>5, <2>1, FirstPlace
<1> HIDE DEF a, n
<1>12. w \in Seq(STRING \ Breaks)
  <2>1. ASSUME NEW i \in 1 .. a PROVE w[i] \in STRING \ Breaks
    <3>1. i \in 1 .. n /\ w[i] = v[i] /\ w[i] \in C
      BY <1>9, <1>10
    <3>2. w[i] \in M
      BY <1>4, <3>1
    <3> QED
      BY <3>1, <3>2 DEF Breaks, Stops
  <2> QED
    BY <1>5, <2>1, SeqNarrow DEF a
<1>13. j \in Seq(Others)
  <2>1. ASSUME NEW i \in 1 .. Len(j) PROVE j[i] \in Others
    <3>1. a + i \in 1 .. n /\ a + i # 1
      BY <1>9, <1>10, <1>11
    <3> DEFINE k == a + i
    <3>2. v[k] = j[i] /\ k \in 1 .. n /\ k # 1
      BY <1>9, <3>1
    <3> HIDE DEF k
    <3>3. v[k] \in M /\ v[k] \notin Www \cup Auth \cup {"Digest"}
      BY <1>2, <1>3, <1>4, <3>2
    <3> QED
      BY <3>2, <3>3 DEF Others
  <2> QED
    BY <1>5, <2>1, SeqNarrow
<1>14. Starts(j, Stops)
  <2>1. ASSUME j # <<>> PROVE j[1] \in STRING
    BY <1>5, <2>1, FirstPlace
  <2> QED
    BY <1>5, <2>1 DEF Starts
<1>15. FirstPart(v, {",", " "}) = w
  <2> DEFINE D == {",", " "}
  <2>1. D = Stops
    BY DEF Stops
  <2>2. \A i \in 1 .. Len(w) : w[i] \notin Stops
    BY <1>10 DEF a
  <2> HIDE DEF D
  <2>3. FirstPart(Cat(w, j), D) = w
    BY <1>5, <1>14, <2>1, <2>2, FirstPartIs
  <2> QED
    BY <1>6, <2>3 DEF D
<1> QED
  BY <1>6, <1>11, <1>12, <1>13, <1>14, <1>15 DEF IsList

\* What may stand in a value, and what of it arrives.
ValueFor(n) == IF n \in Unquoted THEN Lists ELSE Quotable
Arriving(n, v) == IF n \in Unquoted THEN FirstPart(v, {",", " "}) ELSE v

\* What is written for a value, behind its comma.
NamedText(n, v) ==
  LET quote == IF n \in Unquoted THEN <<>> ELSE <<Quote>>
  IN  <<n, "=">> \o (quote \o (v \o quote))

\* It is read from such a text.
IsNamed(names, n, v, h, r) ==
  LET t == NamedText(n, v)
      x == Cat(t, r)
  IN  /\ t \in Seq(Tokens) /\ x \in Seq(STRING) /\ x # <<>> /\ x[1] = n
      /\ Reads(names, x, h) = Reads(names, r, Set(h, n, Arriving(n, v)))
      /\ Live(names, Set(h, n, Arriving(n, v)))

\* What the text and its brackets are.
NamedBy(n, q, v) == <<n, "=">> \o (q \o (v \o q))

IsBracketed(t, n, q, v, r) ==
  /\ t \in Seq(Tokens) /\ Cat(t, r) \in Seq(STRING)
  /\ Cat(t, r) # <<>> /\ Cat(t, r)[1] = n
  /\ Cat(t, r) = Cat(<<n>>, Cat(<<"=">>, Cat(q, Cat(v, Cat(q, r)))))

\* It has these parts.
LEMMA NamedBrackets ==
  ASSUME NEW n \in Tokens, NEW v \in Seq(Tokens), NEW q \in Seq(Tokens), NEW r \in Seq(STRING)
  PROVE  IsBracketed(NamedBy(n, q, v), n, q, v, r)
<1> DEFINE t == NamedBy(n, q, v)
           a == <<n>>
           b == <<"=">>
           ab == Cat(a, b)
           u == Cat(v, q)
           y == Cat(q, u)
           qr == Cat(q, r)
           vqr == Cat(v, qr)
           z == Cat(q, vqr)
<1>1. a \in Seq(Tokens) /\ b \in Seq(Tokens) /\ a # <<>> /\ a[1] = n
  <2>1. "=" \in Tokens
    BY BreaksLemma
  <2> QED
    BY <2>1, OneElement
<1>2. ab = <<n, "=">>
  <2> DEFINE c == "="
  <2>1. c \in Tokens
    BY BreaksLemma
  <2> HIDE DEF c
  <2>2. <<n, c>> = Cat(<<n>>, <<c>>)
    BY <2>1, PairCat
  <2> QED
    BY <2>2 DEF c
<1> HIDE DEF a, b
<1>3. u \in Seq(Tokens) /\ ab \in Seq(Tokens)
  BY <1>1, LineCat
<1>4. t = Cat(ab, y)
  BY <1>2, Zenon DEF Cat, NamedBy
<1> HIDE DEF u, ab, t
<1>5. y \in Seq(Tokens)
  BY <1>3, LineCat
<1> HIDE DEF y
<1>6. t \in Seq(Tokens)
  BY <1>3, <1>4, <1>5, LineCat
<1>7. /\ a \in Seq(STRING) /\ b \in Seq(STRING) /\ ab \in Seq(STRING) /\ u \in Seq(STRING)
      /\ y \in Seq(STRING) /\ v \in Seq(STRING) /\ q \in Seq(STRING)
  BY <1>1, <1>3, <1>5, LinesAreTexts
<1>8. Cat(t, r) = Cat(ab, Cat(y, r))
  <2>1. Cat(Cat(ab, y), r) = Cat(ab, Cat(y, r))
    BY <1>7, TextAssoc
  <2> QED
    BY <1>4, <2>1, Zenon
<1>9. Cat(y, r) = Cat(q, Cat(u, r))
  BY <1>7, TextAssoc DEF y
<1>10. Cat(u, r) = vqr
  BY <1>7, TextAssoc DEF u
<1>11. qr \in Seq(STRING)
  BY <1>7, TextCat
<1> HIDE DEF qr
<1>12. vqr \in Seq(STRING)
  BY <1>7, <1>11, TextCat
<1> HIDE DEF vqr
<1>13. z \in Seq(STRING)
  BY <1>7, <1>12, TextCat
<1>14. Cat(t, r) = Cat(ab, z)
  BY <1>8, <1>9, <1>10
<1> HIDE DEF z
<1>15. Cat(ab, z) = Cat(a, Cat(b, z))
  BY <1>7, <1>13, TextAssoc DEF ab
<1>16. Cat(a, Cat(b, z)) \in Seq(STRING) /\ Cat(a, Cat(b, z)) # <<>> /\ Cat(a, Cat(b, z))[1] = n
  <2> DEFINE M == {n}
             c == Cat(b, z)
  <2>1. Starts(a, M)
    BY <1>1 DEF Starts
  <2>2. c \in Seq(STRING)
    BY <1>7, <1>13, TextCat
  <2> HIDE DEF M, c
  <2>3. Cat(a, c) \in Seq(STRING) /\ Cat(a, c) # <<>> /\ Cat(a, c)[1] = n
    BY <1>1, <1>7, <2>1, <2>2, StartsCat
  <2> QED
    BY <2>3 DEF c
<1> QED
  BY <1>6, <1>14, <1>15, <1>16 DEF z, vqr, qr, a, b, t, IsBracketed

\* A value with its name is read.
LEMMA NamedIs ==
  ASSUME NEW names, names = Www \/ names = Auth, NEW n \in names, NEW v, v \in ValueFor(n), v # <<>>,
         NEW h, Live(names, h), NEW r \in Seq(STRING), Clean(r), Starts(r, Stops)
  PROVE  IsNamed(names, n, v, h, r)
<1> DEFINE t == NamedText(n, v)
           x == Cat(t, r)
           g == Set(h, n, Arriving(n, v))
<1>1. Known(names)
  BY KnownNames
<1>2. n \in STRING /\ n \in Tokens
  BY <1>1 DEF Known
<1>3. CASE n \in Unquoted
  <2> DEFINE q == <<>>
             qr == Cat(q, r)
  <2>1. v \in Lists /\ t = NamedBy(n, q, v)
    BY <1>3, Zenon DEF ValueFor, NamedText, NamedBy
  <2>2. PICK w, j : IsList(v, w, j)
    BY <2>1, ListIs
  <2>3. /\ v = Cat(w, j) /\ w \in Seq(STRING \ Breaks) /\ w # <<>> /\ j \in Seq(Others)
        /\ Starts(j, Stops) /\ FirstPart(v, {",", " "}) = w
    BY <2>2 DEF IsList
  <2>4. Arriving(n, v) = w
    BY <1>3, <2>3, Zenon DEF Arriving
  <2>5. w \in Seq(STRING) /\ j \in Seq(STRING)
    <3>1. STRING \ Breaks \subseteq STRING /\ Others \subseteq STRING
      BY DEF Others
    <3> QED
      BY <2>3, <3>1, SeqMonotonic
  <2>6. v \in Seq(Tokens)
    <3> DEFINE M == STRING \ {Quote, "=", CR, LF}
    <3>1. v \in Seq(M)
      BY <2>1 DEF Lists
    <3>2. M \subseteq Tokens
      BY DEF Tokens
    <3> HIDE DEF M
    <3> QED
      BY <3>1, <3>2, SeqMonotonic
  <2>7. q \in Seq(Tokens) /\ qr = r
    BY LineEmpty, TextEmpty
  <2> HIDE DEF q, qr, t
  <2>8. /\ t \in Seq(Tokens) /\ x \in Seq(STRING) /\ x # <<>> /\ x[1] = n
        /\ x = Cat(<<n>>, Cat(<<"=">>, Cat(q, Cat(v, Cat(q, r)))))
    <3>1. IsBracketed(NamedBy(n, q, v), n, q, v, r)
      BY <1>2, <2>6, <2>7, NamedBrackets
    <3>2. IsBracketed(t, n, q, v, r)
      BY <2>1, <3>1
    <3> QED
      BY <3>2 DEF IsBracketed
  <2> DEFINE jr == Cat(j, r)
             vr == Cat(v, r)
  <2>9. jr \in Seq(STRING) /\ vr = Cat(w, jr) /\ vr \in Seq(STRING)
    <3>1. jr \in Seq(STRING)
      BY <2>5, TextCat
    <3>2. Cat(Cat(w, j), r) = Cat(w, jr)
      BY <2>5, TextAssoc
    <3>3. Cat(w, jr) \in Seq(STRING)
      <4> HIDE DEF jr
      <4> QED
        BY <2>5, <3>1, TextCat
    <3> QED
      BY <2>3, <3>1, <3>2, <3>3
  <2>10. Cat(q, Cat(v, Cat(q, r))) = vr
    <3>1. Cat(<<>>, vr) = vr
      BY <2>9, TextEmpty
    <3> QED
      BY <2>7, <3>1 DEF q, qr
  <2>11. Starts(jr, Stops)
    <3>1. Starts(Cat(j, r), Stops)
      BY <2>3, <2>5, StartsCat
    <3> QED
      BY <3>1
  <2>12. Live(names, Set(h, n, w))
    BY <1>1, <2>5, SetIs
  <2> DEFINE k == Set(h, n, w)
  <2> HIDE DEF k
  <2>13. Reads(names, jr, k) = Reads(names, r, k)
    BY <2>3, <2>12, JunkIs DEF k
  <2> HIDE DEF jr
  <2>14. Reads(names, Cat(<<n>>, Cat(<<"=">>, Cat(w, jr))), h) = Reads(names, jr, k)
    <3>1. w \in Seq(STRING \ Breaks) /\ w # <<>>
      BY <2>3
    <3>2. jr \in Seq(STRING)
      BY <2>9
    <3>3. Reads(names, BareText(n, w, jr), h) = Reads(names, jr, k)
      BY <1>1, <2>11, <3>1, <3>2, ReadsBare DEF k
    <3> QED
      BY <3>3, Zenon DEF BareText
  <2>15. Reads(names, x, h) = Reads(names, r, k)
    BY <2>8, <2>9, <2>10, <2>13, <2>14
  <2>16. g = k
    BY <2>4 DEF k
  <2>17. Live(names, g) /\ Reads(names, x, h) = Reads(names, r, g)
    BY <2>12, <2>15, <2>16 DEF k
  <2> QED
    BY <2>8, <2>17 DEF IsNamed, t
<1>4. CASE n \notin Unquoted
  <2> DEFINE q == <<Quote>>
  <2>1. v \in Quotable /\ t = NamedBy(n, q, v) /\ Arriving(n, v) = v
    BY <1>4, Zenon DEF ValueFor, NamedText, NamedBy, Arriving
  <2>2. v \in Seq(Tokens) /\ v \in Seq(STRING \ {Quote}) /\ v \in Seq(STRING)
    <3> DEFINE M == STRING \ {Quote, CR, LF}
    <3>1. v \in Seq(M)
      BY <2>1 DEF Quotable
    <3>2. M \subseteq Tokens /\ M \subseteq STRING \ {Quote} /\ M \subseteq STRING
      BY DEF Tokens
    <3> HIDE DEF M
    <3> QED
      BY <3>1, <3>2, SeqMonotonic
  <2>3. q \in Seq(Tokens)
    <3>1. Quote \in Tokens
      BY BreaksLemma
    <3> QED
      BY <3>1, LineToken
  <2> HIDE DEF q, t
  <2>4. /\ t \in Seq(Tokens) /\ x \in Seq(STRING) /\ x # <<>> /\ x[1] = n
        /\ x = Cat(<<n>>, Cat(<<"=">>, Cat(q, Cat(v, Cat(q, r)))))
    <3>1. IsBracketed(NamedBy(n, q, v), n, q, v, r)
      BY <1>2, <2>2, <2>3, NamedBrackets
    <3>2. IsBracketed(t, n, q, v, r)
      BY <2>1, <3>1
    <3> QED
      BY <3>2 DEF IsBracketed
  <2>5. Reads(names, x, h) = Reads(names, r, Set(h, n, v))
    <3>1. Reads(names, QuotedText(n, v, r), h) = Reads(names, r, Set(h, n, v))
      BY <1>1, <2>2, ReadsQuoted
    <3>2. QuotedText(n, v, r) = x
      BY <2>4, Zenon DEF QuotedText, q
    <3> QED
      BY <3>1, <3>2
  <2>6. Live(names, Set(h, n, v))
    BY <1>1, <2>2, SetIs
  <2>7. g = Set(h, n, v)
    BY <2>1
  <2>8. Live(names, g) /\ Reads(names, x, h) = Reads(names, r, g)
    BY <2>5, <2>6, <2>7
  <2> QED
    BY <2>4, <2>8 DEF IsNamed, t
<1> QED
  BY <1>3, <1>4

\* A separator in front changes nothing.
LEMMA CleanStop ==
  ASSUME NEW names, Known(names), NEW c \in Stops, NEW y \in Seq(STRING), Clean(y)
  PROVE  /\ Clean(Cat(<<c>>, y)) /\ Starts(Cat(<<c>>, y), Stops) /\ Cat(<<c>>, y) \in Seq(STRING)
         /\ Cat(<<c>>, y) # <<>>
         /\ \A h : Live(names, h) => Reads(names, Cat(<<c>>, y), h) = Reads(names, y, h)
<1> DEFINE a == <<c>>
           x == Cat(a, y)
<1>1. c \in STRING
  BY BreaksLemma
<1>2. a \in Seq(STRING) /\ a # <<>> /\ a[1] = c /\ a \in Seq(Stops)
  BY <1>1, OneElement
<1>3. PICK q, z : IsClean(y, q, z)
  BY DEF Clean
<1>4. /\ y = Cat(q, z) /\ q \in Seq(Stops) /\ z \in Seq(STRING)
      /\ z # <<>> => z[1] \notin Breaks
  BY <1>3 DEF IsClean
<1>5. q \in Seq(STRING)
  <2>1. Stops \subseteq STRING
    BY BreaksLemma
  <2> QED
    BY <1>4, <2>1, SeqMonotonic
<1> HIDE DEF a
<1>6. x \in Seq(STRING) /\ x # <<>> /\ Starts(x, Stops)
  <2>1. Starts(a, Stops)
    BY <1>2 DEF Starts
  <2> QED
    BY <1>2, <2>1, StartsCat
<1> DEFINE p == Cat(a, q)
<1>7. p \in Seq(Stops)
  BY <1>2, <1>4, CatLemma
<1>8. Cat(p, z) = Cat(a, y)
  BY <1>2, <1>4, <1>5, TextAssoc
<1> HIDE DEF p
<1>9. IsClean(x, p, z)
  BY <1>4, <1>7, <1>8 DEF IsClean
<1> HIDE DEF x
<1>10. Clean(x)
  BY <1>9 DEF Clean
<1>11. ASSUME NEW h, Live(names, h) PROVE Reads(names, x, h) = Reads(names, y, h)
  <2>1. Reads(names, x, h) = Reads(names, z, h) /\ Reads(names, y, h) = Reads(names, z, h)
    BY <1>3, <1>9, <1>11, ReadsClean
  <2> QED
    BY <2>1
<1> QED
  BY <1>6, <1>10, <1>11 DEF x, a

\* A text that begins with the first character of a word.
LEMMA CleanWord ==
  ASSUME NEW x \in Seq(STRING), x # <<>>, x[1] \notin Breaks
  PROVE  Clean(x)
<1> DEFINE o == <<>>
<1>1. o \in Seq(Stops) /\ x = Cat(o, x)
  BY EmptySeq, TextEmpty
<1> HIDE DEF o
<1>2. IsClean(x, o, x)
  BY <1>1 DEF IsClean
<1> QED
  BY <1>2 DEF Clean

\* A header as it is made, and what the parser has of it behind some of its names.
Writable(names, a) ==
  /\ a \in Values(names) /\ a.gone = FALSE /\ a.scheme = <<"Digest">>
  /\ \A n \in names : a.value[n] \in ValueFor(n)

Arrived(names, a) ==
  [gone |-> FALSE, scheme |-> <<"Digest">>, value |-> [n \in names |-> Arriving(n, a.value[n])]]

Among(ns, n) == \E i \in 1 .. Len(ns) : ns[i] = n

Progress(names, a, h, ns) ==
  /\ Live(names, h) /\ h.scheme = <<"Digest">>
  /\ \A n \in names : h.value[n] = Arriving(n, a.value[n]) \/ (h.value[n] = <<>> /\ Among(ns, n))

\* What is written of the names ns.
NamesText(a, ns) == FlattenSeq([i \in DOMAIN ns |-> Named(a, ns[i])])

\* It is read.
IsNames(names, a, ns) ==
  LET t == NamesText(a, ns)
  IN  /\ t \in Seq(Tokens) /\ Clean(t) /\ Starts(t, Stops)
      /\ \A h : Progress(names, a, h, ns) => Reads(names, t, h) = Arrived(names, a)

\* Nothing arrives as nothing.
LEMMA ArrivingEmpty == \A n : Arriving(n, <<>>) = <<>>
<1> SUFFICES ASSUME NEW n PROVE Arriving(n, <<>>) = <<>>
  OBVIOUS
<1> DEFINE e == <<>>
           C == {",", " "}
<1>1. e \in Seq(STRING) /\ \A i \in 1 .. Len(e) : e[i] \notin C
  BY EmptySeq
<1> HIDE DEF e, C
<1>2. FirstIn(e, C) = 0
  BY <1>1, FirstInNone
<1>3. FirstPart(e, C) = e
  BY <1>2, Zenon DEF FirstPart
<1> QED
  BY <1>3, Zenon DEF Arriving, e, C

\* Of no names nothing is read.
LEMMA NamesFirst ==
  ASSUME NEW names, Known(names), NEW a
  PROVE  IsNames(names, a, <<>>)
<1> DEFINE e == <<>>
<1>1. NamesText(a, e) = e
  <2>1. DOMAIN e = {} /\ e \in Seq(Seq(STRING))
    BY EmptySeq
  <2>2. [i \in DOMAIN e |-> Named(a, e[i])] = e
    OBVIOUS
  <2>3. FlattenSeq(e) = e
    <3>1. Beyond(e, 0) = FlattenSeq(e) /\ Beyond(e, Len(e)) = <<>> /\ Len(e) = 0
      BY <2>1, BeyondEnds, EmptySeq
    <3> QED
      BY <3>1
  <2> QED
    BY <2>2, <2>3, Zenon DEF NamesText
<1>2. e \in Seq(Tokens) /\ e \in Seq(Stops) /\ e \in Seq(STRING) /\ Len(e) = 0
  BY EmptySeq
<1>3. Starts(e, Stops)
  BY DEF Starts
<1> HIDE DEF e
<1>4. Clean(e)
  <2>1. Cat(e, e) = e
    BY <1>2, TextEmpty DEF e
  <2>2. IsClean(e, e, e)
    BY <1>2, <2>1 DEF IsClean, e
  <2> QED
    BY <2>2 DEF Clean
<1>5. ASSUME NEW h, Progress(names, a, h, e) PROVE Reads(names, e, h) = Arrived(names, a)
  <2>1. Live(names, h) /\ h.scheme = <<"Digest">>
    BY <1>5 DEF Progress
  <2>2. \A n : ~Among(e, n)
    BY <1>2 DEF Among
  <2>3. \A n \in names : h.value[n] = Arriving(n, a.value[n])
    BY <1>5, <2>2 DEF Progress
  <2> DEFINE f == [n \in names |-> Arriving(n, a.value[n])]
  <2>4. h.value = f
    <3>1. h.value \in [names -> Seq(STRING)]
      BY <2>1 DEF Live, Values
    <3>2. h.value = [n \in names |-> h.value[n]]
      BY <3>1
    <3> QED
      BY <2>3, <3>2
  <2> HIDE DEF f
  <2>5. h = [gone |-> h.gone, scheme |-> h.scheme, value |-> h.value] /\ h.gone = FALSE
    BY <2>1 DEF Live, Values
  <2>6. h = [gone |-> FALSE, scheme |-> <<"Digest">>, value |-> f]
    BY <2>1, <2>4, <2>5, Zenon
  <2>7. Reads(names, e, h) = h
    BY <1>2, <2>1, ReadsStops
  <2> QED
    BY <2>6, <2>7, Zenon DEF Arrived, f
<1>6. IsNames(names, a, e)
  BY <1>1, <1>2, <1>3, <1>4, <1>5 DEF IsNames
<1> QED
  BY <1>6 DEF e

\* What is written of one name, but for the comma.
WithoutComma(a, n) == IF a.value[n] = <<>> THEN <<>> ELSE NamedText(n, a.value[n])

\* With one more name in front, its value is read first.
LEMMA NamesStep ==
  ASSUME NEW names, names = Www \/ names = Auth, NEW a, Writable(names, a),
         NEW e \in names, NEW ns \in Seq(names), IsNames(names, a, ns),
         NEW t, t = NamesText(a, ns), NEW p, p = WithoutComma(a, e), NEW us, us = Cat(<<e>>, ns)
  PROVE  /\ p \in Seq(Tokens) /\ Cat(p, t) \in Seq(Tokens) /\ Clean(Cat(p, t))
         /\ a.value[e] = <<>> => Cat(p, t) = t
         /\ \A h : Progress(names, a, h, us) => Reads(names, Cat(p, t), h) = Arrived(names, a)
<1>1. Known(names)
  BY KnownNames
<1>2. /\ t \in Seq(Tokens) /\ Clean(t) /\ Starts(t, Stops)
      /\ \A h : Progress(names, a, h, ns) => Reads(names, t, h) = Arrived(names, a)
  BY DEF IsNames
<1>3. t \in Seq(STRING)
  BY <1>2, LinesAreTexts
<1> DEFINE v == a.value[e]
<1>4. v \in ValueFor(e)
  BY DEF Writable
<1>5. ASSUME NEW n \in names, Among(us, n), n # e PROVE Among(ns, n)
  <2>1. PICK i \in 1 .. Len(us) : us[i] = n
    BY <1>5 DEF Among
  <2> DEFINE m == Len(ns)
             j == i - 1
  <2>2. IsCons(us, names, e, ns, m)
    BY ConsIs
  <2> HIDE DEF m
  <2>3. m \in Nat /\ Len(us) = m + 1 /\ us[1] = e
    BY <2>2 DEF IsCons
  <2>4. i # 1
    BY <1>5, <2>1, <2>3
  <2>5. j \in 1 .. m /\ j + 1 = i /\ j - 1 \in 0 .. m /\ j = (j - 1) + 1
    BY <2>3, <2>4
  <2> DEFINE k == j - 1
  <2>6. k \in 0 .. m /\ j \in 1 .. m /\ j = k + 1
    BY <2>5
  <2> HIDE DEF k, j
  <2>7. At(us, j + 1) = ns[j]
    BY <2>2, <2>6 DEF IsCons
  <2>8. us[i] = ns[j]
    BY <2>5, <2>7 DEF At
  <2> QED
    BY <2>1, <2>5, <2>8 DEF Among, m
<1>6. CASE v = <<>>
  <2>1. p = <<>>
    BY <1>6 DEF WithoutComma
  <2>2. Cat(p, t) = t /\ p \in Seq(Tokens)
    BY <1>3, <2>1, TextEmpty, LineEmpty
  <2>3. ASSUME NEW h, Progress(names, a, h, us) PROVE Progress(names, a, h, ns)
    <3>1. /\ Live(names, h) /\ h.scheme = <<"Digest">>
          /\ \A n \in names : h.value[n] = Arriving(n, a.value[n]) \/ (h.value[n] = <<>> /\ Among(us, n))
      BY <2>3 DEF Progress
    <3>2. ASSUME NEW n \in names, h.value[n] # Arriving(n, a.value[n])
          PROVE  h.value[n] = <<>> /\ Among(ns, n)
      <4>1. h.value[n] = <<>> /\ Among(us, n)
        BY <3>1, <3>2
      <4>2. n # e
        BY <1>6, <3>2, <4>1, ArrivingEmpty
      <4> QED
        BY <1>5, <4>1, <4>2
    <3> QED
      BY <3>1, <3>2 DEF Progress
  <2> QED
    BY <1>2, <2>2, <2>3
<1>7. CASE v # <<>>
  <2>1. p = NamedText(e, v)
    BY <1>7 DEF WithoutComma
  <2> DEFINE x == Cat(p, t)
             w == Arriving(e, v)
  <2>2. \A h : Live(names, h) => IsNamed(names, e, v, h, t)
    <3> HIDE DEF v
    <3> QED
      BY <1>2, <1>3, <1>4, <1>7, NamedIs
  <2> HIDE DEF v
  <2>3. ASSUME NEW h, Live(names, h)
        PROVE  /\ p \in Seq(Tokens) /\ x \in Seq(STRING) /\ x # <<>> /\ x[1] = e
               /\ Reads(names, x, h) = Reads(names, t, Set(h, e, w)) /\ Live(names, Set(h, e, w))
    <3>1. IsNamed(names, e, v, h, t)
      BY <2>2, <2>3
    <3> QED
      BY <2>1, <3>1 DEF IsNamed
  <2>4. Live(names, a)
    BY DEF Writable, Live
  <2>5. p \in Seq(Tokens) /\ x \in Seq(STRING) /\ x # <<>> /\ x[1] = e
    BY <2>3, <2>4
  <2>6. Clean(x)
    <3>1. e \notin Breaks
      BY <1>1 DEF Known
    <3> HIDE DEF x
    <3> QED
      BY <2>5, <3>1, CleanWord
  <2>7. ASSUME NEW h, Progress(names, a, h, us) PROVE Progress(names, a, Set(h, e, w), ns)
    <3>1. /\ Live(names, h) /\ h.scheme = <<"Digest">>
          /\ \A n \in names : h.value[n] = Arriving(n, a.value[n]) \/ (h.value[n] = <<>> /\ Among(us, n))
      BY <2>7 DEF Progress
    <3> DEFINE g == Set(h, e, w)
    <3>2. Live(names, g)
      BY <2>3, <3>1
    <3>3. /\ g.scheme = h.scheme /\ g.value[e] = w
          /\ \A n \in names \ {e} : g.value[n] = h.value[n]
      <4>1. h.value \in [names -> Seq(STRING)]
            /\ h = [gone |-> h.gone, scheme |-> h.scheme, value |-> h.value]
        BY <3>1 DEF Live, Values
      <4> DEFINE f == [h.value EXCEPT ![e] = w]
      <4> HIDE DEF w
      <4>2. g = [h EXCEPT !.value = f]
        BY Zenon DEF Set
      <4> HIDE DEF g, f
      <4>3. g.scheme = h.scheme /\ g.value = f
        BY <3>1, <4>2 DEF Live, Values
      <4> USE DEF f
      <4> QED
        BY <4>1, <4>3
    <3> HIDE DEF g
    <3>4. ASSUME NEW n \in names
          PROVE  g.value[n] = Arriving(n, a.value[n]) \/ (g.value[n] = <<>> /\ Among(ns, n))
      <4>1. CASE n = e
        BY <3>3, <4>1 DEF v
      <4>2. CASE n # e
        BY <1>5, <3>1, <3>3, <4>2
      <4> QED
        BY <4>1, <4>2
    <3> QED
      BY <3>1, <3>2, <3>3, <3>4 DEF Progress, g
  <2>8. ASSUME NEW h, Progress(names, a, h, us) PROVE Reads(names, x, h) = Arrived(names, a)
    <3>1. Live(names, h)
      BY <2>8 DEF Progress
    <3>2. Reads(names, x, h) = Reads(names, t, Set(h, e, w))
      BY <2>3, <3>1
    <3>3. Progress(names, a, Set(h, e, w), ns)
      BY <2>7, <2>8
    <3> QED
      BY <1>2, <3>2, <3>3
  <2>9. x \in Seq(Tokens)
    BY <1>2, <2>5, LineCat
  <2> QED
    BY <1>7, <2>5, <2>6, <2>8, <2>9 DEF v
<1> QED
  BY <1>6, <1>7

\* What is written of one more name stands in front.
LEMMA NamesCons ==
  ASSUME NEW names, NEW a, NEW e \in names, NEW ns \in Seq(names),
         \A n \in names : Named(a, n) \in Seq(Tokens)
  PROVE  NamesText(a, Cat(<<e>>, ns)) = Cat(Named(a, e), NamesText(a, ns))
<1> DEFINE us == Cat(<<e>>, ns)
           ps == [i \in DOMAIN ns |-> Named(a, ns[i])]
           qs == [i \in DOMAIN us |-> Named(a, us[i])]
           q == Named(a, e)
           rs == Cat(<<q>>, ps)
           m == Len(ns)
<1>1. IsCons(us, names, e, ns, m)
  BY ConsIs
<1>2. /\ us \in Seq(names) /\ m \in Nat /\ Len(us) = m + 1 /\ us[1] = e
      /\ \A h \in 0 .. m, i \in 1 .. m : i = h + 1 => At(us, i + 1) = ns[i]
  BY <1>1 DEF IsCons
<1>3. DOMAIN us = 1 .. m + 1 /\ DOMAIN ns = 1 .. m
  BY <1>2, LenProperties
<1>4. q \in Seq(Tokens) /\ ps \in Seq(Seq(Tokens)) /\ Len(ps) = m
  <2>1. ps \in [1 .. m -> Seq(Tokens)]
    <3>1. \A i \in 1 .. m : ns[i] \in names
      BY ElementOfSeq
    <3> QED
      BY <1>3, <3>1
  <2> HIDE DEF ps, m
  <2> QED
    BY <1>2, <2>1, SeqIs
<1> HIDE DEF us, q, ps
<1>5. IsCons(rs, Seq(Tokens), q, ps, m)
  BY <1>4, ConsIs
<1> HIDE DEF rs
<1>6. /\ rs \in Seq(Seq(Tokens)) /\ Len(rs) = m + 1 /\ rs[1] = q
      /\ \A h \in 0 .. m, i \in 1 .. m : i = h + 1 => At(rs, i + 1) = ps[i]
  BY <1>5 DEF IsCons
<1>7. DOMAIN rs = 1 .. m + 1 /\ rs = [i \in 1 .. m + 1 |-> rs[i]]
  BY <1>6, LenProperties
<1>8. ASSUME NEW i \in 1 .. m + 1 PROVE rs[i] = Named(a, us[i])
  <2>1. CASE i = 1
    BY <1>2, <1>6, <2>1 DEF q
  <2>2. CASE i # 1
    <3> DEFINE j == i - 1
               k == j - 1
    <3>1. k \in 0 .. m /\ j \in 1 .. m /\ j = k + 1 /\ j + 1 = i
      BY <1>2, <2>2
    <3> HIDE DEF j, k
    <3>2. At(rs, j + 1) = ps[j] /\ At(us, j + 1) = ns[j]
      BY <1>2, <1>6, <3>1
    <3>3. rs[i] = ps[j] /\ us[i] = ns[j]
      BY <3>1, <3>2 DEF At
    <3>4. ps[j] = Named(a, ns[j])
      BY <1>3, <3>1 DEF ps
    <3> QED
      BY <3>3, <3>4
  <2> QED
    BY <2>1, <2>2
<1>9. qs = rs
  BY <1>3, <1>7, <1>8
<1>10. FlattenSeq(rs) = Cat(q, FlattenSeq(ps))
  BY <1>4, FlattenCons DEF rs
<1> QED
  BY <1>9, <1>10, Zenon DEF NamesText, qs, ps, us, q

\* With its comma.
LEMMA NamedComma ==
  ASSUME NEW names, names = Www \/ names = Auth, NEW a, Writable(names, a), NEW n \in names,
         NEW c, c = <<",">>
  PROVE  /\ WithoutComma(a, n) \in Seq(Tokens) /\ Named(a, n) \in Seq(Tokens)
         /\ n = "realm" \/ a.value[n] = <<>> => Named(a, n) = WithoutComma(a, n)
         /\ n # "realm" /\ a.value[n] # <<>> => Named(a, n) = Cat(c, WithoutComma(a, n))
<1> DEFINE p == WithoutComma(a, n)
           v == a.value[n]
           e == <<>>
           m == NamedText(n, v)
           quote == IF n \in Unquoted THEN <<>> ELSE <<Quote>>
<1>1. p \in Seq(Tokens)
  <2> DEFINE ns == <<>>
             us == Cat(<<n>>, ns)
             t == NamesText(a, ns)
  <2>1. IsNames(names, a, ns)
    BY KnownNames, NamesFirst
  <2>2. ns \in Seq(names)
    BY EmptySeq
  <2> HIDE DEF p, ns, us, t
  <2>3. p = WithoutComma(a, n) /\ us = Cat(<<n>>, ns) /\ t = NamesText(a, ns)
    BY DEF p, us, t
  <2> QED
    BY <2>1, <2>2, <2>3, NamesStep
<1>2. m = <<n, "=">> \o (quote \o (v \o quote))
  BY Zenon DEF NamedText
<1>3. CASE v = <<>>
  <2>1. Named(a, n) = <<>> /\ p = <<>>
    BY <1>3, Zenon DEF Named, WithoutComma
  <2> QED
    BY <1>1, <1>3, <2>1
<1>4. CASE v # <<>>
  <2>1. p = m
    BY <1>4, Zenon DEF WithoutComma
  <2>2. Named(a, n) = (IF n = "realm" THEN <<>> ELSE <<",">>) \o m
    BY <1>2, <1>4, Zenon DEF Named
  <2> HIDE DEF m, v, p, e
  <2>3. CASE n = "realm"
    <3>1. Named(a, n) = Cat(e, p)
      BY <2>1, <2>2, <2>3, Zenon DEF Cat, e
    <3>2. Cat(e, p) = p
      BY <1>1, LinesAreTexts, TextEmpty DEF e
    <3> QED
      BY <1>1, <2>3, <3>1, <3>2 DEF p
  <2>4. CASE n # "realm"
    <3>1. Named(a, n) = Cat(c, p)
      BY <2>1, <2>2, <2>4, Zenon DEF Cat
    <3>2. c \in Seq(Tokens)
      <4>1. "," \in Tokens
        BY BreaksLemma DEF Breaks
      <4> QED
        BY <4>1, LineToken
    <3>3. Cat(c, p) \in Seq(Tokens)
      BY <1>1, <3>2, LineCat
    <3> QED
      BY <1>1, <1>4, <2>4, <3>1, <3>3 DEF p, v
  <2> QED
    BY <2>3, <2>4
<1> QED
  BY <1>3, <1>4

\* All names but the realm, in any order.
LEMMA NamesAre ==
  ASSUME NEW names, names = Www \/ names = Auth, NEW a, Writable(names, a)
  PROVE  \A ns \in Seq(names \ {"realm"}) : IsNames(names, a, ns)
<1> DEFINE S == names \ {"realm"}
           T == {ns \in Seq(S) : IsNames(names, a, ns)}
           c == <<",">>
<1>1. Known(names)
  BY KnownNames
<1>2. <<>> \in T
  BY <1>1, NamesFirst, EmptySeq
<1>3. ASSUME NEW e \in S, NEW ns \in Seq(S), ns \in T PROVE Cat(<<e>>, ns) \in T
  <2> DEFINE us == Cat(<<e>>, ns)
             t == NamesText(a, ns)
             p == WithoutComma(a, e)
             x == Cat(p, t)
             q == Named(a, e)
  <2>1. IsNames(names, a, ns) /\ ns \in Seq(names)
    <3>1. S \subseteq names
      OBVIOUS
    <3> QED
      BY <1>3, <3>1, SeqMonotonic
  <2>2. us \in Seq(S)
    <3>1. <<e>> \in Seq(S)
      BY OneElement
    <3> QED
      BY <3>1, CatLemma
  <2>3. NamesText(a, us) = Cat(q, t)
    <3>1. \A n \in names : Named(a, n) \in Seq(Tokens)
      BY NamedComma
    <3> QED
      BY <2>1, <3>1, NamesCons
  <2>4. /\ p \in Seq(Tokens) /\ q \in Seq(Tokens)
        /\ a.value[e] = <<>> => q = p
        /\ a.value[e] # <<>> => q = Cat(c, p)
    BY NamedComma
  <2>5. /\ x \in Seq(Tokens) /\ Clean(x)
        /\ a.value[e] = <<>> => x = t
        /\ \A h : Progress(names, a, h, us) => Reads(names, x, h) = Arrived(names, a)
    <3> HIDE DEF us, t, p, T, S
    <3>1. us = Cat(<<e>>, ns) /\ t = NamesText(a, ns) /\ p = WithoutComma(a, e) /\ e \in names
      BY DEF us, t, p, S
    <3> QED
      BY <2>1, <3>1, NamesStep
  <2>6. t \in Seq(Tokens) /\ Starts(t, Stops)
    BY <2>1 DEF IsNames
  <2> HIDE DEF us, t, p, q, T, S
  <2>7. CASE a.value[e] = <<>>
    <3>1. NamesText(a, us) = x
      BY <2>3, <2>4, <2>7
    <3>2. IsNames(names, a, us)
      BY <2>5, <2>6, <2>7, <3>1 DEF IsNames
    <3> QED
      BY <2>2, <3>2 DEF T, us
  <2>8. CASE a.value[e] # <<>>
    <3> DEFINE y == Cat(c, x)
    <3>1. c \in Seq(Tokens) /\ c \in Seq(STRING)
      <4>1. "," \in Tokens
        BY BreaksLemma DEF Breaks
      <4> QED
        BY <4>1, LineToken, LinesAreTexts
    <3>2. p \in Seq(STRING) /\ t \in Seq(STRING) /\ x \in Seq(STRING)
      BY <2>4, <2>5, <2>6, LinesAreTexts
    <3> HIDE DEF c
    <3>3. Cat(Cat(c, p), t) = y
      BY <3>1, <3>2, TextAssoc
    <3>4. NamesText(a, us) = y
      BY <2>3, <2>4, <2>8, <3>3
    <3>5. /\ Clean(y) /\ Starts(y, Stops)
          /\ \A h : Live(names, h) => Reads(names, y, h) = Reads(names, x, h)
      <4> DEFINE k == ","
      <4>1. k \in Stops
        BY BreaksLemma
      <4> HIDE DEF k, x
      <4>2. /\ Clean(Cat(<<k>>, x)) /\ Starts(Cat(<<k>>, x), Stops)
            /\ \A h : Live(names, h) => Reads(names, Cat(<<k>>, x), h) = Reads(names, x, h)
        BY <1>1, <2>5, <3>2, <4>1, CleanStop
      <4> QED
        BY <4>2 DEF k, c
    <3>6. y \in Seq(Tokens)
      BY <2>5, <3>1, LineCat
    <3>7. ASSUME NEW h, Progress(names, a, h, us) PROVE Reads(names, y, h) = Arrived(names, a)
      <4>1. Live(names, h)
        BY <3>7 DEF Progress
      <4> QED
        BY <2>5, <3>5, <3>7, <4>1
    <3> HIDE DEF y, x
    <3>8. IsNames(names, a, us)
      BY <3>4, <3>5, <3>6, <3>7 DEF IsNames
    <3> QED
      BY <2>2, <3>8 DEF T, us
  <2> QED
    BY <2>7, <2>8
<1> HIDE DEF T, S
<1>4. \A ns \in Seq(S) : ns \in T
  BY <1>2, <1>3, SeqInduction
<1> QED
  BY <1>4 DEF T, S

\* The scheme and all the names, the realm first.
SchemeTrips(names, a, order) ==
  /\ InOrder(a, order) \in Seq(Tokens)
  /\ AuthCommonPrase(names, Cat(<<" ">>, InOrder(a, order))) = Arrived(names, a)

\* They are read back.
LEMMA SchemeTrip ==
  ASSUME NEW names, names = Www \/ names = Auth, NEW a, Writable(names, a),
         NEW rest \in Seq(names \ {"realm"}), NEW order, order = Cat(<<"realm">>, rest),
         \A n \in names : Among(order, n)
  PROVE  SchemeTrips(names, a, order)
<1> DEFINE realm == "realm"
           digest == "Digest"
           blank == " "
           t == NamesText(a, rest)
           p == WithoutComma(a, realm)
           y == Cat(p, t)
           b == <<blank>>
           s1 == Cat(b, y)
           d == <<digest>>
           s2 == Cat(d, s1)
           s3 == Cat(b, s2)
           h == NoValues(names)
           g == SetName(h, d)
<1>1. realm \in names /\ Known(names)
  BY KnownNames DEF Www, Auth
<1>2. digest \in Tokens /\ digest \in STRING /\ digest \notin Breaks
  <2>1. digest \in STRING
    BY WrittenAssumption DEF Written
  <2>2. digest \notin {CR, LF} /\ digest \notin Breaks
    BY DEF CR, LF, Breaks, Quote
  <2> QED
    BY <2>1, <2>2 DEF Tokens
<1>3. blank \in Stops /\ blank \in Tokens
  BY BreaksLemma DEF Breaks
<1>4. rest \in Seq(names) /\ IsNames(names, a, rest)
  <2> DEFINE S == names \ {"realm"}
  <2>1. S \subseteq names
    OBVIOUS
  <2>2. rest \in Seq(names)
    BY <2>1, SeqMonotonic
  <2>3. IsNames(names, a, rest)
    BY NamesAre
  <2> QED
    BY <2>2, <2>3
<1>5. order = Cat(<<realm>>, rest)
  OBVIOUS
<1>6. h \in Values(names) /\ h.gone = FALSE /\ h.scheme = <<>> /\ h.value = [n \in names |-> <<>>]
  <2>1. <<>> \in Seq(STRING)
    BY EmptySeq
  <2> QED
    BY <2>1 DEF NoValues, Values
<1> HIDE DEF h
<1>7. g = [h EXCEPT !.scheme = d]
  <2>1. DOMAIN h.value = names
    BY <1>6
  <2>2. ~\E n \in DOMAIN h.value : d = <<n>>
    <3>1. \A n : d = <<n>> => n = digest
      OBVIOUS
    <3> QED
      BY <1>1, <2>1, <3>1 DEF Known
  <2>3. d = <<"Digest">>
    OBVIOUS
  <2> HIDE DEF d
  <2> QED
    BY <2>2, <2>3, Zenon DEF SetName
<1>8. d \in Seq(STRING \ Breaks) /\ d # <<>> /\ d[1] = digest /\ d \in Seq(Tokens) /\ d \in Seq(STRING)
      /\ d = <<"Digest">>
  <2>1. d \in Seq(STRING \ Breaks) /\ d \in Seq(Tokens) /\ d \in Seq(STRING)
    <3> HIDE DEF digest
    <3> QED
      BY <1>2, OneElement
  <2> QED
    BY <2>1
<1>9. b \in Seq(Tokens) /\ b \in Seq(STRING) /\ b = <<" ">>
  <2>1. b \in Seq(Tokens)
    <3> HIDE DEF blank
    <3> QED
      BY <1>3, LineToken
  <2> QED
    BY <2>1, LinesAreTexts
<1> HIDE DEF d, g, realm, digest
<1>10. Live(names, h) /\ Live(names, g) /\ g.scheme = <<"Digest">> /\ g.value = h.value
  BY <1>6, <1>7, <1>8 DEF Live, Values
<1>11. Progress(names, a, g, order)
  <2>1. \A n \in names : g.value[n] = <<>>
    BY <1>6, <1>10
  <2> QED
    BY <1>10, <2>1 DEF Progress
<1>12. /\ p \in Seq(Tokens) /\ y \in Seq(Tokens) /\ Clean(y)
       /\ \A k : Progress(names, a, k, order) => Reads(names, y, k) = Arrived(names, a)
  <2> HIDE DEF p, t
  <2>1. p = WithoutComma(a, realm) /\ t = NamesText(a, rest)
    BY DEF p, t
  <2> QED
    BY <1>1, <1>4, <1>5, <2>1, NamesStep
<1>13. Reads(names, y, g) = Arrived(names, a)
  BY <1>11, <1>12
<1>14. y \in Seq(STRING) /\ t \in Seq(Tokens)
  BY <1>4, <1>12, LinesAreTexts DEF IsNames
<1> HIDE DEF y
<1>15. /\ Clean(s1) /\ Starts(s1, Stops) /\ s1 \in Seq(STRING)
       /\ Reads(names, s1, g) = Reads(names, y, g)
  <2> HIDE DEF blank
  <2> QED
    BY <1>1, <1>3, <1>10, <1>12, <1>14, CleanStop
<1>16. s1 \in Seq(Tokens)
  BY <1>9, <1>12, LineCat
<1> HIDE DEF s1
<1>17. Reads(names, s2, h) = Reads(names, s1, g)
  <2>1. Known(names)
    BY <1>1
  <2>2. d \in Seq(STRING \ Breaks) /\ d # <<>>
    BY <1>8
  <2>3. s1 \in Seq(STRING) /\ Clean(s1) /\ Starts(s1, Stops)
    BY <1>15
  <2>4. Live(names, h) /\ Live(names, g)
    BY <1>10
  <2>5. g = SetName(h, d)
    BY DEF g
  <2> QED
    BY <2>1, <2>2, <2>3, <2>4, <2>5, ReadsWord
<1>18. s2 \in Seq(STRING) /\ Clean(s2) /\ s2 \in Seq(Tokens)
  <2>1. s2 \in Seq(Tokens)
    BY <1>8, <1>16, LineCat
  <2> DEFINE M == {digest}
  <2>2. Starts(d, M)
    BY <1>8 DEF Starts
  <2> HIDE DEF M
  <2>3. s2 \in Seq(STRING) /\ s2 # <<>> /\ s2[1] = digest
    BY <1>8, <1>15, <2>2, StartsCat
  <2> HIDE DEF s2
  <2>4. Clean(s2)
    BY <1>2, <2>3, CleanWord
  <2> QED
    BY <2>1, <2>3, <2>4
<1> HIDE DEF s2
<1>19. Reads(names, s3, h) = Reads(names, s2, h)
  <2> HIDE DEF blank
  <2> QED
    BY <1>1, <1>3, <1>10, <1>18, CleanStop
<1>20. InOrder(a, order) = s2
  <2>1. Scheme(a) = Cat(d, b)
    <3>1. a.scheme = d /\ a.scheme # <<>>
      BY <1>8 DEF Writable
    <3> QED
      BY <1>9, <3>1, Zenon DEF Scheme, Cat
  <2>2. InOrder(a, order) = Cat(Scheme(a), NamesText(a, order))
    BY Zenon DEF InOrder, NamesText, Cat
  <2>3. NamesText(a, order) = Cat(Named(a, realm), t)
    <3>1. \A n \in names : Named(a, n) \in Seq(Tokens)
      BY NamedComma
    <3>2. NamesText(a, Cat(<<realm>>, rest)) = Cat(Named(a, realm), NamesText(a, rest))
      BY <1>1, <1>4, <3>1, NamesCons
    <3> QED
      BY <1>5, <3>2
  <2>4. Named(a, realm) = p
    <3> DEFINE c == <<",">>
    <3>1. realm = "realm"
      BY DEF realm
    <3> HIDE DEF c
    <3>2. Named(a, realm) = WithoutComma(a, realm)
      BY <1>1, <3>1, NamedComma DEF c
    <3> QED
      BY <3>2
  <2>5. Cat(Cat(d, b), y) = Cat(d, Cat(b, y))
    BY <1>8, <1>9, <1>14, TextAssoc
  <2>6. InOrder(a, order) = Cat(Cat(d, b), y)
    BY <2>1, <2>2, <2>3, <2>4 DEF y
  <2> QED
    BY <2>5, <2>6 DEF s2, s1
<1>21. AuthCommonPrase(names, s3) = Reads(names, s3, h)
  BY AuthPraseIs, Zenon DEF Reads, h
<1>22. AuthCommonPrase(names, s3) = Arrived(names, a)
  BY <1>13, <1>15, <1>17, <1>19, <1>21
<1>23. s3 = Cat(<<" ">>, InOrder(a, order))
  BY <1>9, <1>20
<1> QED
  BY <1>18, <1>20, <1>22, <1>23 DEF SchemeTrips

\* The names in an order that begins with the realm.
IsOrder(names, order) ==
  /\ order \in Seq(names) /\ order # <<>> /\ order[1] = "realm"
  /\ \A i \in 1 .. Len(order) : i # 1 => order[i] # "realm"
  /\ \A n \in names : Among(order, n)

\* Such an order is the realm and the names behind it.
LEMMA OrderTrip ==
  ASSUME NEW names, names = Www \/ names = Auth, NEW a, Writable(names, a), NEW order,
         IsOrder(names, order)
  PROVE  SchemeTrips(names, a, order)
<1> DEFINE T == names \ {"realm"}
           n == Len(order)
           rest == Part(order, 1, n)
<1>1. order \in Seq(names) /\ order # <<>> /\ order[1] = "realm"
      /\ \A i \in 1 .. n : i # 1 => order[i] # "realm"
  BY DEF IsOrder
<1>2. n \in Nat /\ n # 0 /\ 1 \in 1 .. n /\ 0 \in 0 .. n /\ 1 <= n
  BY <1>1
<1>3. rest \in Seq(names) /\ order = Cat(<<order[1]>>, rest)
  <2>1. Part(order, 0, n) = order
    BY <1>1, PartAll
  <2>2. rest \in Seq(names) /\ Part(order, 0, n) = Cat(<<order[1]>>, rest)
    <3>1. 1 = 0 + 1
      OBVIOUS
    <3> QED
      BY <1>1, <1>2, <3>1, PartStep
  <2> QED
    BY <2>1, <2>2
<1>4. rest \in Seq(T)
  <2>1. IsPart(rest, names, order, 1, n)
    BY <1>1, <1>2, PartIs
  <2>2. \A i \in 1 .. Len(rest) : rest[i] \in T
    <3> TAKE i \in 1 .. Len(rest)
    <3>1. Len(rest) = n - 1 /\ rest[i] = order[1 + i] /\ rest[i] \in names
      BY <2>1, <1>2 DEF IsPart
    <3>2. 1 + i \in 1 .. n /\ 1 + i # 1
      BY <1>2, <3>1
    <3>3. order[1 + i] # "realm"
      BY <1>1, <3>2
    <3> QED
      BY <3>1, <3>3
  <2> HIDE DEF rest, T
  <2> QED
    BY <1>3, <2>2, SeqNarrow
<1>5. order = Cat(<<"realm">>, rest)
  BY <1>1, <1>3
<1>6. \A m \in names : Among(order, m)
  BY DEF IsOrder
<1> HIDE DEF rest, n
<1> QED
  BY <1>4, <1>5, <1>6, SchemeTrip

\* The orders of the two headers.
LEMMA WwwOrderIs == IsOrder(Www, WwwOrder)
<1>1. WwwOrder \in Seq(Www)
  BY DEF WwwOrder, Www
<1>2. WwwOrder # <<>> /\ WwwOrder[1] = "realm" /\ Len(WwwOrder) = 6
  BY DEF WwwOrder
<1>3. /\ WwwOrder[2] = "algorithm" /\ WwwOrder[3] = "nonce" /\ WwwOrder[4] = "opaque"
      /\ WwwOrder[5] = "qop" /\ WwwOrder[6] = "domain"
  BY DEF WwwOrder
<1>4. \A i \in 1 .. 6 : i # 1 => WwwOrder[i] # "realm"
  <2> TAKE i \in 1 .. 6
  <2>1. i = 1 \/ i = 2 \/ i = 3 \/ i = 4 \/ i = 5 \/ i = 6
    OBVIOUS
  <2> QED
    BY <1>3, <2>1
<1>5. \A n \in Www : Among(WwwOrder, n)
  <2> HIDE DEF WwwOrder
  <2> TAKE n \in Www
  <2>1. \/ n = "realm" \/ n = "nonce" \/ n = "opaque" \/ n = "algorithm" \/ n = "domain" \/ n = "qop"
    BY DEF Www
  <2>2. 1 \in 1 .. 6 /\ 2 \in 1 .. 6 /\ 3 \in 1 .. 6 /\ 4 \in 1 .. 6 /\ 5 \in 1 .. 6 /\ 6 \in 1 .. 6
    OBVIOUS
  <2> QED
    BY <1>2, <1>3, <2>1, <2>2 DEF Among
<1> QED
  BY <1>1, <1>2, <1>4, <1>5 DEF IsOrder

\* Authorization has ten of them.
LEMMA AuthOrderIs == IsOrder(Auth, AuthOrder)
<1>1. AuthOrder \in Seq(Auth)
  BY DEF AuthOrder, Auth
<1>2. AuthOrder # <<>> /\ AuthOrder[1] = "realm" /\ Len(AuthOrder) = 10
  BY DEF AuthOrder
<1>3. /\ AuthOrder[2] = "algorithm" /\ AuthOrder[3] = "nc" /\ AuthOrder[4] = "nonce"
      /\ AuthOrder[5] = "cnonce" /\ AuthOrder[6] = "opaque" /\ AuthOrder[7] = "username"
      /\ AuthOrder[8] = "response" /\ AuthOrder[9] = "uri" /\ AuthOrder[10] = "qop"
  BY DEF AuthOrder
<1>4. \A i \in 1 .. 10 : i # 1 => AuthOrder[i] # "realm"
  <2> TAKE i \in 1 .. 10
  <2>1. \/ i = 1 \/ i = 2 \/ i = 3 \/ i = 4 \/ i = 5 \/ i = 6 \/ i = 7 \/ i = 8 \/ i = 9 \/ i = 10
    OBVIOUS
  <2> QED
    BY <1>3, <2>1
<1>5. \A n \in Auth : Among(AuthOrder, n)
  <2> TAKE n \in Auth
  <2>1. \/ n = "realm" \/ n = "nonce" \/ n = "opaque" \/ n = "algorithm" \/ n = "uri" \/ n = "qop"
        \/ n = "username" \/ n = "nc" \/ n = "cnonce" \/ n = "response"
    BY DEF Auth
  <2>2. /\ 1 \in 1 .. 10 /\ 2 \in 1 .. 10 /\ 3 \in 1 .. 10 /\ 4 \in 1 .. 10 /\ 5 \in 1 .. 10
        /\ 6 \in 1 .. 10 /\ 7 \in 1 .. 10 /\ 8 \in 1 .. 10 /\ 9 \in 1 .. 10 /\ 10 \in 1 .. 10
    OBVIOUS
  <2> QED
    BY <1>2, <1>3, <2>1, <2>2 DEF Among
<1> QED
  BY <1>1, <1>2, <1>4, <1>5 DEF IsOrder

\* What arrives of the values.
LEMMA ArrivesIs ==
  ASSUME NEW f, f = "www" \/ f = "auth", NEW names, NEW a, Writable(names, a)
  PROVE  Arrives(f, a) = Arrived(names, a)
<1>1. /\ a = [gone |-> a.gone, scheme |-> a.scheme, value |-> a.value]
      /\ a.gone = FALSE /\ a.scheme = <<"Digest">> /\ DOMAIN a.value = names
  BY DEF Writable, Values
<1> DEFINE V == [n \in DOMAIN a.value |-> IF n \in Unquoted THEN FirstPart(a.value[n], {",", " "})
                                          ELSE a.value[n]]
           W == [n \in names |-> Arriving(n, a.value[n])]
<1>2. V = W
  BY <1>1 DEF Arriving
<1>3. Arrives(f, a) = [a EXCEPT !.value = V]
  BY DEF Arrives
<1> HIDE DEF V
<1>4. [a EXCEPT !.value = V] = [gone |-> FALSE, scheme |-> <<"Digest">>, value |-> V]
  <2> DEFINE no == FALSE
             y == a.value
             d == <<"Digest">>
             b == [gone |-> no, scheme |-> d, value |-> y]
  <2>1. a = b
    BY <1>1
  <2>2. [gone |-> no, scheme |-> d, value |-> V]
          = [gone |-> FALSE, scheme |-> <<"Digest">>, value |-> V]
    OBVIOUS
  <2> HIDE DEF no, y, d
  <2>3. [b EXCEPT !.value = V] = [gone |-> no, scheme |-> d, value |-> V]
    OBVIOUS
  <2> HIDE DEF b
  <2> QED
    BY <2>1, <2>2, <2>3, Zenon
<1>5. Arrived(names, a) = [gone |-> FALSE, scheme |-> <<"Digest">>, value |-> W]
  BY Zenon DEF Arrived
<1> QED
  BY <1>2, <1>3, <1>4, <1>5

\* A challenge that is written is read back, but for what is behind the first entry
\* of an unquoted list.
THEOREM WwwTrip ==
  ASSUME NEW a, Writable(Www, a)
  PROVE  /\ WwwToString(a) \in Seq(Tokens)
         /\ WwwPrase(Cat(<<" ">>, WwwToString(a))) = Arrives("www", a)
<1>1. SchemeTrips(Www, a, WwwOrder)
  BY WwwOrderIs, OrderTrip
<1>2. Arrives("www", a) = Arrived(Www, a)
  BY ArrivesIs
<1> QED
  BY <1>1, <1>2, Zenon DEF SchemeTrips, WwwToString, WwwPrase

\* So are the credentials of an Authorization.
THEOREM AuthTrip ==
  ASSUME NEW a, Writable(Auth, a)
  PROVE  /\ AuthorizationToString(a) \in Seq(Tokens)
         /\ AuthorizationPrase(Cat(<<" ">>, AuthorizationToString(a))) = Arrives("auth", a)
<1>1. SchemeTrips(Auth, a, AuthOrder)
  BY AuthOrderIs, OrderTrip
<1>2. Arrives("auth", a) = Arrived(Auth, a)
  BY ArrivesIs
<1> QED
  BY <1>1, <1>2, Zenon DEF SchemeTrips, AuthorizationToString, AuthorizationPrase


-----------------------------------------------------------------------------
(* Every header behind its name.                                           *)

Fields ==
  {"to_path", "from_path", "use_path", "status", "messid", "failure_report", "success_report",
   "expries", "max_expries", "min_expries", "byte_range", "www", "auth", "content_type"}
Tables == {"messid", "failure_report", "success_report"}

\* The values a header may have.
HeaderValues(f) ==
  CASE f \in Paths         -> Seq(Uris)
    [] f = "status"        -> StatusValues
    [] f \in Expiries      -> Numbers \ {0}
    [] f = "byte_range"    -> RangeValues
    [] f = "www"           -> {a \in Values(Www) : Writable(Www, a)}
    [] f = "auth"          -> {a \in Values(Auth) : Writable(Auth, a)}
    [] f = "content_type"  -> Seq(Entries) \ {<<>>}
    [] OTHER               -> WordsWithout({" ", ":"})

\* A value is a text of one line that the name ends at, and is read back, but for
\* that of an expiry, whose line is not read.
IsHeader(f, v) ==
  LET V == ValueToString(f, v)
  IN  /\ V \in Seq(Tokens) /\ V # <<>> /\ Starts(V, {" ", ":"})
      /\ f \in Expiries \/ ValuePrase(f, RmColon(V)) = {Arrives(f, v)}

\* It is, if it stands behind a colon; or behind a colon and a blank.
LEMMA HeaderColon ==
  ASSUME NEW f, NEW v, NEW x \in Seq(Tokens), ValueToString(f, v) = Cat(<<":">>, x),
         f \in Expiries \/ ValuePrase(f, x) = {Arrives(f, v)}
  PROVE  IsHeader(f, v)
<1> DEFINE V == Cat(<<":">>, x)
<1>1. IsColon(V, x)
  BY ColonIs
<1> HIDE DEF V
<1>2. V \in Seq(Tokens) /\ V # <<>> /\ Starts(V, {" ", ":"}) /\ RmColon(V) = x
  BY <1>1 DEF IsColon, Starts
<1>3. ValueToString(f, v) = V
  BY DEF V
<1> QED
  BY <1>2, <1>3, Zenon DEF IsHeader

\* A blank more.
LEMMA HeaderBlank ==
  ASSUME NEW f, NEW v, NEW x \in Seq(Tokens), ValueToString(f, v) = Cat(<<":", " ">>, x),
         f \in Expiries \/ ValuePrase(f, Cat(<<" ">>, x)) = {Arrives(f, v)}
  PROVE  IsHeader(f, v)
<1> DEFINE V == Cat(<<":", " ">>, x)
           y == Cat(<<" ">>, x)
<1>1. IsColon(V, y)
  BY ColonBlankIs
<1>2. ValueToString(f, v) = V /\ (f \in Expiries \/ ValuePrase(f, y) = {Arrives(f, v)})
  OBVIOUS
<1> HIDE DEF V, y
<1>3. V \in Seq(Tokens) /\ V # <<>> /\ Starts(V, {" ", ":"}) /\ RmColon(V) = y
  BY <1>1 DEF IsColon, Starts
<1> QED
  BY <1>2, <1>3, Zenon DEF IsHeader

\* Paths, Status and the expiries.
LEMMA PathHeader ==
  ASSUME NEW f \in Paths, NEW v \in HeaderValues(f)
  PROVE  IsHeader(f, v)
<1>1. f # "status" /\ f \notin Expiries /\ f # "byte_range" /\ f # "www" /\ f # "auth"
      /\ f # "content_type"
  BY DEF Paths, Expiries
<1>2. v \in Seq(Uris)
  BY <1>1 DEF HeaderValues
<1>3. ListUriToString(v) \in Seq(Tokens) /\ ListUriPrase[ListUriToString(v)] = v
  BY <1>2, ListUriTrip
<1>4. ValueToString(f, v) = Cat(<<":">>, ListUriToString(v))
  BY <1>1 DEF ValueToString, Cat
<1>5. \A s : ValuePrase(f, s) = {ListUriPrase[s]}
  BY <1>1 DEF ValuePrase
<1>6. Arrives(f, v) = v
  BY <1>1 DEF Arrives
<1>7. ValuePrase(f, ListUriToString(v)) = {Arrives(f, v)}
  BY <1>3, <1>5, <1>6
<1> QED
  BY <1>3, <1>4, <1>7, HeaderColon

\* Status stands behind a blank.
LEMMA StatusHeader ==
  ASSUME NEW f, f = "status", NEW v \in HeaderValues(f)
  PROVE  IsHeader(f, v)
<1>1. f \notin Paths /\ f \notin Expiries /\ f # "byte_range" /\ f # "www" /\ f # "auth"
      /\ f # "content_type"
  BY DEF Paths, Expiries
<1>2. v \in StatusValues
  BY <1>1 DEF HeaderValues
<1>3. ValueToString(f, v) = StatusToString(v)
  BY <1>1 DEF ValueToString
<1>4. \A s : ValuePrase(f, s) = {StatusPrase(s)}
  BY <1>1 DEF ValuePrase
<1>5. /\ StatusToString(v) \in Seq(Tokens) /\ StatusToString(v) # <<>>
      /\ Starts(StatusToString(v), {" "})
      /\ StatusPrase(RmColon(StatusToString(v))) = Arrives(f, v)
  BY <1>2, StatusTrip
<1>6. Starts(StatusToString(v), {" ", ":"})
  BY <1>5 DEF Starts
<1> QED
  BY <1>3, <1>4, <1>5, <1>6, Zenon DEF IsHeader

\* An expiry is a number.
LEMMA ExpiryHeader ==
  ASSUME NEW f \in Expiries, NEW v \in HeaderValues(f)
  PROVE  IsHeader(f, v)
<1>1. /\ f \notin Paths /\ f # "status" /\ f # "byte_range" /\ f # "www" /\ f # "auth"
      /\ f # "content_type"
  BY DEF Paths, Expiries
<1>2. v \in Numbers
  BY <1>1 DEF HeaderValues
<1>3. ValueToString(f, v) = Cat(<<":", " ">>, Decimal(v))
  BY <1>1 DEF ValueToString, Cat
<1>4. Decimal(v) \in Seq(Tokens)
  BY <1>2, NumberLine
<1> QED
  BY <1>3, <1>4, HeaderBlank

\* Byte-Range.
LEMMA RangeHeader ==
  ASSUME NEW f, f = "byte_range", NEW v \in HeaderValues(f)
  PROVE  IsHeader(f, v)
<1>1. f \notin Paths /\ f # "status" /\ f \notin Expiries /\ f # "www" /\ f # "auth"
      /\ f # "content_type"
  BY DEF Paths, Expiries
<1>2. v \in RangeValues
  BY <1>1 DEF HeaderValues
<1>3. ByteRangeToString(v) \in Seq(Tokens) /\ ByteRangePrase(ByteRangeToString(v)) = v
  BY <1>2, ByteRangeTrip
<1>4. ValueToString(f, v) = Cat(<<":">>, ByteRangeToString(v))
  BY <1>1 DEF ValueToString, Cat
<1>5. ValuePrase(f, ByteRangeToString(v)) = {v}
  BY <1>1, <1>3 DEF ValuePrase
<1>6. Arrives(f, v) = v
  BY <1>1 DEF Arrives
<1> QED
  BY <1>3, <1>4, <1>5, <1>6, HeaderColon

\* A challenge.
LEMMA WwwHeader ==
  ASSUME NEW f, f = "www", NEW v \in HeaderValues(f)
  PROVE  IsHeader(f, v)
<1>1. f \notin Paths /\ f # "status" /\ f \notin Expiries /\ f # "byte_range"
  BY DEF Paths, Expiries
<1>2. Writable(Www, v)
  BY <1>1 DEF HeaderValues
<1>3. /\ WwwToString(v) \in Seq(Tokens)
      /\ WwwPrase(Cat(<<" ">>, WwwToString(v))) = Arrives(f, v)
  BY <1>2, WwwTrip
<1>4. ValueToString(f, v) = Cat(<<":", " ">>, WwwToString(v))
  BY <1>1 DEF ValueToString, Cat
<1>5. \A s : ValuePrase(f, s) = {WwwPrase(s)}
  BY <1>1 DEF ValuePrase
<1>6. ValuePrase(f, Cat(<<" ">>, WwwToString(v))) = {Arrives(f, v)}
  BY <1>3, <1>5
<1> QED
  BY <1>3, <1>4, <1>6, HeaderBlank

\* An Authorization.
LEMMA AuthHeader ==
  ASSUME NEW f, f = "auth", NEW v \in HeaderValues(f)
  PROVE  IsHeader(f, v)
<1>1. f \notin Paths /\ f # "status" /\ f \notin Expiries /\ f # "byte_range" /\ f # "www"
  BY DEF Paths, Expiries
<1>2. Writable(Auth, v)
  BY <1>1 DEF HeaderValues
<1>3. /\ AuthorizationToString(v) \in Seq(Tokens)
      /\ AuthorizationPrase(Cat(<<" ">>, AuthorizationToString(v))) = Arrives(f, v)
  BY <1>2, AuthTrip
<1>4. ValueToString(f, v) = Cat(<<":", " ">>, AuthorizationToString(v))
  BY <1>1 DEF ValueToString, Cat
<1>5. \A s : ValuePrase(f, s) = {AuthorizationPrase(s)}
  BY <1>1 DEF ValuePrase
<1>6. ValuePrase(f, Cat(<<" ">>, AuthorizationToString(v))) = {Arrives(f, v)}
  BY <1>3, <1>5
<1> QED
  BY <1>3, <1>4, <1>6, HeaderBlank

\* Content-Type.
LEMMA TypeHeader ==
  ASSUME NEW f, f = "content_type", NEW v \in HeaderValues(f)
  PROVE  IsHeader(f, v)
<1>1. f \notin Paths /\ f # "status" /\ f \notin Expiries /\ f # "byte_range" /\ f # "www"
      /\ f # "auth"
  BY DEF Paths, Expiries
<1>2. v \in Seq(Entries) /\ v # <<>>
  BY <1>1 DEF HeaderValues
<1>3. /\ ContentTypeToString(v) \in Seq(Tokens)
      /\ ContentTypePrase(ContentTypeToString(v)) = <<v[1]>> \o Reverse(Tail(v))
  BY <1>2, ContentTypeTrip
<1>4. ValueToString(f, v) = Cat(<<":">>, ContentTypeToString(v))
  BY <1>1 DEF ValueToString, Cat
<1>5. \A s : ValuePrase(f, s) = {ContentTypePrase(s)}
  BY <1>1 DEF ValuePrase
<1>6. Arrives(f, v) = <<v[1]>> \o Reverse(Tail(v))
  BY <1>1 DEF Arrives
<1>7. ValuePrase(f, ContentTypeToString(v)) = {Arrives(f, v)}
  BY <1>3, <1>5, <1>6
<1> QED
  BY <1>3, <1>4, <1>7, HeaderColon

\* Message-ID and the reports are a word.
LEMMA WordHeader ==
  ASSUME NEW f \in Tables, NEW v \in HeaderValues(f)
  PROVE  IsHeader(f, v)
<1>1. f \notin Paths /\ f # "status" /\ f \notin Expiries /\ f # "byte_range" /\ f # "www"
      /\ f # "auth" /\ f # "content_type"
  BY DEF Paths, Expiries, Tables
<1>2. v \in WordsWithout({" ", ":"})
  BY <1>1 DEF HeaderValues
<1>3. v \in Seq(Tokens) /\ v # <<>>
  BY <1>2, WordsAreTexts
<1>4. MessWord(Cat(<<" ">>, v)).word = v
  BY <1>2, MessWordIs
<1>5. ValueToString(f, v) = Cat(<<":", " ">>, v)
  BY <1>1 DEF ValueToString, Cat
<1>6. \A s : ValuePrase(f, s) = {MessWord(s).word} \ {<<>>}
  BY <1>1 DEF ValuePrase
<1>7. Arrives(f, v) = v
  BY <1>1 DEF Arrives
<1>8. ValuePrase(f, Cat(<<" ">>, v)) = {Arrives(f, v)}
  <2> DEFINE s == Cat(<<" ">>, v)
             w == MessWord(s).word
  <2>1. ValuePrase(f, s) = {w} \ {<<>>}
    BY <1>6
  <2>2. w = v
    BY <1>4
  <2> HIDE DEF w, s
  <2>3. {w} \ {<<>>} = {v}
    BY <1>3, <2>2
  <2> QED
    BY <1>7, <2>1, <2>3 DEF s
<1> QED
  BY <1>3, <1>5, <1>8, HeaderBlank

\* All of them.
LEMMA HeaderTrip ==
  ASSUME NEW f \in Fields, NEW v \in HeaderValues(f)
  PROVE  IsHeader(f, v)
<1>1. \/ f \in Paths \/ f = "status" \/ f \in Expiries \/ f = "byte_range" \/ f = "www"
      \/ f = "auth" \/ f = "content_type" \/ f \in Tables
  BY DEF Fields, Paths, Expiries, Tables
<1> QED
  BY <1>1, PathHeader, StatusHeader, ExpiryHeader, RangeHeader, WwwHeader, AuthHeader,
     TypeHeader, WordHeader


-----------------------------------------------------------------------------
(* One line after the other.                                               *)

\* A line: its name and what is behind it.
NamedLines == [name : Seq(STRING), text : Seq(STRING)]

\* The messages after one more line.
After(ms, l) == UNION {SetHeader(m, l.name, l.text) : m \in ms}

\* g has the messages after so many of the lines.
IsSets(g, ms, ls, n) ==
  /\ g = [k \in 0 .. n |-> g[k]] /\ g[0] = ms
  /\ \A h \in 0 .. n, i \in 1 .. n : i = h + 1 => g[i] = After(g[h], ls[i])

\* There is such a function.
LEMMA SetsExist ==
  ASSUME NEW ms, NEW ls, NEW n \in Nat
  PROVE  \E g : IsSets(g, ms, ls, n)
<1> DEFINE T == {m \in Nat : \E g : IsSets(g, ms, ls, m)}
<1>1. 0 \in T
  <2> DEFINE g == [k \in 0 .. 0 |-> ms]
  <2>1. g = [k \in 0 .. 0 |-> g[k]] /\ g[0] = ms
    OBVIOUS
  <2>2. \A i \in 1 .. 0 : FALSE
    OBVIOUS
  <2> HIDE DEF g
  <2>3. IsSets(g, ms, ls, 0)
    BY <2>1, <2>2 DEF IsSets
  <2> QED
    BY <2>3
<1>2. ASSUME NEW m \in Nat, m \in T PROVE m + 1 \in T
  <2>1. PICK f : IsSets(f, ms, ls, m)
    BY <1>2
  <2> DEFINE n1 == m + 1
             l == After(f[m], ls[n1])
             g == [k \in 0 .. n1 |-> IF k <= m THEN f[k] ELSE l]
  <2>2. n1 \in Nat
    OBVIOUS
  <2> HIDE DEF l
  <2>3. \A k \in 0 .. m : g[k] = f[k]
    OBVIOUS
  <2>4. g[n1] = l
    OBVIOUS
  <2>5. g = [k \in 0 .. n1 |-> g[k]]
    OBVIOUS
  <2> HIDE DEF g
  <2>6. g[0] = ms
    BY <2>1, <2>3 DEF IsSets
  <2>7. \A h \in 0 .. n1, i \in 1 .. n1 : i = h + 1 => g[i] = After(g[h], ls[i])
    <3> SUFFICES ASSUME NEW h \in 0 .. n1, NEW i \in 1 .. n1, i = h + 1
                 PROVE  g[i] = After(g[h], ls[i])
      OBVIOUS
    <3>1. h \in 0 .. m
      OBVIOUS
    <3>2. CASE i = n1
      <4>1. h = m
        BY <3>2
      <4> QED
        BY <2>3, <2>4, <3>1, <3>2, <4>1 DEF l
    <3>3. CASE i # n1
      <4>1. i \in 1 .. m /\ i \in 0 .. m
        BY <3>3
      <4>2. g[i] = f[i] /\ g[h] = f[h]
        BY <2>3, <3>1, <4>1
      <4>3. f[i] = After(f[h], ls[i])
        BY <2>1, <3>1, <4>1 DEF IsSets
      <4> QED
        BY <4>2, <4>3
    <3> QED
      BY <3>2, <3>3
  <2>8. IsSets(g, ms, ls, n1)
    BY <2>5, <2>6, <2>7 DEF IsSets
  <2> QED
    BY <2>2, <2>8
<1>3. \A m \in Nat : m \in T
  <2> HIDE DEF T
  <2> QED
    BY <1>1, <1>2, Induction
<1> QED
  BY <1>3

\* The last of these is what the lines make.
LEMMA SetHeadersIs ==
  ASSUME NEW ms, NEW ls, Len(ls) \in Nat
  PROVE  \E g : IsSets(g, ms, ls, Len(ls)) /\ SetHeaders(ms, ls) = g[Len(ls)]
<1> DEFINE n == Len(ls)
           B(g) == [k \in 0 .. n |-> IF k = 0 THEN ms
                      ELSE UNION {SetHeader(m, ls[k].name, ls[k].text) : m \in g[k - 1]}]
           c == CHOOSE g : g = B(g)
<1>1. \E g : g = B(g)
  <2>1. PICK g : IsSets(g, ms, ls, n)
    BY SetsExist
  <2>2. g = [k \in 0 .. n |-> g[k]] /\ g[0] = ms
    BY <2>1 DEF IsSets
  <2>3. \A k \in 0 .. n : g[k] = B(g)[k]
    <3> TAKE k \in 0 .. n
    <3>1. CASE k = 0
      BY <2>2, <3>1
    <3>2. CASE k # 0
      <4>1. k - 1 \in 0 .. n /\ k \in 1 .. n /\ k = (k - 1) + 1
        BY <3>2
      <4>2. g[k] = After(g[k - 1], ls[k])
        BY <2>1, <4>1 DEF IsSets
      <4> QED
        BY <3>2, <4>2 DEF After
    <3> QED
      BY <3>1, <3>2
  <2>4. B(g) = [k \in 0 .. n |-> B(g)[k]]
    OBVIOUS
  <2> HIDE DEF B
  <2>5. [k \in 0 .. n |-> g[k]] = [k \in 0 .. n |-> B(g)[k]]
    BY <2>3
  <2> QED
    BY <2>2, <2>4, <2>5
<1>2. c = B(c)
  <2> HIDE DEF B
  <2> QED
    BY <1>1
<1>3. SetHeaders(ms, ls) = c[n]
  BY Zenon DEF SetHeaders
<1> HIDE DEF c
<1>4. IsSets(c, ms, ls, n)
  <2>1. DOMAIN B(c) = 0 .. n /\ B(c) = [k \in 0 .. n |-> B(c)[k]] /\ B(c)[0] = ms
    OBVIOUS
  <2>2. \A h \in 0 .. n, i \in 1 .. n : i = h + 1 => B(c)[i] = After(c[h], ls[i])
    <3> SUFFICES ASSUME NEW h \in 0 .. n, NEW i \in 1 .. n, i = h + 1
                 PROVE  B(c)[i] = After(c[h], ls[i])
      OBVIOUS
    <3>1. i \in 0 .. n /\ i # 0 /\ i - 1 = h
      OBVIOUS
    <3> QED
      BY <3>1 DEF After
  <2> HIDE DEF B
  <2>3. c = [k \in 0 .. n |-> c[k]] /\ c[0] = ms
    BY <1>2, <2>1
  <2>4. \A h \in 0 .. n, i \in 1 .. n : i = h + 1 => c[i] = After(c[h], ls[i])
    BY <1>2, <2>2
  <2> QED
    BY <2>3, <2>4 DEF IsSets
<1> QED
  BY <1>3, <1>4

\* No lines change nothing, and no message comes of none.
LEMMA SetNothing == \A ms : SetHeaders(ms, <<>>) = ms
<1> TAKE ms
<1> DEFINE ls == <<>>
<1>1. Len(ls) = 0
  OBVIOUS
<1> HIDE DEF ls
<1>2. PICK g : IsSets(g, ms, ls, Len(ls)) /\ SetHeaders(ms, ls) = g[Len(ls)]
  BY <1>1, SetHeadersIs
<1>3. SetHeaders(ms, ls) = ms
  BY <1>1, <1>2 DEF IsSets
<1> QED
  BY <1>3 DEF ls

\* Once it is refused a message stays refused.
LEMMA SetNone ==
  ASSUME NEW ls, Len(ls) \in Nat
  PROVE  SetHeaders({}, ls) = {}
<1> DEFINE n == Len(ls)
           none == {}
<1>1. PICK g : IsSets(g, none, ls, n) /\ SetHeaders(none, ls) = g[n]
  BY SetHeadersIs
<1>2. \A l : After(none, l) = none
  BY DEF After
<1> DEFINE T == {k \in 0 .. n : g[k] = none}
<1> HIDE DEF none
<1>3. 0 \in T
  BY <1>1 DEF IsSets
<1>4. \A h \in 0 .. n, i \in 1 .. n : i = h + 1 /\ h \in T => i \in T
  BY <1>1, <1>2 DEF IsSets
<1>5. \A k \in 0 .. n : k \in T
  <2> HIDE DEF T
  <2> QED
    BY <1>3, <1>4, Upwards
<1>6. n \in 0 .. n
  OBVIOUS
<1> QED
  BY <1>1, <1>5, <1>6 DEF none

\* The first line, and then the others.
LEMMA SetCons ==
  ASSUME NEW ms, NEW S, NEW l \in S, NEW ls \in Seq(S)
  PROVE  SetHeaders(ms, Cat(<<l>>, ls)) = SetHeaders(After(ms, l), ls)
<1> DEFINE n == Len(ls)
           u == Cat(<<l>>, ls)
           c == After(ms, l)
           m == n + 1
<1>1. IsCons(u, S, l, ls, n)
  BY ConsIs
<1> HIDE DEF u, c
<1>2. n \in Nat /\ Len(u) = m /\ u[1] = l /\ m \in Nat
      /\ \A h \in 0 .. n, i \in 1 .. n : i = h + 1 => At(u, i + 1) = ls[i]
  BY <1>1 DEF IsCons
<1> HIDE DEF n
<1>3. PICK f : IsSets(f, ms, u, m) /\ SetHeaders(ms, u) = f[m]
  BY <1>2, SetHeadersIs
<1>4. PICK g : IsSets(g, c, ls, n) /\ SetHeaders(c, ls) = g[n]
  BY <1>2, SetHeadersIs DEF n
<1> DEFINE T == {k \in 0 .. n : f[k + 1] = g[k]}
<1>5. 0 \in T
  <2>1. 0 \in 0 .. m /\ 1 \in 1 .. m /\ 1 = 0 + 1 /\ 0 \in 0 .. n
    BY <1>2
  <2>2. f[1] = After(f[0], u[1]) /\ f[0] = ms
    BY <1>3, <2>1 DEF IsSets
  <2>3. f[0 + 1] = c
    BY <1>2, <2>2 DEF c
  <2>4. g[0] = c
    BY <1>4 DEF IsSets
  <2> QED
    BY <2>1, <2>3, <2>4
<1>6. \A h \in 0 .. n, i \in 1 .. n : i = h + 1 /\ h \in T => i \in T
  <2> SUFFICES ASSUME NEW h \in 0 .. n, NEW i \in 1 .. n, i = h + 1, h \in T PROVE i \in T
    OBVIOUS
  <2> DEFINE j == i + 1
  <2>1. i \in 0 .. m /\ j \in 1 .. m /\ j = i + 1 /\ i \in 0 .. n
    BY <1>2
  <2>2. f[j] = After(f[i], u[j])
    <3> HIDE DEF j, m
    <3> QED
      BY <1>3, <2>1 DEF IsSets
  <2>3. u[j] = ls[i]
    BY <1>2 DEF At
  <2>4. f[i] = g[h]
    OBVIOUS
  <2>5. g[i] = After(g[h], ls[i])
    BY <1>4 DEF IsSets
  <2>6. f[i + 1] = g[i]
    BY <2>2, <2>3, <2>4, <2>5
  <2> QED
    BY <2>1, <2>6
<1>7. \A k \in 0 .. n : k \in T
  <2> HIDE DEF T
  <2> QED
    BY <1>2, <1>5, <1>6, Upwards
<1>8. n \in 0 .. n
  BY <1>2
<1>9. f[m] = g[n]
  BY <1>7, <1>8
<1> QED
  BY <1>3, <1>4, <1>9 DEF u, c


\* A place where such a character stands, if there is one.
LEMMA FirstInPlace ==
  ASSUME NEW s \in Seq(STRING), NEW C
  PROVE  FirstIn(s, C) \in 0 .. Len(s) /\ Len(s) \in Nat
<1> DEFINE n == Len(s)
           I == {i \in 1 .. n : s[i] \in C}
<1>1. n \in Nat
  BY LenProperties
<1>2. FirstIn(s, C) = IF I # {} THEN Min(I) ELSE 0
  BY DEF FirstIn, SelectInSeq, I
<1>3. ASSUME I # {} PROVE Min(I) \in 1 .. n
  <2>1. I \in SUBSET Nat
    BY <1>1
  <2>2. I \in SUBSET (1 .. n)
    OBVIOUS
  <2> HIDE DEF I, n
  <2>3. Min(I) \in I
    BY <1>3, <2>1, MinLemma
  <2> QED
    BY <2>2, <2>3
<1>4. FirstIn(s, C) \in 0 .. n
  <2> HIDE DEF I, n
  <2>1. \A i \in 1 .. n : i \in 0 .. n
    BY <1>1
  <2>2. 0 \in 0 .. n
    BY <1>1
  <2> QED
    BY <1>2, <1>3, <2>1, <2>2
<1> QED
  BY <1>1, <1>4

\* What is behind a line is shorter than the line with it.
LEMMA LineOfType ==
  ASSUME NEW s \in Seq(STRING)
  PROVE  Shorter(LineOf(s).after, s)
<1> DEFINE lf == FirstIn(s, {LF})
           n == Len(s)
           after == IF lf = 0 THEN <<>> ELSE SubSeq(s, lf + 1, n)
<1>1. lf \in 0 .. n /\ n \in Nat
  BY FirstInPlace
<1>2. LineOf(s).after = after
  BY DEF LineOf
<1>3. <<>> \in Seq(STRING) /\ Len(<<>>) = 0
  BY EmptySeq
<1> HIDE DEF lf, n
<1>4. IsPart(Part(s, lf, n), STRING, s, lf, n)
  BY <1>1, PartIs DEF n
<1>5. SubSeq(s, lf + 1, n) \in Seq(STRING) /\ Len(SubSeq(s, lf + 1, n)) = n - lf
  BY <1>4 DEF IsPart, Part
<1>6. after \in Seq(STRING) /\ Len(after) <= n
  <2> DEFINE e == <<>>
             p == SubSeq(s, lf + 1, n)
  <2>1. e \in Seq(STRING) /\ Len(e) = 0 /\ p \in Seq(STRING) /\ Len(p) = n - lf
    BY <1>3, <1>5
  <2>2. after = e \/ after = p
    OBVIOUS
  <2>3. Len(e) <= n /\ Len(p) <= n
    <3> HIDE DEF e, p
    <3> QED
      BY <1>1, <2>1
  <2> HIDE DEF e, p, after
  <2> QED
    BY <2>1, <2>2, <2>3
<1> QED
  BY <1>2, <1>6 DEF Shorter, n

\* The first line of a text, and what is behind it.
NameAt(s) == MessWord(s)
LineAt(s) == LineOf(NameAt(s).rest)
ThisAt(s) == [name |-> NameAt(s).word, text |-> RmColon(LineAt(s).text)]
BlankAt(s) == Blank(LineAt(s).after)
ContendAt(s, tail) ==
  SubSeq(LineAt(s).after, BlankAt(s) + 1, Len(LineAt(s).after) - tail)
LineBefore(x, l) == [x EXCEPT !.all = <<l>> \o @]

\* One step of the parser, with f for what is left.
LinesBody(f, s, tail) ==
  LET name  == MessWord(s)
      line  == LineOf(name.rest)
      blank == Blank(line.after)
      this  == [name |-> name.word, text |-> RmColon(line.text)]
  IN  CASE ~name.read -> [all |-> <<>>, contend |-> <<>>]
        [] name.read /\ name.word[1] = Dashes -> [all |-> <<this>>, contend |-> <<>>]
        [] name.read /\ name.word[1] # Dashes /\ blank # 0 ->
             [all |-> <<this>>,
              contend |-> SubSeq(line.after, blank + 1, Len(line.after) - tail)]
        [] OTHER -> [f[line.after] EXCEPT !.all = <<this>> \o @]

\* In these words.
LinesTaken(f, s, tail) ==
  CASE ~NameAt(s).read -> [all |-> <<>>, contend |-> <<>>]
    [] NameAt(s).read /\ NameAt(s).word[1] = Dashes -> [all |-> <<ThisAt(s)>>, contend |-> <<>>]
    [] NameAt(s).read /\ NameAt(s).word[1] # Dashes /\ BlankAt(s) # 0 ->
         [all |-> <<ThisAt(s)>>, contend |-> ContendAt(s, tail)]
    [] OTHER -> LineBefore(f[LineAt(s).after], ThisAt(s))

\* They say the same.
LEMMA LinesBodyIs == \A f, s, tail : LinesBody(f, s, tail) = LinesTaken(f, s, tail)
BY Zenon DEF LinesBody, LinesTaken, NameAt, LineAt, ThisAt, BlankAt, ContendAt, LineBefore

\* The four cases of it.
IsLines(t, f, s, tail) ==
  /\ ~NameAt(s).read => t = [all |-> <<>>, contend |-> <<>>]
  /\ NameAt(s).read /\ NameAt(s).word[1] = Dashes => t = [all |-> <<ThisAt(s)>>, contend |-> <<>>]
  /\ NameAt(s).read /\ NameAt(s).word[1] # Dashes /\ BlankAt(s) # 0 =>
       t = [all |-> <<ThisAt(s)>>, contend |-> ContendAt(s, tail)]
  /\ NameAt(s).read /\ NameAt(s).word[1] # Dashes /\ BlankAt(s) = 0 =>
       t = LineBefore(f[LineAt(s).after], ThisAt(s))

\* It is one of them.
LEMMA LinesTakenIs == \A f, s, tail : IsLines(LinesTaken(f, s, tail), f, s, tail)
<1> SUFFICES ASSUME NEW f, NEW s, NEW tail PROVE IsLines(LinesTaken(f, s, tail), f, s, tail)
  OBVIOUS
<1> DEFINE a == NameAt(s).read
           b == NameAt(s).word[1] = Dashes
           c == BlankAt(s) = 0
<1>1. CASE ~a
  BY <1>1 DEF LinesTaken, IsLines
<1>2. CASE a /\ b
  BY <1>2 DEF LinesTaken, IsLines
<1>3. CASE a /\ ~b /\ ~c
  BY <1>3 DEF LinesTaken, IsLines
<1>4. CASE a /\ ~b /\ c
  BY <1>4 DEF LinesTaken, IsLines
<1> QED
  BY <1>1, <1>2, <1>3, <1>4

\* What is behind the first line is shorter.
LEMMA LinesShorter ==
  ASSUME NEW s \in Seq(STRING), NameAt(s).read
  PROVE  LineAt(s).after \in Seq(STRING) /\ Len(LineAt(s).after) < Len(s)
         /\ Len(LineAt(s).after) \in Nat /\ Len(s) \in Nat
<1> DEFINE C == {" ", ":", CR, LF}
           sep == Places(s, C)
           w == GetStr(s, sep)
           y == LineOf(w.rest).after
<1>1. s # <<>>
  BY DEF NameAt, MessWord, None
<1>2. NameAt(s) = w
  BY <1>1 DEF NameAt, MessWord
<1>3. sep \in SUBSET (DOMAIN s)
  BY DEF Places
<1> HIDE DEF sep
<1>4. Shorter(w.rest, s) /\ Len(w.rest) < Len(s)
  BY <1>1, <1>3, GetStrType
<1>5. LineAt(s).after = y
  BY <1>2 DEF LineAt
<1> HIDE DEF w
<1>6. w.rest \in Seq(STRING)
  BY <1>4 DEF Shorter
<1>7. Shorter(y, w.rest)
  BY <1>6, LineOfType
<1> HIDE DEF y
<1>8. y \in Seq(STRING) /\ Len(y) <= Len(w.rest)
  BY <1>7 DEF Shorter
<1>9. Len(y) \in Nat /\ Len(w.rest) \in Nat /\ Len(s) \in Nat
  BY <1>6, <1>8, LenProperties
<1>10. Len(y) < Len(s)
  BY <1>4, <1>8, <1>9
<1> QED
  BY <1>5, <1>8, <1>9, <1>10


\* The parser of the lines, as a function of its own.
LinesFun(tail) ==
  LET lines[s \in Seq(STRING)] ==
        LET name  == MessWord(s)
            line  == LineOf(name.rest)
            blank == Blank(line.after)
            this  == [name |-> name.word, text |-> RmColon(line.text)]
        IN  CASE ~name.read -> [all |-> <<>>, contend |-> <<>>]
              [] name.read /\ name.word[1] = Dashes -> [all |-> <<this>>, contend |-> <<>>]
              [] name.read /\ name.word[1] # Dashes /\ blank # 0 ->
                   [all |-> <<this>>,
                    contend |-> SubSeq(line.after, blank + 1, Len(line.after) - tail)]
              [] OTHER -> [lines[line.after] EXCEPT !.all = <<this>> \o @]
  IN  lines

\* It is the parser.
LEMMA LinesFunIs == \A s, tail : Lines(s, tail) = LinesFun(tail)[s]
BY Zenon DEF Lines, LinesFun

\* The lines it may return, and what of a text.
ReadLines == {ThisAt(s) : s \in Seq(STRING)}
ReadContends(tail) == {<<>>} \cup {ContendAt(s, tail) : s \in Seq(STRING)}
ReadTexts(tail) == [all : Seq(ReadLines), contend : ReadContends(tail)]

\* One step returns such a text again.
LEMMA LinesTakenType ==
  ASSUME NEW tail, NEW f \in [Seq(STRING) -> ReadTexts(tail)], NEW s \in Seq(STRING)
  PROVE  LinesTaken(f, s, tail) \in ReadTexts(tail)
<1> DEFINE R == ReadLines
           C == ReadContends(tail)
           l == ThisAt(s)
           c == ContendAt(s, tail)
           e == <<>>
           x == f[LineAt(s).after]
           y == LinesTaken(f, s, tail)
<1>1. l \in R /\ c \in C /\ e \in C
  BY DEF ReadLines, ReadContends
<1>2. IsLines(y, f, s, tail)
  BY LinesTakenIs
<1> HIDE DEF y, l, c, R, C
<1>3. e \in Seq(R) /\ <<l>> \in Seq(R)
  BY <1>1, EmptySeq, OneElement
<1>4. CASE ~NameAt(s).read
  <2>1. y = [all |-> e, contend |-> e]
    BY <1>2, <1>4 DEF IsLines
  <2> HIDE DEF e
  <2> QED
    BY <1>1, <1>3, <2>1 DEF ReadTexts, y, R, C
<1>5. CASE NameAt(s).read /\ NameAt(s).word[1] = Dashes
  <2>1. y = [all |-> <<l>>, contend |-> e]
    BY <1>2, <1>5 DEF IsLines, l
  <2> HIDE DEF e
  <2> QED
    BY <1>1, <1>3, <2>1 DEF ReadTexts, y, R, C
<1>6. CASE NameAt(s).read /\ NameAt(s).word[1] # Dashes /\ BlankAt(s) # 0
  <2>1. y = [all |-> <<l>>, contend |-> c]
    BY <1>2, <1>6 DEF IsLines, l, c
  <2> QED
    BY <1>1, <1>3, <2>1 DEF ReadTexts, y, R, C
<1>7. CASE NameAt(s).read /\ NameAt(s).word[1] # Dashes /\ BlankAt(s) = 0
  <2>1. y = LineBefore(x, l)
    BY <1>2, <1>7 DEF IsLines, l
  <2>2. x \in [all : Seq(R), contend : C]
    BY <1>7, LinesShorter DEF ReadTexts, R, C
  <2> HIDE DEF x
  <2>3. <<l>> \o x.all \in Seq(R)
    <3>1. x.all \in Seq(R)
      BY <2>2
    <3> QED
      BY <1>3, <3>1, ConcatProperties
  <2>4. LineBefore(x, l) \in [all : Seq(R), contend : C]
    <3> DEFINE a == <<l>> \o x.all
    <3>1. LineBefore(x, l) = [x EXCEPT !.all = a]
      BY Zenon DEF LineBefore
    <3>2. a \in Seq(R)
      BY <2>3
    <3> HIDE DEF a
    <3> QED
      BY <2>2, <3>1, <3>2
  <2> QED
    BY <2>1, <2>4 DEF ReadTexts, y, R, C
<1> QED
  BY <1>4, <1>5, <1>6, <1>7 DEF y

\* The parser takes one line after the other.
LEMMA LinesDef ==
  ASSUME NEW tail
  PROVE  /\ \A s \in Seq(STRING) : Lines(s, tail) = LinesTaken(LinesFun(tail), s, tail)
         /\ \A s \in Seq(STRING) : Lines(s, tail) \in ReadTexts(tail)
<1> DEFINE X == Seq(STRING)
           Y == ReadTexts(tail)
           F == [f \in [X -> Y] |-> [x \in X |-> LinesBody(f, x, tail)]]
           measure == [x \in X |-> Len(x)]
           P == LinesFun(tail)
<1>1. Y # {}
  <2> DEFINE e == <<>>
  <2>1. e \in Seq(ReadLines) /\ e \in ReadContends(tail)
    BY EmptySeq DEF ReadContends
  <2> HIDE DEF e
  <2>2. [all |-> e, contend |-> e] \in ReadTexts(tail)
    BY <2>1 DEF ReadTexts
  <2> QED
    BY <2>2
<1>2. measure \in [X -> Nat]
  BY LenProperties
<1>3. \A f \in [X -> Y], x \in X : LinesBody(f, x, tail) \in Y
  BY LinesBodyIs, LinesTakenType
<1>4. F \in [[X -> Y] -> [X -> Y]]
  <2> HIDE DEF X, Y
  <2> QED
    BY <1>3
<1>5. Local(F, X, Y, measure)
  <2> SUFFICES ASSUME NEW f \in [X -> Y], NEW g \in [X -> Y], NEW x \in X,
                      \A y \in X : measure[y] < measure[x] => f[y] = g[y]
               PROVE  F[f][x] = F[g][x]
    BY DEF Local
  <2>1. F[f][x] = LinesBody(f, x, tail) /\ F[g][x] = LinesBody(g, x, tail)
    <3> HIDE DEF X, Y
    <3> QED
      OBVIOUS
  <2>2. F[f][x] = LinesTaken(f, x, tail) /\ F[g][x] = LinesTaken(g, x, tail)
    BY <2>1, LinesBodyIs
  <2>3. NameAt(x).read => LineAt(x).after \in X /\ measure[LineAt(x).after] < measure[x]
    BY LinesShorter
  <2> HIDE DEF X, Y, F, measure
  <2>4. NameAt(x).read => f[LineAt(x).after] = g[LineAt(x).after]
    BY <2>3
  <2>5. IsLines(LinesTaken(f, x, tail), f, x, tail) /\ IsLines(LinesTaken(g, x, tail), g, x, tail)
    BY LinesTakenIs
  <2>6. LinesTaken(f, x, tail) = LinesTaken(g, x, tail)
    <3>1. CASE NameAt(x).read
      <4>1. LineBefore(f[LineAt(x).after], ThisAt(x)) = LineBefore(g[LineAt(x).after], ThisAt(x))
        BY <2>4, <3>1
      <4> QED
        BY <2>5, <3>1, <4>1 DEF IsLines
    <3>2. CASE ~NameAt(x).read
      BY <2>5, <3>2 DEF IsLines
    <3> QED
      BY <3>1, <3>2
  <2> QED
    BY <2>2, <2>6
<1> HIDE DEF X, Y, F, measure
<1>6. \E f \in [X -> Y] : F[f] = f
  <2>1. IsRecursion(F, X, Y, measure)
    BY <1>1, <1>2, <1>4, <1>5 DEF IsRecursion
  <2>2. HasFixpoint(F, X, Y)
    BY <2>1, Recursion
  <2> QED
    BY <2>2 DEF HasFixpoint
<1>7. \E f : f = [x \in X |-> LinesBody(f, x, tail)]
  <2>1. PICK f \in [X -> Y] : F[f] = f
    BY <1>6
  <2>2. F[f] = [x \in X |-> LinesBody(f, x, tail)]
    <3> HIDE DEF X
    <3> QED
      BY <2>1 DEF F
  <2> QED
    BY <2>1, <2>2
<1>8. P = CHOOSE f : f = [x \in X |-> LinesBody(f, x, tail)]
  BY Zenon DEF LinesFun, LinesBody, X
<1> HIDE DEF P
<1>9. P = [x \in X |-> LinesBody(P, x, tail)]
  BY <1>7, <1>8, Zenon
<1>10. \A x \in X : P[x] = LinesBody(P, x, tail)
  BY <1>9, Zenon
<1>11. \A x \in X : Lines(x, tail) = LinesTaken(P, x, tail)
  BY <1>10, LinesBodyIs, LinesFunIs, Zenon DEF P
<1>12. \A x \in X : P[x] \in Y
  <2> DEFINE T == {n \in Nat : \A x \in X : Len(x) <= n => P[x] \in Y}
  <2>1. \A x \in X : Len(x) \in Nat /\ (NameAt(x).read => /\ LineAt(x).after \in X
                                                         /\ Len(LineAt(x).after) \in Nat
                                                         /\ Len(LineAt(x).after) < Len(x))
    BY LenProperties, LinesShorter DEF X
  <2>2. \A x \in X : (NameAt(x).read => P[LineAt(x).after] \in Y) => P[x] \in Y
    <3> SUFFICES ASSUME NEW x \in X, NameAt(x).read => P[LineAt(x).after] \in Y PROVE P[x] \in Y
      OBVIOUS
    <3>1. PICK v : v \in Y
      BY <1>1
    <3> DEFINE f == [z \in X |-> IF z = LineAt(x).after /\ NameAt(x).read THEN P[z] ELSE v]
    <3>2. f \in [X -> Y]
      BY <3>1
    <3>3. NameAt(x).read => f[LineAt(x).after] = P[LineAt(x).after]
      BY <2>1
    <3> HIDE DEF f
    <3>4. IsLines(LinesTaken(f, x, tail), f, x, tail) /\ IsLines(LinesTaken(P, x, tail), P, x, tail)
      BY LinesTakenIs
    <3>5. LinesTaken(f, x, tail) = LinesTaken(P, x, tail)
      <4>1. CASE NameAt(x).read
        <5>1. LineBefore(f[LineAt(x).after], ThisAt(x)) = LineBefore(P[LineAt(x).after], ThisAt(x))
          BY <3>3, <4>1
        <5> QED
          BY <3>4, <4>1, <5>1 DEF IsLines
      <4>2. CASE ~NameAt(x).read
        BY <3>4, <4>2 DEF IsLines
      <4> QED
        BY <4>1, <4>2
    <3>6. LinesTaken(f, x, tail) \in Y
      BY <3>2, LinesTakenType DEF X, Y
    <3>7. P[x] = LinesTaken(P, x, tail)
      BY <1>10, LinesBodyIs
    <3> QED
      BY <3>5, <3>6, <3>7
  <2>3. 0 \in T
    <3>1. \A x \in X : Len(x) <= 0 => ~NameAt(x).read
      BY <2>1
    <3> QED
      BY <2>2, <3>1
  <2>4. \A n \in Nat : n \in T => n + 1 \in T
    <3> SUFFICES ASSUME NEW n \in Nat, n \in T, NEW x \in X, Len(x) <= n + 1 PROVE P[x] \in Y
      OBVIOUS
    <3>1. NameAt(x).read => LineAt(x).after \in X /\ Len(LineAt(x).after) <= n
      BY <2>1
    <3>2. NameAt(x).read => P[LineAt(x).after] \in Y
      BY <3>1
    <3> QED
      BY <2>2, <3>2
  <2>5. \A n \in Nat : n \in T
    <3> HIDE DEF T
    <3> QED
      BY <2>3, <2>4, Induction
  <2>6. \A x \in X : Len(x) \in T /\ Len(x) <= Len(x)
    BY <2>1, <2>5
  <2> QED
    BY <2>6
<1>13. \A x \in X : Lines(x, tail) \in Y
  BY <1>12, LinesFunIs DEF P
<1> QED
  BY <1>11, <1>13 DEF X, Y, P


\* The end of a line.
LEMMA LineEnd ==
  /\ CRLF = Cat(<<CR>>, <<LF>>) /\ CRLF \in Seq(STRING) /\ Len(CRLF) = 2
  /\ CR \in STRING /\ LF \in STRING /\ CR # LF
<1>1. CR \in STRING /\ LF \in STRING /\ CR # LF
  BY MarksLemma DEF Marks, CR, LF
<1>2. <<CR, LF>> = Cat(<<CR>>, <<LF>>)
  BY <1>1, PairCat
<1> DEFINE a == <<CR>>
           b == <<LF>>
<1>3. a \in Seq(STRING) /\ b \in Seq(STRING) /\ Len(a) = 1 /\ Len(b) = 1
  BY <1>1, OneElement
<1> HIDE DEF a, b
<1>4. Cat(a, b) \in Seq(STRING) /\ Len(Cat(a, b)) = 2
  BY <1>3, ConcatProperties DEF Cat
<1> QED
  BY <1>1, <1>2, <1>4, Zenon DEF CRLF, a, b

\* A line ends at its LF, and the CR in front of it is taken off.
LEMMA LineOfIs ==
  ASSUME NEW V \in Seq(Tokens), NEW T \in Seq(STRING), NEW r, r = Cat(V, Cat(CRLF, T))
  PROVE  r \in Seq(STRING) /\ LineOf(r).text = V /\ LineOf(r).after = T
<1> DEFINE cr == <<CR>>
           lf == <<LF>>
           p == Cat(V, cr)
           a == Len(V)
           k == Len(p)
           b == Len(p) + Len(lf)
           C == {LF}
<1>1. CR \in STRING /\ LF \in STRING /\ CR # LF /\ CR \notin C
  BY MarksLemma DEF Marks, CR, LF
<1>2. cr \in Seq(STRING) /\ lf \in Seq(STRING) /\ Len(cr) = 1 /\ Len(lf) = 1 /\ cr[1] = CR
      /\ lf # <<>> /\ lf[1] = LF
  BY <1>1, Token
<1>3. V \in Seq(STRING) /\ \A i \in 1 .. a : V[i] # LF
  BY LinesAreTexts, LineWord
<1>4. CRLF = Cat(cr, lf)
  BY LineEnd
<1> HIDE DEF cr, lf
<1>5. p \in Seq(STRING) /\ Cat(lf, T) \in Seq(STRING) /\ IsTwo(p, STRING, V, cr, a)
  BY <1>2, <1>3, TextCat, TwoParts
<1>6. r = Cat(p, Cat(lf, T))
  <2>1. Cat(CRLF, T) = Cat(cr, Cat(lf, T))
    BY <1>2, <1>4, TextAssoc
  <2>2. Cat(p, Cat(lf, T)) = Cat(V, Cat(cr, Cat(lf, T)))
    BY <1>2, <1>3, <1>5, TextAssoc
  <2> QED
    BY <2>1, <2>2
<1>7. a \in Nat /\ k = a + 1 /\ (\A i \in 1 .. a : p[i] = V[i]) /\ p[a + 1] = CR /\ Part(p, 0, a) = V
      /\ k \in Nat
  BY <1>2, <1>5 DEF IsTwo
<1> HIDE DEF p
<1>8. IsThree(r, STRING, p, lf, T, k, b)
  BY <1>2, <1>5, <1>6, ThreeParts
<1>9. FirstIn(r, C) = k + 1
  <2>1. \A i \in 1 .. k : p[i] \notin C
    <3> TAKE i \in 1 .. k
    <3>1. CASE i = a + 1
      BY <1>1, <1>7, <3>1
    <3>2. CASE i # a + 1
      <4>1. i \in 1 .. a
        BY <1>7, <3>2
      <4> QED
        BY <1>3, <1>7, <4>1
    <3> QED
      BY <3>1, <3>2
  <2> DEFINE x == Cat(lf, T)
  <2>2. x \in Seq(STRING) /\ x # <<>> /\ x[1] \in C
    <3>1. Starts(lf, C)
      BY <1>2 DEF Starts
    <3> HIDE DEF C
    <3>2. x # <<>> /\ x[1] = lf[1]
      BY <1>2, <3>1, StartsCat
    <3>3. LF \in C
      BY DEF C
    <3> QED
      BY <1>2, <1>5, <3>2, <3>3
  <2> HIDE DEF x, C
  <2>3. FirstIn(Cat(p, x), C) = Len(p) + 1
    BY <1>5, <2>1, <2>2, FirstInIs
  <2> QED
    BY <1>6, <2>3 DEF x
<1> HIDE DEF k, b
<1>10. r \in Seq(STRING) /\ k + 1 # 0 /\ b = k + 1 /\ Part(r, b, Len(r)) = T
  BY <1>2, <1>7, <1>8 DEF IsThree, b, k
<1>11. Part(r, 0, k) = p
  <2>1. IsTwo(r, STRING, p, Cat(lf, T), k)
    BY <1>5, <1>6, TwoParts DEF k
  <2> QED
    BY <2>1 DEF IsTwo
<1>12. SubSeq(r, 1, (k + 1) - 1) = p /\ SubSeq(r, (k + 1) + 1, Len(r)) = T
  <2>1. (k + 1) - 1 = k /\ 0 + 1 = 1
    BY <1>7
  <2> QED
    BY <1>10, <1>11, <2>1 DEF Part
<1>13. p # <<>> /\ Last(p) = CR
  <2>1. Len(p) = a + 1 /\ a + 1 # 0
    BY <1>7 DEF k
  <2> QED
    BY <1>5, <1>7, <2>1 DEF Last
<1>14. Front(p) = V
  <2>1. Len(p) - 1 = a /\ 0 + 1 = 1
    BY <1>7 DEF k
  <2> QED
    BY <1>7, <2>1 DEF Front, Part
<1>15. LineOf(r).after = T
  BY <1>9, <1>10, <1>12 DEF LineOf
<1>16. LineOf(r).text = V
  BY <1>9, <1>10, <1>12, <1>13, <1>14 DEF LineOf
<1> QED
  BY <1>10, <1>15, <1>16

\* The names of lines.
LineNames == Tokens \ {" ", ":", Dashes}

\* A line: its name, what is behind it, and the lines after it.
Line(c, V, T) == Cat(<<c>>, Cat(V, Cat(CRLF, T)))
IsBehindName(V) == V \in Seq(Tokens) /\ V # <<>> /\ Starts(V, {" ", ":"})

\* The parser takes it.
IsLineAt(s, c, V, T) ==
  /\ s \in Seq(STRING) /\ Blank(s) = 0
  /\ NameAt(s).read = TRUE /\ NameAt(s).word = <<c>>
  /\ LineAt(s).text = V /\ LineAt(s).after = T
  /\ ThisAt(s) = [name |-> <<c>>, text |-> RmColon(V)]

\* It is the first line of the text.
LEMMA LineIs ==
  ASSUME NEW c \in LineNames, NEW V, IsBehindName(V), NEW T \in Seq(STRING),
         NEW s, s = Line(c, V, T)
  PROVE  IsLineAt(s, c, V, T)
<1> DEFINE C == {" ", ":", CR, LF}
           w == <<c>>
           r == Cat(V, Cat(CRLF, T))
           e == <<>>
<1>1. V \in Seq(Tokens) /\ V # <<>> /\ Starts(V, {" ", ":"})
  BY DEF IsBehindName
<1>2. V \in Seq(STRING)
  BY <1>1, LinesAreTexts
<1>3. r \in Seq(STRING) /\ LineOf(r).text = V /\ LineOf(r).after = T
  BY <1>1, LineOfIs
<1>4. IsSeparators(C)
  BY DEF IsSeparators, Marks
<1>5. w \in WordsWithout(C) /\ w \in Seq(STRING) /\ w # <<>> /\ w[1] = c /\ c # LF
  <2>1. c \in STRING /\ c \notin C \cup {CR, LF} /\ c # LF
    BY DEF LineNames, Tokens
  <2> HIDE DEF C
  <2>2. w \in WordsWithout(C)
    BY <2>1, TokenWord
  <2> QED
    BY <2>1, <2>2, Token
<1> DEFINE M == {" ", ":"}
<1>6. Starts(r, M) /\ r # <<>> /\ r[1] = V[1] /\ r[1] \in M
  <2> DEFINE x == Cat(CRLF, T)
  <2>1. CRLF \in Seq(STRING)
    BY LineEnd
  <2>2. x \in Seq(STRING) /\ Starts(V, M)
    BY <1>1, <2>1, TextCat
  <2> HIDE DEF x, M
  <2>3. Starts(Cat(V, x), M) /\ Cat(V, x) # <<>> /\ Cat(V, x)[1] = V[1]
    BY <1>1, <1>2, <2>2, StartsCat
  <2>4. Cat(V, x)[1] \in M
    BY <2>3 DEF Starts
  <2> QED
    BY <2>3, <2>4 DEF x
<1>7. Starts(r, C)
  BY <1>6 DEF Starts
<1>8. s = Cat(w, r) /\ s = Cat(e, Cat(w, r))
  <2>1. s = Cat(w, r)
    BY Zenon DEF Line
  <2>2. Cat(w, r) \in Seq(STRING)
    BY <1>3, <1>5, TextCat
  <2> HIDE DEF w, r
  <2> QED
    BY <2>1, <2>2, TextEmpty
<1>9. e \in Seq(C)
  BY EmptySeq
<1> HIDE DEF r, w, e, C, M
<1>10. IsWord(WordOf(s, C), w, r)
  BY <1>3, <1>4, <1>5, <1>7, <1>8, <1>9, WordIs
<1>11. IsTwo(s, STRING, w, r, 1)
  <2>1. Len(w) = 1
    BY DEF w
  <2> QED
    BY <1>3, <1>5, <1>8, <2>1, TwoParts
<1>12. s \in Seq(STRING) /\ Len(s) = 1 + Len(r) /\ s[1] = c /\ (1 \in 1 .. Len(r) => s[2] = r[1])
       /\ Len(r) \in Nat
  <2>1. /\ s \in Seq(STRING) /\ Len(s) = 1 + Len(r) /\ Len(r) \in Nat
        /\ \A i \in 1 .. 1 : s[i] = w[i]
        /\ \A i \in 1 .. Len(r) : s[1 + i] = r[i]
    BY <1>11 DEF IsTwo
  <2>2. s[1] = w[1]
    BY <2>1
  <2>3. 1 \in 1 .. Len(r) => s[1 + 1] = r[1]
    BY <2>1
  <2> QED
    BY <1>5, <2>1, <2>2, <2>3
<1>13. Blank(s) = 0
  <2>1. ~StartsWith(s, LF)
    BY <1>5, <1>12 DEF StartsWith
  <2>2. 1 \in 1 .. Len(r)
    BY <1>3, <1>6, <1>12, FirstPlace
  <2>3. s[2] # LF
    BY <1>6, <1>12, <2>2 DEF M, LF
  <2> QED
    BY <2>1, <2>3 DEF Blank
<1>14. s # <<>>
  BY <1>12
<1>15. NameAt(s).read = TRUE /\ NameAt(s).word = w /\ NameAt(s).rest = r
  <2>1. NameAt(s) = WordOf(s, C)
    BY <1>14, Zenon DEF NameAt, MessWord, WordOf, C
  <2> QED
    BY <1>10, <2>1, WordFields
<1>16. LineAt(s) = LineOf(r)
  BY <1>15, Zenon DEF LineAt
<1>17. LineAt(s).text = V /\ LineAt(s).after = T
  BY <1>3, <1>16
<1>18. ThisAt(s) = [name |-> w, text |-> RmColon(V)]
  BY <1>15, <1>17, Zenon DEF ThisAt
<1> QED
  BY <1>12, <1>13, <1>15, <1>17, <1>18 DEF IsLineAt, w


\* The lines of a text, when its contents may begin; and the messages after them.
Pending(T, tail) ==
  IF Blank(T) # 0
    THEN [all |-> <<>>, contend |-> SubSeq(T, Blank(T) + 1, Len(T) - tail)]
    ELSE Lines(T, tail)
Parsed(T, tail, ms) == SetHeaders(ms, Pending(T, tail).all)

\* What Pending is.
LEMMA PendingType ==
  ASSUME NEW T \in Seq(STRING), NEW tail
  PROVE  Pending(T, tail).all \in Seq(ReadLines) /\ Len(Pending(T, tail).all) \in Nat
<1>1. CASE Blank(T) # 0
  <2> DEFINE e == <<>>
             c == SubSeq(T, Blank(T) + 1, Len(T) - tail)
  <2>1. Pending(T, tail) = [all |-> e, contend |-> c]
    BY <1>1 DEF Pending
  <2>2. e \in Seq(ReadLines) /\ Len(e) = 0
    BY EmptySeq
  <2> HIDE DEF e, c
  <2>3. Pending(T, tail).all = e
    BY <2>1
  <2> QED
    BY <2>2, <2>3
<1>2. CASE Blank(T) = 0
  <2>1. Pending(T, tail) = Lines(T, tail)
    BY <1>2, Zenon DEF Pending
  <2>2. Lines(T, tail).all \in Seq(ReadLines)
    BY LinesDef DEF ReadTexts
  <2> QED
    BY <2>1, <2>2, LenProperties
<1> QED
  BY <1>1, <1>2

\* A line that is taken is the first one, and the others are those behind it.
LEMMA PendingLine ==
  ASSUME NEW c, c # Dashes, NEW V, NEW T \in Seq(STRING), NEW s, IsLineAt(s, c, V, T), NEW tail,
         NEW l, l = [name |-> <<c>>, text |-> RmColon(V)]
  PROVE  /\ Pending(s, tail).all = Cat(<<l>>, Pending(T, tail).all)
         /\ Pending(s, tail).contend = Pending(T, tail).contend
         /\ l \in ReadLines
<1> DEFINE P == LinesFun(tail)
           t == LinesTaken(P, s, tail)
           x == Pending(T, tail)
<1>1. /\ s \in Seq(STRING) /\ Blank(s) = 0
      /\ NameAt(s).read = TRUE /\ NameAt(s).word = <<c>>
      /\ LineAt(s).after = T /\ ThisAt(s) = l
  BY DEF IsLineAt
<1>2. Pending(s, tail) = t
  BY <1>1, LinesDef DEF Pending
<1>3. IsLines(t, P, s, tail)
  BY LinesTakenIs
<1>4. NameAt(s).word[1] # Dashes
  <2>1. NameAt(s).word[1] = c
    BY <1>1
  <2> QED
    BY <2>1
<1>5. BlankAt(s) = Blank(T) /\ ContendAt(s, tail) = SubSeq(T, Blank(T) + 1, Len(T) - tail)
  BY <1>1, Zenon DEF BlankAt, ContendAt
<1>6. l \in ReadLines
  BY <1>1 DEF ReadLines
<1>7. CASE Blank(T) # 0
  <2> DEFINE d == SubSeq(T, Blank(T) + 1, Len(T) - tail)
             e == <<>>
             k == <<l>>
  <2>1. t = [all |-> k, contend |-> d]
    BY <1>1, <1>3, <1>4, <1>5, <1>7 DEF IsLines
  <2>2. x = [all |-> e, contend |-> d]
    BY <1>7 DEF Pending
  <2>3. Cat(k, e) = k
    BY <1>6, OneElement, ConcatEmptySeq DEF Cat
  <2> HIDE DEF d, e, k
  <2>4. t.all = k /\ t.contend = d /\ x.all = e /\ x.contend = d
    BY <2>1, <2>2
  <2> HIDE DEF x, t
  <2> QED
    BY <1>2, <1>6, <2>3, <2>4 DEF k, x, t
<1>8. CASE Blank(T) = 0
  <2>1. t = LineBefore(P[T], l)
    BY <1>1, <1>3, <1>4, <1>5, <1>8 DEF IsLines
  <2>2. x = P[T] /\ x \in ReadTexts(tail)
    <3>1. x = Lines(T, tail)
      BY <1>8, Zenon DEF Pending
    <3> QED
      BY <3>1, LinesFunIs, LinesDef
  <2> HIDE DEF x
  <2> DEFINE a == <<l>> \o x.all
  <2>3. LineBefore(x, l) = [x EXCEPT !.all = a]
    BY Zenon DEF LineBefore
  <2>4. a = Cat(<<l>>, x.all)
    BY DEF Cat
  <2> HIDE DEF a
  <2>5. LineBefore(x, l).all = a /\ LineBefore(x, l).contend = x.contend
    BY <2>2, <2>3 DEF ReadTexts
  <2> QED
    BY <1>2, <1>6, <2>1, <2>2, <2>4, <2>5 DEF x
<1> QED
  BY <1>7, <1>8

\* So the messages are those of the text behind the line, after it.
LEMMA ParsedLine ==
  ASSUME NEW c \in LineNames, NEW V, IsBehindName(V), NEW T \in Seq(STRING),
         NEW s, s = Line(c, V, T), NEW tail, NEW ms,
         NEW l, l = [name |-> <<c>>, text |-> RmColon(V)]
  PROVE  /\ Parsed(s, tail, ms) = Parsed(T, tail, After(ms, l))
         /\ Pending(s, tail).contend = Pending(T, tail).contend
         /\ s \in Seq(STRING) /\ Blank(s) = 0
<1> DEFINE y == Pending(T, tail).all
<1>1. IsLineAt(s, c, V, T)
  BY LineIs
<1>2. c # Dashes
  BY DEF LineNames
<1>3. /\ Pending(s, tail).all = Cat(<<l>>, y)
      /\ Pending(s, tail).contend = Pending(T, tail).contend
      /\ l \in ReadLines
  BY <1>1, <1>2, PendingLine
<1>4. y \in Seq(ReadLines)
  BY PendingType
<1> HIDE DEF y
<1>5. SetHeaders(ms, Cat(<<l>>, y)) = SetHeaders(After(ms, l), y)
  BY <1>3, <1>4, SetCons
<1>6. Parsed(s, tail, ms) = Parsed(T, tail, After(ms, l))
  BY <1>3, <1>5 DEF Parsed, y
<1>7. s \in Seq(STRING) /\ Blank(s) = 0
  BY <1>1 DEF IsLineAt
<1> QED
  BY <1>3, <1>6, <1>7

\* Nothing comes of no message.
LEMMA ParsedNone ==
  ASSUME NEW T \in Seq(STRING), NEW tail
  PROVE  Parsed(T, tail, {}) = {}
BY PendingType, SetNone DEF Parsed


-----------------------------------------------------------------------------
(* The end of a message.                                                   *)

\* The end line, and the contents in front of it.
EndText(tid, flag) == Cat(<<Dashes>>, Cat(tid, Cat(<<flag>>, CRLF)))
EndOf(tid, c, flag) ==
  IF c = <<>> THEN EndText(tid, flag)
    ELSE Cat(<<LF>>, Cat(c, Cat(<<LF>>, EndText(tid, flag))))

\* What the provers need to know of an id, a flag and the dashes.
EndParts(tid, flag) ==
  /\ tid \in Seq(STRING) /\ tid # <<>> /\ Len(tid) \in Nat /\ Len(tid) # 0
  /\ \A i \in 1 .. Len(tid) : tid[i] \notin {" ", ":", Quote, Dashes, CR, LF}
  /\ flag \in STRING /\ flag \notin {" ", ":", Quote, Dashes, CR, LF}
  /\ Dashes \in STRING /\ Dashes \notin {" ", ":", Quote, CR, LF}

\* An id and a flag are such parts.
LEMMA EndPartsIs ==
  ASSUME NEW tid \in Ids, NEW flag \in Flags
  PROVE  EndParts(tid, flag)
<1>1. tid \in Seq(STRING \ {" ", ":", Quote, Dashes, CR, LF}) /\ tid # <<>>
  <2>1. {" ", ":", Quote, Dashes} \cup {CR, LF} = {" ", ":", Quote, Dashes, CR, LF}
    OBVIOUS
  <2> QED
    BY <2>1 DEF Ids, WordsWithout
<1>2. \A i \in 1 .. Len(tid) : tid[i] \in STRING /\ tid[i] \notin {" ", ":", Quote, Dashes, CR, LF}
  <2> DEFINE C == {" ", ":", Quote, Dashes, CR, LF}
             S == STRING \ C
  <2>1. tid \in Seq(S)
    BY <1>1
  <2> HIDE DEF S
  <2>2. \A i \in 1 .. Len(tid) : tid[i] \in S
    BY <2>1, ElementOfSeq
  <2> HIDE DEF C
  <2>3. \A i \in 1 .. Len(tid) : tid[i] \in STRING /\ tid[i] \notin C
    BY <2>2 DEF S
  <2> QED
    BY <2>3, Zenon DEF C
<1>3. tid \in Seq(STRING)
  <2>1. STRING \ {" ", ":", Quote, Dashes, CR, LF} \subseteq STRING
    OBVIOUS
  <2> QED
    BY <1>1, <2>1, SeqMonotonic
<1>4. Len(tid) \in Nat /\ Len(tid) # 0
  BY <1>1, <1>3, EmptySeq, LenProperties
<1>5. flag \in STRING /\ flag \notin {" ", ":", Quote, Dashes, CR, LF}
  <2>1. flag \in Marks
    BY DEF Marks
  <2>2. flag \notin {" ", ":", Quote, Dashes, CR, LF}
    BY DEF Flags, Quote, Dashes, CR, LF
  <2> QED
    BY <2>1, <2>2, MarksLemma
<1>6. Dashes \in STRING /\ Dashes \notin {" ", ":", Quote, CR, LF}
  <2>1. Dashes \in Marks
    BY DEF Marks
  <2>2. Dashes \notin {" ", ":", Quote, CR, LF}
    BY DEF Quote, Dashes, CR, LF
  <2> QED
    BY <2>1, <2>2, MarksLemma
<1> QED
  BY <1>1, <1>2, <1>3, <1>4, <1>5, <1>6 DEF EndParts

\* The end line is one word and the end of the line.
EndWord(tid, flag) == Cat(<<Dashes>>, Cat(tid, <<flag>>))
IsEndWord(w, tid, flag) ==
  /\ w \in Seq(STRING) /\ Len(w) = Len(tid) + 2 /\ w[1] = Dashes /\ w[2] = tid[1]
  /\ w[Len(tid) + 2] = flag
  /\ \A i \in 1 .. Len(w) : w[i] \notin {" ", ":", Quote, CR, LF}
  /\ \A i \in 2 .. Len(w) : w[i] # Dashes
  /\ Part(w, 0, Len(tid) + 1) = Cat(<<Dashes>>, tid)

\* An id and a flag make such a word.
LEMMA EndWordIs ==
  ASSUME NEW tid \in Ids, NEW flag \in Flags, NEW w, w = EndWord(tid, flag)
  PROVE  IsEndWord(w, tid, flag) /\ EndText(tid, flag) = Cat(w, CRLF)
<1> DEFINE d == <<Dashes>>
           f == <<flag>>
           n == Len(tid)
           q == Cat(d, tid)
<1>1. EndParts(tid, flag)
  BY EndPartsIs
<1>2. /\ d \in Seq(STRING) /\ f \in Seq(STRING) /\ Len(d) = 1 /\ Len(f) = 1
      /\ d[1] = Dashes /\ f[1] = flag
  BY <1>1, OneElement DEF EndParts
<1>3. tid \in Seq(STRING) /\ n \in Nat /\ n # 0
  BY <1>1 DEF EndParts
<1> HIDE DEF d, f
<1>4. q \in Seq(STRING) /\ w = Cat(q, f) /\ EndText(tid, flag) = Cat(w, CRLF)
  <2>1. w = Cat(d, Cat(tid, f)) /\ EndText(tid, flag) = Cat(d, Cat(tid, Cat(f, CRLF)))
    BY Zenon DEF EndWord, EndText, d, f
  <2>2. CRLF \in Seq(STRING)
    BY LineEnd
  <2>3. Cat(q, f) = Cat(d, Cat(tid, f)) /\ q \in Seq(STRING) /\ Cat(tid, f) \in Seq(STRING)
    BY <1>2, <1>3, TextAssoc, TextCat
  <2>4. Cat(Cat(d, Cat(tid, f)), CRLF) = Cat(d, Cat(Cat(tid, f), CRLF))
    BY <1>2, <2>2, <2>3, TextAssoc
  <2>5. Cat(Cat(tid, f), CRLF) = Cat(tid, Cat(f, CRLF))
    BY <1>2, <1>3, <2>2, TextAssoc
  <2> QED
    BY <2>1, <2>3, <2>4, <2>5
<1>5. IsTwo(q, STRING, d, tid, 1)
  BY <1>2, <1>3, TwoParts
<1> DEFINE k == Len(q)
<1>6. IsTwo(w, STRING, q, f, k)
  BY <1>2, <1>4, TwoParts
<1> HIDE DEF q, n
<1>7. /\ k = n + 1 /\ q[1] = Dashes
      /\ \A i \in 1 .. n : q[1 + i] = tid[i]
  BY <1>2, <1>5 DEF IsTwo, n
<1> HIDE DEF k
<1>8. /\ w \in Seq(STRING) /\ Len(w) = k + 1 /\ Part(w, 0, k) = q
      /\ \A i \in 1 .. k : w[i] = q[i]
      /\ w[k + 1] = flag
  BY <1>2, <1>6 DEF IsTwo
<1>9. w[1] = Dashes /\ w[1 + 1] = tid[1]
  <2>1. 1 \in 1 .. k /\ 1 + 1 \in 1 .. k /\ 1 \in 1 .. n
    BY <1>3, <1>7
  <2> QED
    BY <1>7, <1>8, <2>1
<1>10. \A i \in 1 .. Len(w) : i = 1 \/ i = k + 1 \/ \E j \in 1 .. n : w[i] = tid[j]
  <2> TAKE i \in 1 .. Len(w)
  <2>1. CASE i # 1 /\ i # k + 1
    <3>1. i - 1 \in 1 .. n /\ i \in 1 .. k /\ 1 + (i - 1) = i
      BY <1>3, <1>7, <1>8, <2>1
    <3>2. q[1 + (i - 1)] = tid[i - 1]
      BY <1>7, <3>1
    <3> QED
      BY <1>8, <3>1, <3>2
  <2> QED
    BY <2>1
<1>11. /\ \A j \in 1 .. n : tid[j] \notin {" ", ":", Quote, Dashes, CR, LF}
       /\ flag \notin {" ", ":", Quote, Dashes, CR, LF} /\ Dashes \notin {" ", ":", Quote, CR, LF}
  BY <1>1 DEF EndParts, n
<1>12. \A i \in 1 .. Len(w) : w[i] \notin {" ", ":", Quote, CR, LF} /\ (i # 1 => w[i] # Dashes)
  <2> TAKE i \in 1 .. Len(w)
  <2>1. CASE i = 1
    BY <1>9, <1>11, <2>1
  <2>2. CASE i = k + 1
    BY <1>8, <1>11, <2>2
  <2>3. CASE \E j \in 1 .. n : w[i] = tid[j]
    BY <1>11, <2>3
  <2> QED
    BY <1>10, <2>1, <2>2, <2>3
<1>13. \A i \in 2 .. Len(w) : i \in 1 .. Len(w) /\ i # 1
  BY <1>3, <1>7, <1>8
<1>14. Len(w) = n + 2 /\ w[n + 2] = flag /\ n + 1 = k /\ n + 2 = k + 1 /\ 1 + 1 = 2
  BY <1>3, <1>7, <1>8
<1>15. /\ w \in Seq(STRING) /\ Len(w) = n + 2 /\ w[1] = Dashes /\ w[2] = tid[1] /\ w[n + 2] = flag
       /\ \A i \in 1 .. Len(w) : w[i] \notin {" ", ":", Quote, CR, LF}
       /\ \A i \in 2 .. Len(w) : w[i] # Dashes
       /\ Part(w, 0, n + 1) = q
  BY <1>8, <1>9, <1>12, <1>13, <1>14
<1> QED
  BY <1>4, <1>15 DEF IsEndWord, n, q, d


\* The text up to the end line; the end line is the last one that has dashes in front
\* of a flag.
EndFound(t, tid, flag) ==
  CheckEnd2(t).flag = flag /\ CheckEnd2(t).vt # 0 /\ Len(t) - CheckEnd2(t).vt + 2 = Len(tid) + 5

\* lmsrp_check_end2 finds the end line, whatever the contents before it look like.
THEOREM EndIsFound ==
  ASSUME NEW tid \in Ids, NEW flag \in Flags, NEW Y \in Seq(STRING),
         NEW t, t = Cat(Y, EndText(tid, flag))
  PROVE  EndFound(t, tid, flag)
<1> DEFINE w == EndWord(tid, flag)
           n == Len(tid)
           y == Len(Y)
           p == Cat(Y, w)
           k == Len(p)
           C == {" ", Quote, CR, LF}
           I == {i \in 1 .. k : t[i] = Dashes}
           v == y + 1
<1>1. IsEndWord(w, tid, flag) /\ EndText(tid, flag) = Cat(w, CRLF)
  BY EndWordIs
<1>2. n \in Nat /\ y \in Nat
  BY EndPartsIs, LenProperties DEF EndParts
<1> HIDE DEF w
<1>3. w \in Seq(STRING) /\ Len(w) = n + 2
  BY <1>1 DEF IsEndWord
<1>19. /\ w[1] = Dashes /\ w[n + 2] = flag
       /\ \A i \in 2 .. Len(w) : w[i] # Dashes
  BY <1>1 DEF IsEndWord
<1>20. \A i \in 1 .. Len(w) : w[i] \notin C
  BY <1>1 DEF IsEndWord
<1>4. CRLF \in Seq(STRING) /\ Len(CRLF) = 2 /\ \A i \in 1 .. Len(CRLF) : CRLF[i] \in C
  <2>1. CRLF \in Seq(STRING) /\ Len(CRLF) = 2
    BY LineEnd
  <2>2. CRLF[1] = CR /\ CRLF[2] = LF
    BY DEF CRLF
  <2>3. \A i \in 1 .. 2 : i = 1 \/ i = 2
    OBVIOUS
  <2> QED
    BY <2>1, <2>2, <2>3
<1>5. p \in Seq(STRING) /\ t = Cat(p, CRLF)
  <2>1. CRLF \in Seq(STRING)
    BY <1>4
  <2>2. Cat(Cat(Y, w), CRLF) = Cat(Y, Cat(w, CRLF))
    BY <1>3, <2>1, TextAssoc
  <2>3. p \in Seq(STRING)
    BY <1>3, TextCat
  <2> QED
    BY <1>1, <2>2, <2>3
<1>6. IsTwo(p, STRING, Y, w, y) /\ IsTwo(t, STRING, p, CRLF, k)
  <2>1. IsTwo(p, STRING, Y, w, y)
    BY <1>3, TwoParts
  <2> HIDE DEF p
  <2>2. IsTwo(t, STRING, p, CRLF, k)
    BY <1>4, <1>5, TwoParts
  <2> QED
    BY <2>1, <2>2
<1>21. /\ Len(p) = y + Len(w) /\ y \in Nat /\ Len(w) \in Nat
       /\ \A i \in 1 .. Len(w) : p[y + i] = w[i]
  BY <1>6 DEF IsTwo
<1> HIDE DEF n, y
<1>7. k = y + n + 2 /\ k \in Nat /\ \A i \in 1 .. Len(w) : p[y + i] = w[i]
  <2> HIDE DEF p
  <2> QED
    BY <1>2, <1>3, <1>21
<1> HIDE DEF p
<1>8. Len(t) = k + 2 /\ \A i \in 1 .. k : t[i] = p[i]
  BY <1>4, <1>6 DEF IsTwo
<1> HIDE DEF k, C
<1>9. \A i \in 1 .. n + 2 : t[y + i] = w[i]
  <2> TAKE i \in 1 .. n + 2
  <2>1. y + i \in 1 .. k /\ i \in 1 .. Len(w)
    BY <1>2, <1>3, <1>7
  <2> QED
    BY <1>7, <1>8, <2>1
<1>10. p # <<>> /\ p[k] = flag /\ t[k] = flag /\ flag \notin C
  <2>1. n + 2 \in 1 .. Len(w) /\ y + (n + 2) = k /\ n + 2 \in 1 .. n + 2 /\ k # 0
    BY <1>2, <1>3, <1>7
  <2>2. p[k] = flag /\ t[k] = flag
    BY <1>19, <1>7, <1>9, <2>1
  <2>3. flag \notin C
    BY <1>19, <1>20, <2>1
  <2>4. p # <<>>
    BY <2>1, EmptySeq DEF k
  <2> QED
    BY <2>2, <2>3, <2>4
<1>11. LastOut(t, C) = k
  BY <1>4, <1>5, <1>10, LastOutIs DEF k
<1>12. v \in 1 .. k /\ t[v] = Dashes
  <2>1. 1 \in 1 .. n + 2 /\ v \in 1 .. k /\ v = y + 1
    BY <1>2, <1>7
  <2> QED
    BY <1>19, <1>9, <2>1
<1>13. v \in I /\ I \in SUBSET Nat
  BY <1>12
<1>14. \A i \in I : i <= v
  <2> SUFFICES ASSUME NEW i \in I, ~(i <= v) PROVE FALSE
    BY <1>13
  <2> DEFINE j == i - y
  <2>1. j \in 2 .. Len(w) /\ j \in 1 .. n + 2 /\ y + j = i
    BY <1>2, <1>3, <1>7
  <2> HIDE DEF j
  <2>2. t[y + j] = w[j] /\ w[j] # Dashes
    BY <1>19, <1>9, <2>1
  <2> QED
    BY <2>1, <2>2
<1> HIDE DEF I
<1>15. I # {} /\ Max(I) = v
  BY <1>13, <1>14, MaxIs
<1>16. SelectLastInSubSeq(t, 1, k, LAMBDA c : c = Dashes) = v
  BY <1>15 DEF SelectLastInSubSeq, I
<1>17. CheckEnd2(t) = [vt |-> v, flag |-> flag]
  <2>1. k # 0 /\ t[k] \in Flags
    BY <1>2, <1>7, <1>10
  <2> QED
    BY <1>10, <1>11, <1>16, <2>1 DEF CheckEnd2, C
<1>18. Len(t) - v + 2 = n + 5 /\ v # 0
  <2>1. n \in Nat /\ y \in Nat /\ k = y + n + 2 /\ Len(t) = k + 2
    BY <1>2, <1>7, <1>8, Zenon
  <2> QED
    BY <2>1
<1>31. CheckEnd2(t).vt = v /\ CheckEnd2(t).flag = flag
  BY <1>17
<1> QED
  BY <1>18, <1>31 DEF EndFound, n

\* The contents are what is between the two LFs.
LEMMA EndWith ==
  ASSUME NEW tid \in Ids, NEW flag \in Flags, NEW c \in Seq(STRING), c # <<>>,
         NEW T, T = EndOf(tid, c, flag), NEW tail, tail = Len(tid) + 5
  PROVE  /\ T \in Seq(STRING) /\ Pending(T, tail) = [all |-> <<>>, contend |-> c]
         /\ \E Y \in Seq(STRING) : T = Cat(Y, EndText(tid, flag))
<1> DEFINE l == <<LF>>
           w == EndWord(tid, flag)
           E == EndText(tid, flag)
           r == Cat(l, E)
           n == Len(tid)
           k == Len(c)
           Y == Cat(l, Cat(c, l))
<1>1. l \in Seq(STRING) /\ Len(l) = 1 /\ l[1] = LF /\ CRLF \in Seq(STRING) /\ Len(CRLF) = 2
  BY LineEnd, OneElement
<1>2. IsEndWord(w, tid, flag) /\ E = Cat(w, CRLF)
  BY EndWordIs
<1>3. n \in Nat /\ k \in Nat
  BY EndPartsIs, LenProperties DEF EndParts
<1> HIDE DEF w, E, l
<1>4. w \in Seq(STRING) /\ Len(w) = n + 2
  BY <1>2 DEF IsEndWord
<1>5. E \in Seq(STRING) /\ Len(E) = n + 4
  <2>1. IsTwo(E, STRING, w, CRLF, Len(w))
    BY <1>1, <1>2, <1>4, TwoParts
  <2> HIDE DEF n
  <2> QED
    BY <1>1, <1>3, <1>4, <2>1 DEF IsTwo
<1>6. r \in Seq(STRING) /\ Len(r) = n + 5
  <2>1. IsTwo(r, STRING, l, E, 1)
    BY <1>1, <1>5, TwoParts
  <2> HIDE DEF n, r
  <2> QED
    BY <1>3, <1>5, <2>1 DEF IsTwo
<1>7. T = Cat(l, Cat(c, r))
  BY Zenon DEF EndOf, l, r, E
<1>8. T = Cat(Y, E) /\ Y \in Seq(STRING)
  <2>1. Cat(c, l) \in Seq(STRING) /\ Y \in Seq(STRING)
    BY <1>1, TextCat
  <2>2. Cat(Cat(c, l), E) = Cat(c, r)
    BY <1>1, <1>5, TextAssoc
  <2>3. Cat(Y, E) = Cat(l, Cat(Cat(c, l), E))
    BY <1>1, <1>5, <2>1, TextAssoc
  <2> QED
    BY <1>7, <2>1, <2>2, <2>3
<1> HIDE DEF r, Y
<1> DEFINE m == 1 + k
<1>9. IsThree(T, STRING, l, c, r, 1, m)
  BY <1>1, <1>6, <1>7, ThreeParts
<1> HIDE DEF n, k
<1>10. /\ T \in Seq(STRING) /\ Len(T) = m + Len(r) /\ Part(T, 1, m) = c
       /\ Len(T) \in Nat /\ \A i \in 1 .. 1 : T[i] = l[i]
  BY <1>9 DEF IsThree
<1>11. T[1] = LF /\ T # <<>>
  <2>1. T[1] = l[1]
    BY <1>10
  <2>2. Len(T) # 0
    BY <1>3, <1>6, <1>10
  <2> QED
    BY <1>1, <1>10, <2>1, <2>2, EmptySeq
<1>12. Blank(T) = 1
  BY <1>11 DEF Blank, StartsWith
<1>13. Len(T) - tail = m
  BY <1>3, <1>6, <1>10 DEF n
<1>14. SubSeq(T, 1 + 1, Len(T) - tail) = c
  BY <1>10, <1>13, Zenon DEF Part
<1>15. Pending(T, tail) = [all |-> <<>>, contend |-> c]
  <2>1. Blank(T) # 0 /\ SubSeq(T, Blank(T) + 1, Len(T) - tail) = c
    BY <1>12, <1>14
  <2> QED
    BY <2>1, Zenon DEF Pending
<1> QED
  BY <1>8, <1>10, <1>15 DEF E


\* Without contents the end line is read.
LEMMA EndWithout ==
  ASSUME NEW tid \in Ids, NEW flag \in Flags, NEW T, T = EndText(tid, flag), NEW tail,
         NEW w, w = EndWord(tid, flag)
  PROVE  /\ T \in Seq(STRING) /\ Blank(T) = 0
         /\ ThisAt(T).name = w /\ ThisAt(T) \in ReadLines
         /\ Pending(T, tail) = [all |-> <<ThisAt(T)>>, contend |-> <<>>]
<1> DEFINE C == {" ", ":", CR, LF}
           n == Len(tid)
           e == <<>>
<1>1. IsEndWord(w, tid, flag) /\ T = Cat(w, CRLF)
  BY EndWordIs
<1>2. n \in Nat /\ n # 0 /\ tid[1] # LF /\ Dashes # LF
  <2>1. EndParts(tid, flag)
    BY EndPartsIs
  <2>2. n \in Nat /\ n # 0 /\ \A i \in 1 .. n : tid[i] \notin {" ", ":", Quote, Dashes, CR, LF}
    BY <2>1 DEF EndParts
  <2>3. 1 \in 1 .. n
    <3>1. n \in Nat /\ n # 0
      BY <2>2
    <3> HIDE DEF n
    <3> QED
      BY <3>1
  <2>4. tid[1] # LF
    BY <2>2, <2>3
  <2>5. Dashes # LF
    BY <2>1 DEF EndParts
  <2> QED
    BY <2>2, <2>4, <2>5
<1>3. w \in Seq(STRING) /\ Len(w) = n + 2 /\ w[1] = Dashes /\ w[2] = tid[1]
  BY <1>1 DEF IsEndWord
<1>4. \A i \in 1 .. Len(w) : w[i] \in STRING \ (C \cup {CR, LF})
  <2>1. \A i \in 1 .. Len(w) : w[i] \notin {" ", ":", Quote, CR, LF}
    BY <1>1 DEF IsEndWord
  <2>2. \A i \in 1 .. Len(w) : w[i] \in STRING
    BY <1>3, ElementOfSeq
  <2> QED
    BY <2>1, <2>2
<1>5. CRLF \in Seq(STRING) /\ Len(CRLF) = 2 /\ CRLF[1] = CR
  <2>1. CRLF[1] = CR
    BY DEF CRLF
  <2> QED
    BY <2>1, LineEnd
<1>6. IsSeparators(C) /\ Starts(CRLF, C) /\ CR \in C
  BY <1>5 DEF IsSeparators, Marks, Starts
<1> HIDE DEF n, C
<1>7. w # <<>> /\ Len(w) # 0
  <2>1. Len(w) # 0
    BY <1>2, <1>3
  <2> QED
    BY <2>1, EmptySeq
<1>8. w \in WordsWithout(C)
  <2> DEFINE S == STRING \ (C \cup {CR, LF})
  <2>1. \A i \in 1 .. Len(w) : w[i] \in S
    BY <1>4
  <2> HIDE DEF S
  <2>2. w \in Seq(S)
    BY <1>3, <2>1, SeqNarrow
  <2> QED
    BY <1>7, <2>2 DEF WordsWithout, S
<1>9. IsTwo(T, STRING, w, CRLF, Len(w))
  BY <1>1, <1>3, <1>5, TwoParts
<1>10. T \in Seq(STRING) /\ Len(T) = Len(w) + 2 /\ \A i \in 1 .. Len(w) : T[i] = w[i]
  BY <1>5, <1>9 DEF IsTwo
<1>11. T[1] = Dashes /\ T[2] = tid[1] /\ T # <<>>
  <2>1. 1 \in 1 .. Len(w) /\ 2 \in 1 .. Len(w) /\ Len(T) # 0
    BY <1>2, <1>3, <1>10
  <2> QED
    BY <1>3, <1>10, <2>1, EmptySeq
<1>12. Blank(T) = 0
  BY <1>2, <1>11 DEF Blank, StartsWith
<1> HIDE DEF e
<1>13. e \in Seq(C) /\ T = Cat(e, Cat(w, CRLF))
  <2>1. e = <<>>
    BY DEF e
  <2>2. Cat(w, CRLF) \in Seq(STRING)
    BY <1>1, <1>10
  <2> QED
    BY <1>1, <2>1, <2>2, EmptySeq, TextEmpty
<1>14. IsWord(WordOf(T, C), w, CRLF)
  BY <1>5, <1>6, <1>8, <1>13, WordIs
<1>15. NameAt(T).read = TRUE /\ NameAt(T).word = w
  <2>1. NameAt(T) = WordOf(T, C)
    BY <1>11, Zenon DEF NameAt, MessWord, WordOf, C
  <2> QED
    BY <1>14, <2>1, WordFields
<1>16. IsLines(Lines(T, tail), LinesFun(tail), T, tail)
  BY <1>10, LinesDef, LinesTakenIs
<1>17. Lines(T, tail) = [all |-> <<ThisAt(T)>>, contend |-> <<>>]
  BY <1>3, <1>15, <1>16 DEF IsLines
<1>18. Pending(T, tail) = [all |-> <<ThisAt(T)>>, contend |-> <<>>]
  BY <1>12, <1>17 DEF Pending
<1>19. ThisAt(T).name = w /\ ThisAt(T) \in ReadLines
  BY <1>10, <1>15 DEF ThisAt, ReadLines
<1> QED
  BY <1>10, <1>12, <1>18, <1>19

\* A word of more than one token is no header's name.
LEMMA NoHeader ==
  ASSUME NEW name, Len(name) # 1
  PROVE  HeaderAt(name) = 0
<1>1. \A n : name # <<n>>
  OBVIOUS
<1>2. {i \in 1 .. Len(NameRead) : name = <<NameRead[i]>>} = {}
  BY <1>1, Zenon
<1> QED
  BY <1>2, Zenon DEF HeaderAt, SelectInSeq

\* It changes nothing.
LEMMA SetEnd ==
  ASSUME NEW tid \in Ids, NEW flag \in Flags, NEW m, m.tid = tid, NEW s
  PROVE  SetHeader(m, EndWord(tid, flag), s) = {m}
<1> DEFINE w == EndWord(tid, flag)
           n == Len(tid)
           q == Cat(<<Dashes>>, tid)
<1>1. IsEndWord(w, tid, flag)
  BY EndWordIs
<1>2. n \in Nat /\ n # 0 /\ tid \in Seq(STRING) /\ Dashes \in STRING
  BY EndPartsIs DEF EndParts
<1> HIDE DEF w
<1>3. w \in Seq(STRING) /\ Len(w) = n + 2 /\ w[1] = Dashes /\ w[n + 2] = flag /\ Part(w, 0, n + 1) = q
  BY <1>1 DEF IsEndWord
<1>4. Len(q) = n + 1 /\ q \in Seq(STRING)
  <2> DEFINE d == <<Dashes>>
  <2>1. d \in Seq(STRING) /\ Len(d) = 1
    BY <1>2, OneElement
  <2> HIDE DEF d, q
  <2>2. IsTwo(q, STRING, d, tid, 1)
    BY <1>2, <2>1, TwoParts DEF d, q
  <2> HIDE DEF n
  <2>3. Len(q) = 1 + Len(tid) /\ q \in Seq(STRING)
    BY <2>2 DEF IsTwo
  <2> QED
    BY <1>2, <2>3 DEF n
<1> HIDE DEF n, q
<1>5. HeaderAt(w) = 0
  <2>1. Len(w) # 1
    BY <1>2, <1>3
  <2> QED
    BY <2>1, NoHeader
<1>6. w # <<"MSRP">>
  <2>1. Len(<<"MSRP">>) = 1 /\ Len(w) # 1
    BY <1>2, <1>3
  <2> QED
    BY <2>1
<1>7. IsEndLine(m, w)
  <2>1. <<Dashes>> \o m.tid = q
    BY DEF q, Cat
  <2>2. SubSeq(q, 1, Len(q)) = q
    <3>1. Part(q, 0, Len(q)) = q /\ 0 + 1 = 1
      BY <1>4, PartAll
    <3> QED
      BY <3>1 DEF Part
  <2>3. SubSeq(w, 1, Len(q)) = q
    <3>1. 0 + 1 = 1
      OBVIOUS
    <3> QED
      BY <1>3, <1>4, <3>1 DEF Part
  <2>4. IsPrefix(q, w)
    <3>1. Len(q) <= Len(w)
      BY <1>2, <1>3, <1>4
    <3> QED
      BY <2>2, <2>3, <3>1 DEF IsPrefix
  <2>5. Len(w) > 1 + Len(m.tid)
    BY <1>2, <1>3 DEF n
  <2>6. Last(w) \in Flags
    BY <1>3 DEF Last
  <2> QED
    BY <2>1, <2>4, <2>5, <2>6, Zenon DEF IsEndLine
<1> QED
  BY <1>5, <1>6, <1>7 DEF SetHeader, w

\* What the parser makes of the end of a message: its contents.
LEMMA EndTrip ==
  ASSUME NEW tid \in Ids, NEW flag \in Flags, NEW c \in Seq(STRING),
         NEW T, T = EndOf(tid, c, flag), NEW tail, tail = Len(tid) + 5,
         NEW ms, \A m \in ms : m.tid = tid
  PROVE  /\ T \in Seq(STRING) /\ Parsed(T, tail, ms) = ms /\ Pending(T, tail).contend = c
         /\ \E Y \in Seq(STRING) : T = Cat(Y, EndText(tid, flag))
<1>1. CASE c # <<>>
  <2>1. /\ T \in Seq(STRING) /\ Pending(T, tail) = [all |-> <<>>, contend |-> c]
        /\ \E Y \in Seq(STRING) : T = Cat(Y, EndText(tid, flag))
    BY <1>1, EndWith
  <2>2. Pending(T, tail).all = <<>> /\ Pending(T, tail).contend = c
    BY <2>1
  <2>3. Parsed(T, tail, ms) = ms
    BY <2>2, SetNothing DEF Parsed
  <2> QED
    BY <2>1, <2>2, <2>3
<1>2. CASE c = <<>>
  <2> DEFINE l == ThisAt(T)
             e == <<>>
  <2>1. T = EndText(tid, flag)
    BY <1>2, Zenon DEF EndOf
  <2>2. /\ T \in Seq(STRING) /\ l.name = EndWord(tid, flag) /\ l \in ReadLines
        /\ Pending(T, tail) = [all |-> <<l>>, contend |-> e]
    BY <2>1, EndWithout
  <2> HIDE DEF l
  <2>3. Pending(T, tail).all = <<l>> /\ Pending(T, tail).contend = e
    BY <2>2
  <2>4. e \in Seq(ReadLines) /\ <<l>> = Cat(<<l>>, e) /\ e = c
    <3>1. <<l>> \in Seq(ReadLines)
      BY <2>2, OneElement
    <3> QED
      BY <1>2, <3>1, EmptySeq, ConcatEmptySeq DEF Cat
  <2>5. l \in ReadLines /\ e \in Seq(ReadLines)
    BY <2>2, <2>4, Zenon
  <2>6. SetHeaders(ms, Cat(<<l>>, e)) = SetHeaders(After(ms, l), e)
    <3> HIDE DEF e
    <3> QED
      BY <2>5, SetCons
  <2>7. SetHeaders(After(ms, l), e) = After(ms, l)
    BY SetNothing
  <2>8. \A m \in ms : SetHeader(m, l.name, l.text) = {m}
    BY <2>2, SetEnd
  <2>9. After(ms, l) = ms
    BY <2>8 DEF After
  <2>10. Parsed(T, tail, ms) = ms
    BY <2>3, <2>4, <2>6, <2>7, <2>9 DEF Parsed
  <2>11. \E Y \in Seq(STRING) : T = Cat(Y, EndText(tid, flag))
    <3>1. e \in Seq(STRING) /\ T = Cat(e, EndText(tid, flag))
      BY <2>1, <2>2, EmptySeq, TextEmpty
    <3> QED
      BY <3>1
  <2> QED
    BY <2>2, <2>3, <2>4, <2>10, <2>11
<1> QED
  BY <1>1, <1>2


-----------------------------------------------------------------------------
(* The tables of the headers.                                              *)

\* A number of the tables is one of these.
LEMMA Fourteen ==
  /\ \A i \in 1 .. 14 : \/ i = 1 \/ i = 2 \/ i = 3 \/ i = 4 \/ i = 5 \/ i = 6 \/ i = 7 \/ i = 8 \/ i = 9
        \/ i = 10 \/ i = 11 \/ i = 12 \/ i = 13 \/ i = 14
  /\ 14 \in Nat /\ DOMAIN Order = 1 .. 14 /\ Len(Order) = 14 /\ Len(NameRead) = 14
<1>1. \A i \in 1 .. 14 : \/ i = 1 \/ i = 2 \/ i = 3 \/ i = 4 \/ i = 5 \/ i = 6 \/ i = 7 \/ i = 8 \/ i = 9
        \/ i = 10 \/ i = 11 \/ i = 12 \/ i = 13 \/ i = 14
  OBVIOUS
<1>2. DOMAIN Order = 1 .. 14 /\ Len(Order) = 14
  BY DEF Order
<1>3. Len(NameRead) = 14
  BY DEF NameRead
<1> QED
  BY <1>1, <1>2, <1>3

\* What stands in them.
LEMMA OrderAt ==
  /\ Order[1] = "to_path" /\ Order[2] = "from_path" /\ Order[3] = "use_path"
      /\ Order[4] = "status" /\ Order[5] = "messid" /\ Order[6] = "failure_report"
      /\ Order[7] = "success_report" /\ Order[8] = "expries" /\ Order[9] = "max_expries"
      /\ Order[10] = "min_expries" /\ Order[11] = "byte_range" /\ Order[12] = "www"
      /\ Order[13] = "auth" /\ Order[14] = "content_type"
BY DEF Order

\* The names that are read, one by one.
LEMMA ReadAt ==
  /\ NameRead[1] = "To-Path" /\ NameRead[2] = "From-Path" /\ NameRead[3] = "Use-Path"
      /\ NameRead[4] = "Status" /\ NameRead[5] = "Message-ID"
      /\ NameRead[6] = "Failure-Report" /\ NameRead[7] = "Success-Report"
      /\ NameRead[8] = "Expires" /\ NameRead[9] = "Max-Expires"
      /\ NameRead[10] = "Min-Expires" /\ NameRead[11] = "Byte-Range"
      /\ NameRead[12] = "WWW-Authenticate" /\ NameRead[13] = "Authorization"
      /\ NameRead[14] = "Content-Type"
BY DEF NameRead

\* The names that are written, one by one.
LEMMA WrittenAt ==
  /\ NameWritten[1] = "To-Path" /\ NameWritten[2] = "From-Path"
      /\ NameWritten[3] = "Use-Path" /\ NameWritten[4] = "Status"
      /\ NameWritten[5] = "Message-ID" /\ NameWritten[6] = "Failure-Report"
      /\ NameWritten[7] = "Success-Report" /\ NameWritten[8] = "Expries"
      /\ NameWritten[9] = "Max-Expries" /\ NameWritten[10] = "Min-Expries"
      /\ NameWritten[11] = "Byte-Range" /\ NameWritten[12] = "WWW-Authenticate"
      /\ NameWritten[13] = "Authorization" /\ NameWritten[14] = "Content-Type"
BY DEF NameWritten

\* Each header stands in the first table once.
LEMMA OrderOnce ==
  /\ \A i \in 1 .. 14 : Order[i] \in Fields
  /\ \A i, j \in 1 .. 14 : Order[i] = Order[j] => i = j
  /\ \A f \in Fields : \E i \in 1 .. 14 : Order[i] = f
  /\ ToSet(Order) = Fields
<1>1. \A i \in 1 .. 14 : Order[i] \in Fields
  BY Fourteen, OrderAt DEF Fields
<1>2. \A i, j \in 1 .. 14 : Order[i] = Order[j] => i = j
  <2> SUFFICES ASSUME NEW i \in 1 .. 14, NEW j \in 1 .. 14, Order[i] = Order[j] PROVE i = j
    OBVIOUS
  <2> QED
    BY Fourteen, OrderAt
<1>3. \A f \in Fields : \E i \in 1 .. 14 : Order[i] = f
  <2> TAKE f \in Fields
  <2>1. \/ f = Order[1] \/ f = Order[2]
        \/ f = Order[3] \/ f = Order[4]
        \/ f = Order[5] \/ f = Order[6]
        \/ f = Order[7] \/ f = Order[8]
        \/ f = Order[9] \/ f = Order[10]
        \/ f = Order[11] \/ f = Order[12]
        \/ f = Order[13] \/ f = Order[14]
    BY OrderAt DEF Fields
  <2>2. /\ 1 \in 1 .. 14 /\ 2 \in 1 .. 14 /\ 3 \in 1 .. 14 /\ 4 \in 1 .. 14 /\ 5 \in 1 .. 14 /\ 6 \in 1 .. 14 /\ 7 \in 1 .. 14
        /\ 8 \in 1 .. 14 /\ 9 \in 1 .. 14 /\ 10 \in 1 .. 14 /\ 11 \in 1 .. 14 /\ 12 \in 1 .. 14 /\ 13 \in 1 .. 14 /\ 14 \in 1 .. 14
    OBVIOUS
  <2> QED
    BY <2>1, <2>2
<1>4. ToSet(Order) = {Order[i] : i \in 1 .. 14}
  BY Fourteen, Zenon DEF ToSet
<1>5. \A f : f \in {Order[i] : i \in 1 .. 14} <=> f \in Fields
  BY <1>1, <1>3
<1> QED
  BY <1>1, <1>2, <1>3, <1>4, <1>5

\* So does each name in the table of the names that are read.
LEMMA ReadOnce == \A i, j \in 1 .. 14 : NameRead[i] = NameRead[j] => i = j
<1> SUFFICES ASSUME NEW i \in 1 .. 14, NEW j \in 1 .. 14, NameRead[i] = NameRead[j] PROVE i = j
  OBVIOUS
<1> QED
  BY Fourteen, ReadAt


\* The three expiries stand side by side.
LEMMA ExpiriesAt ==
  \A i \in 1 .. 14 : Order[i] \in Expiries <=> i = 8 \/ i = 9 \/ i = 10
<1> TAKE i \in 1 .. 14
<1> QED
  BY Fourteen, OrderAt DEF Expiries

\* What is written for a name is the word of a line, and none of the others.
LEMMA WrittenIs ==
  \A i \in 1 .. 14 : NameWritten[i] \in LineNames /\ NameWritten[i] # "MSRP"
<1> SUFFICES ASSUME NEW i \in 1 .. 14
             PROVE  NameWritten[i] \in LineNames /\ NameWritten[i] # "MSRP"
  OBVIOUS
<1> DEFINE c == NameWritten[i]
<1>1. c \in STRING
  <2>1. DOMAIN NameWritten = 1 .. 14
    BY DEF NameWritten
  <2>2. c \in ToSet(NameWritten)
    BY <2>1, Zenon DEF ToSet
  <2>3. c \in Written
    BY <2>2 DEF Written
  <2> QED
    BY <2>3, WrittenAssumption
<1>2. c \notin {CR, LF, " ", ":", Dashes} /\ c # "MSRP"
  BY Fourteen, WrittenAt DEF CR, LF, Dashes
<1> HIDE DEF c
<1>3. c \in LineNames
  BY <1>1, <1>2 DEF LineNames, Tokens
<1> QED
  BY <1>2, <1>3 DEF c

\* Where a name that is read stands.
LEMMA ReadName ==
  ASSUME NEW i \in 1 .. 14
  PROVE  HeaderAt(<<NameRead[i]>>) = i
<1> DEFINE name == <<NameRead[i]>>
           I == {j \in 1 .. 14 : name = <<NameRead[j]>>}
<1>1. \A j \in I : NameRead[i] = NameRead[j]
  OBVIOUS
<1>2. \A j \in I : j = i
  <2>1. \A j \in I : j \in 1 .. 14
    OBVIOUS
  <2> HIDE DEF I
  <2> QED
    BY <1>1, <2>1, ReadOnce
<1>3. i \in I /\ I \in SUBSET Nat
  BY Fourteen
<1> HIDE DEF I
<1>4. \A j \in I : i <= j
  BY <1>2
<1>5. I # {} /\ Min(I) = i
  BY <1>3, <1>4, MinIs
<1>6. HeaderAt(name) = IF I # {} THEN Min(I) ELSE 0
  <2>1. Len(NameRead) = 14
    BY Fourteen
  <2> HIDE DEF name
  <2> QED
    BY <2>1 DEF HeaderAt, SelectInSeq, I
<1> QED
  BY <1>5, <1>6

\* The parser knows the names that are written, but for those of the expiries.
LEMMA NameTrip ==
  ASSUME NEW i \in 1 .. 14
  PROVE  /\ Order[i] \in Expiries => HeaderAt(<<NameWritten[i]>>) = 0
         /\ Order[i] \notin Expiries => HeaderAt(<<NameWritten[i]>>) = i
<1>1. CASE Order[i] \in Expiries
  <2> DEFINE name == <<NameWritten[i]>>
             I == {j \in 1 .. 14 : name = <<NameRead[j]>>}
  <2>1. i = 8 \/ i = 9 \/ i = 10
    BY <1>1, ExpiriesAt
  <2>2. \A j \in 1 .. 14 : NameWritten[i] # NameRead[j]
    BY <2>1, Fourteen, ReadAt, WrittenAt
  <2>3. I = {}
    BY <2>2
  <2>4. HeaderAt(name) = IF I # {} THEN Min(I) ELSE 0
    <3>1. Len(NameRead) = 14
      BY Fourteen
    <3> HIDE DEF name
    <3> QED
      BY <3>1 DEF HeaderAt, SelectInSeq, I
  <2> QED
    BY <1>1, <2>3, <2>4
<1>2. CASE Order[i] \notin Expiries
  <2>1. i # 8 /\ i # 9 /\ i # 10
    BY <1>2, ExpiriesAt
  <2>2. NameWritten[i] = NameRead[i]
    BY <2>1, Fourteen, ReadAt, WrittenAt
  <2> QED
    BY <1>2, <2>2, ReadName
<1> QED
  BY <1>1, <1>2

\* The sequence of none, and of one.
LEMMA SetToSeqOne ==
  ASSUME NEW x
  PROVE  SetToSeq({}) = <<>> /\ SetToSeq({x}) = <<x>>
<1>1. SetToSeq({}) = <<>>
  <2>1. Cardinality({}) = 0
    BY FS_EmptySet
  <2>2. \A f \in [1 .. 0 -> {}] : f = <<>>
    OBVIOUS
  <2>3. <<>> \in [1 .. 0 -> {}] /\ IsInjective(<<>>)
    BY DEF IsInjective
  <2> QED
    BY <2>1, <2>2, <2>3 DEF SetToSeq
<1>2. SetToSeq({x}) = <<x>>
  <2>1. Cardinality({x}) = 1
    BY FS_Singleton
  <2>2. \A f \in [1 .. 1 -> {x}] : f = <<x>>
    OBVIOUS
  <2>3. <<x>> \in [1 .. 1 -> {x}] /\ IsInjective(<<x>>)
    BY DEF IsInjective
  <2> QED
    BY <2>1, <2>2, <2>3 DEF SetToSeq
<1> QED
  BY <1>1, <1>2

\* The text of none, and of one.
LEMMA FlattenOne ==
  ASSUME NEW t \in Seq(STRING)
  PROVE  FlattenSeq(<<>>) = <<>> /\ FlattenSeq(<<t>>) = t
<1> DEFINE e == <<>>
<1>1. e \in Seq(Seq(STRING)) /\ Len(e) = 0
  BY EmptySeq
<1>2. FlattenSeq(e) = e
  BY <1>1, BeyondEnds
<1>3. Cat(<<t>>, e) = <<t>>
  <2>1. <<t>> \in Seq(Seq(STRING))
    BY OneElement
  <2> QED
    BY <2>1, ConcatEmptySeq DEF Cat
<1>4. FlattenSeq(Cat(<<t>>, e)) = Cat(t, FlattenSeq(e))
  BY <1>1, FlattenCons
<1>5. Cat(t, e) = t
  BY TextEmpty
<1> QED
  BY <1>2, <1>3, <1>4, <1>5

\* What is written for a header that is there, and for one that is not.
LEMMA HeaderLinesIs ==
  ASSUME NEW m, NEW i \in 1 .. 14
  PROVE  /\ m.head[Order[i]] = {} => HeaderLines(m, i) = <<>>
         /\ \A v : m.head[Order[i]] = {v} /\ ValueToString(Order[i], v) \in Seq(STRING) =>
              HeaderLines(m, i) = Cat(<<NameWritten[i]>>, Cat(ValueToString(Order[i], v), CRLF))
<1> DEFINE F(v) == <<NameWritten[i]>> \o ValueToString(Order[i], v) \o CRLF
           S == {F(v) : v \in m.head[Order[i]]}
<1>1. HeaderLines(m, i) = FlattenSeq(SetToSeq(S))
  BY Zenon DEF HeaderLines
<1>2. ASSUME m.head[Order[i]] = {} PROVE HeaderLines(m, i) = <<>>
  <2>1. S = {}
    BY <1>2
  <2> HIDE DEF S
  <2>2. SetToSeq(S) = <<>>
    BY <2>1, SetToSeqOne
  <2>3. FlattenSeq(<<>>) = <<>>
    <3>1. CRLF \in Seq(STRING)
      BY LineEnd
    <3> QED
      BY <3>1, FlattenOne
  <2> QED
    BY <1>1, <2>2, <2>3
<1>3. ASSUME NEW v, m.head[Order[i]] = {v}, ValueToString(Order[i], v) \in Seq(STRING)
      PROVE  HeaderLines(m, i) = Cat(<<NameWritten[i]>>, Cat(ValueToString(Order[i], v), CRLF))
  <2> DEFINE V == ValueToString(Order[i], v)
             c == <<NameWritten[i]>>
             x == F(v)
  <2>1. S = {x}
    BY <1>3, Zenon
  <2>2. c \in Seq(STRING) /\ CRLF \in Seq(STRING) /\ V \in Seq(STRING)
    BY <1>3, LineEnd, WrittenIs, Token DEF LineNames, Tokens
  <2>3. x = Cat(Cat(c, V), CRLF)
    BY Zenon DEF Cat
  <2> HIDE DEF S, x, c, V
  <2>4. Cat(Cat(c, V), CRLF) = Cat(c, Cat(V, CRLF)) /\ Cat(c, V) \in Seq(STRING)
    BY <2>2, TextAssoc, TextCat
  <2>5. x \in Seq(STRING)
    BY <2>2, <2>3, <2>4, TextCat
  <2>6. SetToSeq(S) = <<x>>
    BY <2>1, SetToSeqOne
  <2>7. FlattenSeq(<<x>>) = x
    BY <2>5, FlattenOne
  <2> QED
    BY <1>1, <2>3, <2>4, <2>6, <2>7 DEF c, V
<1> QED
  BY <1>2, <1>3


-----------------------------------------------------------------------------
(* A message, header after header.                                         *)

\* What is read of a header line.
HeaderLine(i, v) ==
  [name |-> <<NameWritten[i]>>, text |-> RmColon(ValueToString(Order[i], v))]

\* A message with one more header.
WithHead(x, f, v) == [x EXCEPT !.head[f] = {Arrives(f, v)}]

\* What the parser makes of a header's line: nothing of an expiry and of what is there
\* already.
IsSet(x, i, v, ms) ==
  /\ Order[i] \in Expiries => ms = {}
  /\ Order[i] \notin Expiries /\ Already(x, Order[i]) => ms = {}
  /\ Order[i] \notin Expiries /\ ~Already(x, Order[i]) => ms = {WithHead(x, Order[i], v)}

\* A name of one token that is in no table is no header's and no end line.
LEMMA SetUnknown ==
  ASSUME NEW c \in STRING, c # "MSRP", HeaderAt(<<c>>) = 0, NEW x, Len(x.tid) \in Nat, NEW s
  PROVE  SetHeader(x, <<c>>, s) = {}
<1> DEFINE name == <<c>>
<1>1. Len(name) = 1
  BY OneElement
<1>2. name # <<"MSRP">>
  <2>1. name[1] # (<<"MSRP">>)[1]
    OBVIOUS
  <2> QED
    BY <2>1
<1>3. HeaderAt(name) = 0
  OBVIOUS
<1> HIDE DEF name
<1>4. ~IsEndLine(x, name)
  BY <1>1 DEF IsEndLine
<1>5. SetHeader(x, name, s) = {}
  <2> DEFINE at == HeaderAt(name)
             tid == MessWord(s)
  <2>1. at = 0
    BY <1>3
  <2>2. SetHeader(x, name, s) =
          CASE name = <<"MSRP">> ->
                 IF x.tid # <<>> THEN {}
                   ELSE {[x EXCEPT !.tid = tid.word, !.info = InfoPrase(tid.rest)]}
            [] at # 0 ->
                 IF Already(x, Order[at]) THEN {}
                   ELSE {[x EXCEPT !.head[Order[at]] = ValuePrase(Order[at], s)]}
            [] OTHER -> IF IsEndLine(x, name) THEN {x} ELSE {}
    BY Zenon DEF SetHeader
  <2> HIDE DEF at
  <2> QED
    BY <1>2, <1>4, <2>1, <2>2
<1> QED
  BY <1>5 DEF name

\* A name of the tables is that header's.
LEMMA SetKnown ==
  ASSUME NEW c \in STRING, c # "MSRP", NEW i \in 1 .. 14, HeaderAt(<<c>>) = i, NEW x, NEW s
  PROVE  /\ Already(x, Order[i]) => SetHeader(x, <<c>>, s) = {}
         /\ ~Already(x, Order[i]) =>
              SetHeader(x, <<c>>, s) = {[x EXCEPT !.head[Order[i]] = ValuePrase(Order[i], s)]}
<1> DEFINE name == <<c>>
<1>2. name # <<"MSRP">>
  <2>1. name[1] # (<<"MSRP">>)[1]
    OBVIOUS
  <2> QED
    BY <2>1
<1> DEFINE at == HeaderAt(name)
           tid == MessWord(s)
<1>3. at = i
  OBVIOUS
<1>4. at # 0
  BY <1>3
<1> HIDE DEF name
<1>5. SetHeader(x, name, s) =
          CASE name = <<"MSRP">> ->
                 IF x.tid # <<>> THEN {}
                   ELSE {[x EXCEPT !.tid = tid.word, !.info = InfoPrase(tid.rest)]}
            [] at # 0 ->
                 IF Already(x, Order[at]) THEN {}
                   ELSE {[x EXCEPT !.head[Order[at]] = ValuePrase(Order[at], s)]}
            [] OTHER -> IF IsEndLine(x, name) THEN {x} ELSE {}
  BY Zenon DEF SetHeader
<1> HIDE DEF at
<1>6. SetHeader(x, name, s) =
          IF Already(x, Order[at]) THEN {}
                   ELSE {[x EXCEPT !.head[Order[at]] = ValuePrase(Order[at], s)]}
  BY <1>2, <1>4, <1>5
<1>7. SetHeader(x, name, s) =
          IF Already(x, Order[i]) THEN {}
                   ELSE {[x EXCEPT !.head[Order[i]] = ValuePrase(Order[i], s)]}
  BY <1>3, <1>6, Zenon
<1>8. SetHeader(x, <<c>>, s) =
          IF Already(x, Order[i]) THEN {}
                   ELSE {[x EXCEPT !.head[Order[i]] = ValuePrase(Order[i], s)]}
  BY <1>7, Zenon DEF name
<1> QED
  BY <1>8, Zenon

\* The line of a header changes a message in this way.
LEMMA SetStep ==
  ASSUME NEW i \in 1 .. 14, NEW v \in HeaderValues(Order[i]), NEW x, Len(x.tid) \in Nat
  PROVE  IsSet(x, i, v, After({x}, HeaderLine(i, v)))
<1> DEFINE c == NameWritten[i]
           s == RmColon(ValueToString(Order[i], v))
           l == HeaderLine(i, v)
<1>1. After({x}, l) = SetHeader(x, l.name, l.text)
  BY DEF After
<1>2. l.name = <<c>> /\ l.text = s
  BY DEF HeaderLine
<1>3. After({x}, l) = SetHeader(x, <<c>>, s)
  BY <1>1, <1>2, Zenon
<1>4. c \in LineNames /\ c # "MSRP"
  BY WrittenIs, Zenon
<1>5. c \in STRING
  BY <1>4 DEF LineNames, Tokens
<1>6. IsHeader(Order[i], v)
  <2>1. Order[i] \in Fields
    BY OrderOnce, Zenon
  <2> QED
    BY <2>1, HeaderTrip, Zenon
<1>7. Order[i] \in Expiries \/ ValuePrase(Order[i], s) = {Arrives(Order[i], v)}
  BY <1>6, Zenon DEF IsHeader
<1>8. CASE Order[i] \in Expiries
  <2>1. HeaderAt(<<c>>) = 0
    BY <1>8, NameTrip, Zenon
  <2> HIDE DEF c, s
  <2>2. SetHeader(x, <<c>>, s) = {}
    BY <2>1, <1>4, <1>5, SetUnknown
  <2> HIDE DEF l
  <2> QED
    BY <1>8, <1>3, <2>2, Zenon DEF IsSet, l
<1>9. CASE Order[i] \notin Expiries
  <2>1. HeaderAt(<<c>>) = i
    BY <1>9, NameTrip, Zenon
  <2>2. ValuePrase(Order[i], s) = {Arrives(Order[i], v)}
    BY <1>7, <1>9
  <2> HIDE DEF c, s
  <2>3. /\ Already(x, Order[i]) => SetHeader(x, <<c>>, s) = {}
        /\ ~Already(x, Order[i]) =>
              SetHeader(x, <<c>>, s) = {[x EXCEPT !.head[Order[i]] = ValuePrase(Order[i], s)]}
    BY <2>1, <1>4, <1>5, SetKnown
  <2>4. ~Already(x, Order[i]) =>
              SetHeader(x, <<c>>, s) = {WithHead(x, Order[i], v)}
    BY <2>2, <2>3, Zenon DEF WithHead
  <2> HIDE DEF l
  <2> QED
    BY <1>9, <1>3, <2>3, <2>4, Zenon DEF IsSet, l
<1> QED
  BY <1>8, <1>9

\* A message that can be written: with one value for a header, or with none.
IsMess(m) ==
  /\ m = [tid |-> m.tid, info |-> m.info, head |-> m.head, contend |-> m.contend, flag |-> m.flag]
  /\ m.tid \in Ids /\ m.info \in Requests \cup Responses
  /\ m.contend \in Seq(STRING) /\ m.flag \in Flags
  /\ m.head = [f \in Fields |-> m.head[f]]
  /\ \A f \in Fields : m.head[f] = {} \/ \E v \in HeaderValues(f) : m.head[f] = {v}

\* The messages after the lines of a header, whatever it has.
AfterHeader(ms, m, i) ==
  IF m.head[Order[i]] = {} THEN ms
    ELSE UNION {After(ms, HeaderLine(i, v)) : v \in m.head[Order[i]]}

\* A header of one value, and a header of none.
LEMMA AfterHeaderIs ==
  ASSUME NEW ms, NEW m, NEW i
  PROVE  /\ m.head[Order[i]] = {} => AfterHeader(ms, m, i) = ms
         /\ \A v : m.head[Order[i]] = {v} => AfterHeader(ms, m, i) = After(ms, HeaderLine(i, v))
<1>1. ASSUME NEW v, m.head[Order[i]] = {v}
      PROVE  AfterHeader(ms, m, i) = After(ms, HeaderLine(i, v))
  <2> DEFINE A(w) == After(ms, HeaderLine(i, w))
  <2>1. AfterHeader(ms, m, i) = UNION {A(w) : w \in {v}}
    BY <1>1 DEF AfterHeader
  <2> HIDE DEF A
  <2>2. UNION {A(w) : w \in {v}} = A(v)
    OBVIOUS
  <2> QED
    BY <2>1, <2>2 DEF A
<1> QED
  BY <1>1 DEF AfterHeader

\* The lines of a header in front of a text: the parser takes them first.
IsHeaderText(m, i, T) ==
  LET s == Cat(HeaderLines(m, i), T)
  IN  /\ HeaderLines(m, i) \in Seq(STRING) /\ s \in Seq(STRING)
      /\ \A ms, tail : /\ Parsed(s, tail, ms) = Parsed(T, tail, AfterHeader(ms, m, i))
                       /\ Pending(s, tail).contend = Pending(T, tail).contend
      /\ m.head[Order[i]] = {} => s = T
      /\ m.head[Order[i]] # {} => Blank(s) = 0

\* A header has its one value, or none.
LEMMA HeadIs ==
  ASSUME NEW m, IsMess(m), NEW i \in 1 .. 14
  PROVE  m.head[Order[i]] = {} \/ \E v \in HeaderValues(Order[i]) : m.head[Order[i]] = {v}
<1>1. Order[i] \in Fields
  BY OrderOnce, Zenon
<1>2. \A f \in Fields : m.head[f] = {} \/ \E v \in HeaderValues(f) : m.head[f] = {v}
  BY Zenon DEF IsMess
<1> QED
  BY <1>1, <1>2, Zenon

\* They are one line, or nothing.
LEMMA HeaderText ==
  ASSUME NEW m, IsMess(m), NEW i \in 1 .. 14, NEW T \in Seq(STRING)
  PROVE  IsHeaderText(m, i, T)
<1> DEFINE s == Cat(HeaderLines(m, i), T)
<1>1. CASE m.head[Order[i]] = {}
  <2>1. HeaderLines(m, i) = <<>>
    BY <1>1, HeaderLinesIs, Zenon
  <2>2. <<>> \in Seq(STRING) /\ Cat(<<>>, T) = T
    BY TextEmpty
  <2>3. s = T /\ HeaderLines(m, i) \in Seq(STRING)
    BY <2>1, <2>2, Zenon
  <2>4. \A ms : AfterHeader(ms, m, i) = ms
    BY <1>1, AfterHeaderIs, Zenon
  <2>5. \A ms, tail : /\ Parsed(s, tail, ms) = Parsed(T, tail, AfterHeader(ms, m, i))
                      /\ Pending(s, tail).contend = Pending(T, tail).contend
    BY <2>3, <2>4, Zenon
  <2>6. s \in Seq(STRING)
    BY <2>3, Zenon
  <2> QED
    BY <1>1, <2>3, <2>5, <2>6, Zenon DEF IsHeaderText
<1>2. CASE m.head[Order[i]] # {}
  <2>1. PICK v \in HeaderValues(Order[i]) : m.head[Order[i]] = {v}
    BY <1>2, HeadIs, Zenon
  <2> DEFINE V == ValueToString(Order[i], v)
             c == NameWritten[i]
             l == HeaderLine(i, v)
  <2>2. IsHeader(Order[i], v)
    <3>1. Order[i] \in Fields
      BY OrderOnce, Zenon
    <3> QED
      BY <3>1, HeaderTrip, Zenon
  <2>3. IsBehindName(V)
    BY <2>2, Zenon DEF IsHeader, IsBehindName
  <2>4. V \in Seq(Tokens) /\ V \in Seq(STRING)
    BY <2>3, LinesAreTexts, Zenon DEF IsBehindName
  <2>5. c \in LineNames
    BY WrittenIs, Zenon
  <2>6. HeaderLines(m, i) = Cat(<<c>>, Cat(V, CRLF))
    BY <2>1, <2>4, HeaderLinesIs, Zenon
  <2>7. <<c>> \in Seq(STRING) /\ CRLF \in Seq(STRING)
    <3>1. c \in STRING
      BY <2>5 DEF LineNames, Tokens
    <3> QED
      BY <3>1, Token, LineEnd, Zenon
  <2>8. l = [name |-> <<c>>, text |-> RmColon(V)]
    BY DEF HeaderLine
  <2> HIDE DEF V, c, l
  <2>9. HeaderLines(m, i) \in Seq(STRING)
    BY <2>4, <2>6, <2>7, TextCat, Zenon
  <2>10. s = Line(c, V, T)
    <3> DEFINE x == Cat(V, CRLF)
    <3>1. x \in Seq(STRING)
      BY <2>4, <2>7, TextCat, Zenon
    <3>2. s = Cat(Cat(<<c>>, x), T)
      BY <2>6, Zenon
    <3>3. Cat(x, T) = Cat(V, Cat(CRLF, T))
      BY <2>4, <2>7, TextAssoc, Zenon
    <3> HIDE DEF x
    <3>4. s = Cat(<<c>>, Cat(x, T))
      BY <3>1, <3>2, <2>7, TextAssoc, Zenon
    <3> QED
      BY <3>3, <3>4, Zenon DEF Line
  <2> HIDE DEF s
  <2>11. ASSUME NEW ms, NEW tail
         PROVE  /\ Parsed(s, tail, ms) = Parsed(T, tail, After(ms, l))
                /\ Pending(s, tail).contend = Pending(T, tail).contend
                /\ s \in Seq(STRING) /\ Blank(s) = 0
    BY <2>3, <2>5, <2>8, <2>10, ParsedLine
  <2>12. s \in Seq(STRING) /\ Blank(s) = 0
    BY <2>11, Zenon
  <2>13. \A ms : AfterHeader(ms, m, i) = After(ms, l)
    <3>1. ASSUME NEW ms PROVE AfterHeader(ms, m, i) = After(ms, HeaderLine(i, v))
      <4>1. \A u : m.head[Order[i]] = {u} => AfterHeader(ms, m, i) = After(ms, HeaderLine(i, u))
        BY AfterHeaderIs
      <4> QED
        BY <2>1, <4>1
    <3> QED
      BY <3>1 DEF l
  <2>14. \A ms, tail : /\ Parsed(s, tail, ms) = Parsed(T, tail, AfterHeader(ms, m, i))
                       /\ Pending(s, tail).contend = Pending(T, tail).contend
    BY <2>11, <2>13, Zenon
  <2> QED
    BY <1>2, <2>9, <2>12, <2>14, Zenon DEF IsHeaderText, s
<1> QED
  BY <1>1, <1>2

\* A message as the parser has it.
IsRead(x) ==
  /\ x = [tid |-> x.tid, info |-> x.info, head |-> x.head, contend |-> x.contend, flag |-> x.flag]
  /\ x.head = [f \in Fields |-> x.head[f]] /\ Len(x.tid) \in Nat

\* With one more header it is one again, and has that header, too.
IsWithHead(y, x, f, v) ==
  /\ IsRead(y) /\ y.tid = x.tid /\ y.info = x.info /\ y.contend = x.contend /\ y.flag = x.flag
  /\ y.head = [g \in Fields |-> IF g = f THEN {Arrives(f, v)} ELSE x.head[g]]

\* One header is put in, and all else stays.
LEMMA WithHeadIs ==
  ASSUME NEW x, IsRead(x), NEW f \in Fields, NEW v
  PROVE  IsWithHead(WithHead(x, f, v), x, f, v)
<1> DEFINE A == {Arrives(f, v)}
           y == WithHead(x, f, v)
           H == [g \in Fields |-> IF g = f THEN A ELSE x.head[g]]
<1>1. y = [x EXCEPT !.head[f] = A]
  BY DEF WithHead
<1>2. [x.head EXCEPT ![f] = A] = H
  BY DEF IsRead
<1> HIDE DEF A, y, H
<1>3. y = [tid |-> x.tid, info |-> x.info, head |-> H, contend |-> x.contend, flag |-> x.flag]
  <2> DEFINE a == x.tid
             b == x.info
             c == x.head
             d == x.contend
             e == x.flag
             r == [tid |-> a, info |-> b, head |-> c, contend |-> d, flag |-> e]
  <2>1. x = r
    BY Zenon DEF IsRead
  <2>2. y = [r EXCEPT !.head[f] = A]
    BY <1>1, <2>1, Zenon
  <2>3. [c EXCEPT ![f] = A] = H
    BY <1>2, Zenon
  <2> HIDE DEF a, b, c, d, e
  <2>4. [r EXCEPT !.head[f] = A] =
          [tid |-> a, info |-> b, head |-> [c EXCEPT ![f] = A], contend |-> d, flag |-> e]
    OBVIOUS
  <2> QED
    BY <2>2, <2>3, <2>4, Zenon DEF a, b, c, d, e
<1>4. y.tid = x.tid /\ y.info = x.info /\ y.head = H /\ y.contend = x.contend /\ y.flag = x.flag
  BY <1>3
<1>5. H = [g \in Fields |-> H[g]]
  BY DEF H
<1>6. IsRead(y)
  BY <1>3, <1>4, <1>5, Zenon DEF IsRead
<1> QED
  BY <1>4, <1>6, Zenon DEF IsWithHead, y, H, A

\* What is written for the headers, and what of a message is behind the first k of
\* them.
HeaderTexts(m)      == [i \in DOMAIN Order |-> HeaderLines(m, i)]
BehindHeaders(m, k) == Cat(Beyond(HeaderTexts(m), k), EndOf(m.tid, m.contend, m.flag))

\* These texts.
LEMMA HeaderTextsAre ==
  ASSUME NEW m, IsMess(m)
  PROVE  /\ HeaderTexts(m) \in Seq(Seq(STRING)) /\ Len(HeaderTexts(m)) = 14
         /\ \A i \in 1 .. 14 : At(HeaderTexts(m), i) = HeaderLines(m, i)
<1> DEFINE ss == [i \in 1 .. 14 |-> HeaderLines(m, i)]
           S == Seq(STRING)
<1>1. HeaderTexts(m) = ss
  BY Fourteen, Zenon DEF HeaderTexts
<1>2. \A i \in 1 .. 14 : HeaderLines(m, i) \in S
  <2> TAKE i \in 1 .. 14
  <2>1. <<>> \in Seq(STRING)
    OBVIOUS
  <2>2. IsHeaderText(m, i, <<>>)
    BY <2>1, HeaderText
  <2> QED
    BY <2>2, Zenon DEF IsHeaderText
<1>3. 14 \in Nat
  OBVIOUS
<1> HIDE DEF S
<1>4. ss \in [1 .. 14 -> S]
  BY <1>2
<1>5. \A i \in 1 .. 14 : ss[i] = HeaderLines(m, i)
  OBVIOUS
<1> HIDE DEF ss
<1>6. ss \in Seq(S) /\ Len(ss) = 14
  BY <1>3, <1>4, SeqIs
<1> QED
  BY <1>1, <1>5, <1>6, Zenon DEF At, S

\* The end of a message behind its headers.
IsEnd(E, m, tail, ms) ==
  /\ E \in Seq(STRING) /\ Parsed(E, tail, ms) = ms /\ Pending(E, tail).contend = m.contend
  /\ \E Y \in Seq(STRING) : E = Cat(Y, EndText(m.tid, m.flag))

\* It gives the contents, and changes no header.
LEMMA EndOfMess ==
  ASSUME NEW m, IsMess(m), NEW tail, tail = Len(m.tid) + 5, NEW ms,
         \A x \in ms : x.tid = m.tid
  PROVE  IsEnd(EndOf(m.tid, m.contend, m.flag), m, tail, ms)
<1> DEFINE tid == m.tid
           c == m.contend
           flag == m.flag
           T == EndOf(tid, c, flag)
<1>1. m.tid \in Ids /\ m.contend \in Seq(STRING) /\ m.flag \in Flags
  BY Zenon DEF IsMess
<1>2. \A x \in ms : x.tid = tid
  OBVIOUS
<1>3. T = EndOf(tid, c, flag) /\ tail = Len(tid) + 5
  OBVIOUS
<1> HIDE DEF T, tid, c, flag
<1>4. tid \in Ids /\ c \in Seq(STRING) /\ flag \in Flags
  BY <1>1 DEF tid, c, flag
<1>5. T = EndOf(tid, c, flag)
  BY <1>3
<1>6. tail = Len(tid) + 5
  BY <1>3
<1>7. /\ T \in Seq(STRING) /\ Parsed(T, tail, ms) = ms /\ Pending(T, tail).contend = c
      /\ \E Y \in Seq(STRING) : T = Cat(Y, EndText(tid, flag))
  BY <1>2, <1>4, <1>5, <1>6, EndTrip
<1> QED
  BY <1>7, Zenon DEF IsEnd, T, tid, c, flag

\* It is a text.
LEMMA EndIsText ==
  ASSUME NEW m, IsMess(m)
  PROVE  EndOf(m.tid, m.contend, m.flag) \in Seq(STRING)
<1> DEFINE ms == {}
           tail == Len(m.tid) + 5
<1>1. \A x \in ms : x.tid = m.tid
  OBVIOUS
<1>2. tail = Len(m.tid) + 5
  OBVIOUS
<1> HIDE DEF ms, tail
<1>3. IsEnd(EndOf(m.tid, m.contend, m.flag), m, tail, ms)
  BY <1>1, <1>2, EndOfMess
<1> QED
  BY <1>3, Zenon DEF IsEnd

\* One header after the other.
LEMMA BehindStep ==
  ASSUME NEW m, IsMess(m), NEW h \in 0 .. 14, NEW i \in 1 .. 14, i = h + 1
  PROVE  /\ BehindHeaders(m, i) \in Seq(STRING)
         /\ BehindHeaders(m, h) = Cat(HeaderLines(m, i), BehindHeaders(m, i))
<1> DEFINE ss == HeaderTexts(m)
           E == EndOf(m.tid, m.contend, m.flag)
           S == STRING
<1>1. ss \in Seq(Seq(S)) /\ Len(ss) = 14 /\ At(ss, i) = HeaderLines(m, i)
  BY HeaderTextsAre
<1>2. E \in Seq(S)
  BY EndIsText
<1> HIDE DEF ss, E, S
<1>3. h \in 0 .. Len(ss) /\ i \in 1 .. Len(ss)
  BY <1>1
<1>4. /\ At(ss, i) \in Seq(S) /\ Beyond(ss, i) \in Seq(S)
      /\ Beyond(ss, h) = At(ss, i) \o Beyond(ss, i)
  BY <1>1, <1>3, BeyondStep
<1> DEFINE a == At(ss, i)
           b == Beyond(ss, i)
<1>5. Beyond(ss, h) = Cat(a, b)
  BY <1>4, Zenon DEF Cat
<1>9. a \in Seq(S) /\ b \in Seq(S)
  BY <1>4
<1>6. Cat(b, E) \in Seq(S) /\ Cat(Cat(a, b), E) = Cat(a, Cat(b, E))
  <2> HIDE DEF a, b
  <2> QED
    BY <1>9, <1>2, TextCat, TextAssoc, Zenon DEF S
<1>7. BehindHeaders(m, i) = Cat(b, E) /\ BehindHeaders(m, h) = Cat(Cat(a, b), E)
  BY <1>5, Zenon DEF BehindHeaders, ss, E
<1>8. a = HeaderLines(m, i)
  BY <1>1, Zenon
<1> HIDE DEF a, b
<1> QED
  BY <1>6, <1>7, <1>8, Zenon DEF S

\* All of them, and none.
LEMMA BehindEnds ==
  ASSUME NEW m, IsMess(m)
  PROVE  /\ BehindHeaders(m, 0) =
              Cat(FlattenSeq(HeaderTexts(m)), EndOf(m.tid, m.contend, m.flag))
         /\ FlattenSeq(HeaderTexts(m)) \in Seq(STRING)
         /\ BehindHeaders(m, 14) = EndOf(m.tid, m.contend, m.flag)
<1> DEFINE ss == HeaderTexts(m)
           E == EndOf(m.tid, m.contend, m.flag)
           S == STRING
<1>1. ss \in Seq(Seq(S)) /\ Len(ss) = 14
  BY HeaderTextsAre
<1>2. E \in Seq(S)
  BY EndIsText
<1> HIDE DEF ss, E, S
<1>3. Beyond(ss, 0) = FlattenSeq(ss) /\ Beyond(ss, 14) = <<>>
  <2>1. Beyond(ss, 0) = FlattenSeq(ss) /\ Beyond(ss, Len(ss)) = <<>>
    BY <1>1, BeyondEnds
  <2> QED
    BY <2>1, <1>1, Zenon
<1>4. FlattenSeq(ss) \in Seq(S)
  BY <1>1, FlattenType
<1>5. Cat(<<>>, E) = E
  BY <1>2, TextEmpty, Zenon DEF S
<1> QED
  BY <1>3, <1>4, <1>5, Zenon DEF BehindHeaders, ss, E, S

\* f is one of the first k headers.
KnownBy(k, f) == \E j \in 1 .. k : Order[j] = f

\* What arrives of a header.
Arriven(m, f) == {Arrives(f, v) : v \in m.head[f]}

\* What has arrived of a message by its first k headers; none of one that is refused.
HeadAfter(m, k) == [f \in Fields |-> IF KnownBy(k, f) THEN Arriven(m, f) ELSE {}]
MessAfter(m, k) ==
  [tid |-> m.tid, info |-> m.info, head |-> HeadAfter(m, k), contend |-> <<>>, flag |-> m.flag]
RefusedBy(m, k) ==
  \/ \E j \in 1 .. k : Order[j] \in Expiries /\ m.head[Order[j]] # {}
  \/ k >= 13 /\ m.head["www"] # {} /\ m.head["auth"] # {}
Kept(m, k) == IF RefusedBy(m, k) THEN {} ELSE {MessAfter(m, k)}

\* One more header is known.
LEMMA KnownStep ==
  ASSUME NEW h \in 0 .. 14, NEW i \in 1 .. 14, i = h + 1
  PROVE  /\ \A f : KnownBy(i, f) <=> KnownBy(h, f) \/ f = Order[i]
         /\ ~KnownBy(h, Order[i])
         /\ i >= 13 => KnownBy(h, "www")
         /\ Order[i] = "auth" <=> i = 13
<1>1. ASSUME NEW f PROVE KnownBy(i, f) <=> KnownBy(h, f) \/ f = Order[i]
  <2>1. \A j : j \in 1 .. i <=> j \in 1 .. h \/ j = i
    OBVIOUS
  <2> QED
    BY <2>1, Zenon DEF KnownBy
<1>2. ~KnownBy(h, Order[i])
  <2> SUFFICES ASSUME NEW j \in 1 .. h, Order[j] = Order[i] PROVE FALSE
    BY Zenon DEF KnownBy
  <2>1. j \in 1 .. 14 /\ j # i
    OBVIOUS
  <2> QED
    BY <2>1, OrderOnce, Zenon
<1>3. ASSUME i >= 13 PROVE KnownBy(h, "www")
  <2>1. 12 \in 1 .. h
    BY <1>3
  <2> QED
    BY <2>1, OrderAt, Zenon DEF KnownBy
<1>4. Order[i] = "auth" <=> i = 13
  <2>1. 13 \in 1 .. 14
    OBVIOUS
  <2>2. Order[13] = "auth"
    BY OrderAt, Zenon
  <2> QED
    BY <2>1, <2>2, OrderOnce, Zenon
<1> QED
  BY <1>1, <1>2, <1>3, <1>4

\* What has arrived is a message as the parser has it.
LEMMA MessAfterIs ==
  ASSUME NEW m, IsMess(m), NEW k
  PROVE  /\ IsRead(MessAfter(m, k)) /\ MessAfter(m, k).tid = m.tid
         /\ MessAfter(m, k).head = HeadAfter(m, k)
<1> DEFINE H == HeadAfter(m, k)
           x == MessAfter(m, k)
<1>1. /\ x.tid = m.tid /\ x.info = m.info /\ x.head = H /\ x.contend = <<>> /\ x.flag = m.flag
      /\ x = [tid |-> x.tid, info |-> x.info, head |-> x.head, contend |-> x.contend,
              flag |-> x.flag]
  <2> HIDE DEF H
  <2>1. x = [tid |-> m.tid, info |-> m.info, head |-> H, contend |-> <<>>, flag |-> m.flag]
    BY Zenon DEF MessAfter, H
  <2> HIDE DEF x
  <2> QED
    BY <2>1
<1>2. H = [f \in Fields |-> H[f]]
  BY DEF HeadAfter
<1>3. Len(m.tid) \in Nat
  <2>1. m.tid \in Ids
    BY Zenon DEF IsMess
  <2>2. m.tid \in Seq(STRING)
    BY <2>1, WordsAreTexts, Zenon DEF Ids
  <2> QED
    BY <2>2
<1> HIDE DEF H, x
<1> QED
  BY <1>1, <1>2, <1>3, Zenon DEF IsRead, x, H

\* A header stands there already when it is an Authorization and a challenge does.
LEMMA AlreadyIs ==
  ASSUME NEW m, IsMess(m), NEW h \in 0 .. 14, NEW i \in 1 .. 14, i = h + 1
  PROVE  Already(MessAfter(m, h), Order[i]) <=> i = 13 /\ m.head["www"] # {}
<1> DEFINE x == MessAfter(m, h)
           H == HeadAfter(m, h)
<1>1. x.head = H
  BY MessAfterIs
<1>2. Order[i] \in Fields /\ "www" \in Fields
  BY OrderOnce DEF Fields
<1>3. CASE i = 13
  <2>1. Order[i] = "auth"
    BY <1>3, KnownStep
  <2>2. Already(x, Order[i]) <=> x.head["www"] # {}
    BY <2>1 DEF Already
  <2>3. KnownBy(h, "www")
    BY <1>3, KnownStep
  <2>4. H["www"] = Arriven(m, "www")
    BY <1>2, <2>3 DEF HeadAfter
  <2>5. Arriven(m, "www") # {} <=> m.head["www"] # {}
    BY DEF Arriven
  <2> HIDE DEF x, H
  <2> QED
    BY <1>1, <1>3, <2>2, <2>4, <2>5, Zenon DEF x
<1>4. CASE i # 13
  <2>1. Order[i] # "auth"
    BY <1>4, KnownStep
  <2>2. Already(x, Order[i]) <=> x.head[Order[i]] # {}
    BY <2>1 DEF Already
  <2>3. ~KnownBy(h, Order[i])
    BY KnownStep
  <2>4. H[Order[i]] = {}
    BY <1>2, <2>3 DEF HeadAfter
  <2> HIDE DEF x, H
  <2> QED
    BY <1>1, <1>4, <2>2, <2>4, Zenon DEF x
<1> QED
  BY <1>3, <1>4

\* Nothing comes of no message.
LEMMA AfterNone == \A l : After({}, l) = {}
<1> TAKE l
<1> DEFINE A(x) == SetHeader(x, l.name, l.text)
<1>1. After({}, l) = UNION {A(x) : x \in {}}
  BY DEF After
<1> HIDE DEF A
<1> QED
  BY <1>1

\* With a header that is not there nothing changes.
LEMMA KeptSame ==
  ASSUME NEW m, IsMess(m), NEW h \in 0 .. 14, NEW i \in 1 .. 14, i = h + 1,
         m.head[Order[i]] = {}
  PROVE  Kept(m, h) = Kept(m, i)
<1>1. HeadAfter(m, h) = HeadAfter(m, i)
  <2>1. \A f \in Fields : (IF KnownBy(h, f) THEN Arriven(m, f) ELSE {})
                            = (IF KnownBy(i, f) THEN Arriven(m, f) ELSE {})
    <3> TAKE f \in Fields
    <3>1. KnownBy(i, f) <=> KnownBy(h, f) \/ f = Order[i]
      BY KnownStep
    <3>2. f = Order[i] => Arriven(m, f) = {}
      BY DEF Arriven
    <3> QED
      BY <3>1, <3>2, Zenon
  <2> QED
    BY <2>1 DEF HeadAfter
<1>2. MessAfter(m, h) = MessAfter(m, i)
  BY <1>1, Zenon DEF MessAfter
<1>3. RefusedBy(m, h) <=> RefusedBy(m, i)
  <2>1. \A j : j \in 1 .. i <=> j \in 1 .. h \/ j = i
    OBVIOUS
  <2>2. h >= 13 => i >= 13
    OBVIOUS
  <2>3. i >= 13 => h >= 13 \/ i = 13
    OBVIOUS
  <2>4. i = 13 => m.head["auth"] = {}
    BY KnownStep
  <2> QED
    BY <2>1, <2>2, <2>3, <2>4, Zenon DEF RefusedBy
<1> QED
  BY <1>2, <1>3, Zenon DEF Kept

\* With one that is there, the message has it, too, or is refused.
LEMMA KeptMore ==
  ASSUME NEW m, IsMess(m), NEW h \in 0 .. 14, NEW i \in 1 .. 14, i = h + 1,
         NEW v \in HeaderValues(Order[i]), m.head[Order[i]] = {v}
  PROVE  After(Kept(m, h), HeaderLine(i, v)) = Kept(m, i)
<1> DEFINE f == Order[i]
           x == MessAfter(m, h)
           l == HeaderLine(i, v)
<1>1. RefusedBy(m, i) <=>
        \/ RefusedBy(m, h)
        \/ f \in Expiries
        \/ i = 13 /\ m.head["www"] # {}
  <2>1. \A j : j \in 1 .. i <=> j \in 1 .. h \/ j = i
    OBVIOUS
  <2>2. i >= 13 <=> h >= 13 \/ i = 13
    OBVIOUS
  <2>3. i = 13 => m.head["auth"] # {}
    BY KnownStep
  <2>4. m.head[Order[i]] # {}
    OBVIOUS
  <2> QED
    BY <2>1, <2>2, <2>3, <2>4, Zenon DEF RefusedBy
<1>2. CASE RefusedBy(m, h)
  <2>1. Kept(m, h) = {} /\ Kept(m, i) = {}
    BY <1>1, <1>2, Zenon DEF Kept
  <2> QED
    BY <2>1, AfterNone, Zenon
<1>3. CASE ~RefusedBy(m, h)
  <2>1. Kept(m, h) = {x}
    BY <1>3, Zenon DEF Kept
  <2>2. IsRead(x) /\ x.head = HeadAfter(m, h) /\ x.tid = m.tid
    BY MessAfterIs
  <2>3. Len(x.tid) \in Nat
    BY <2>2, Zenon DEF IsRead
  <2>4. IsSet(x, i, v, After({x}, l))
    <3> HIDE DEF x
    <3> QED
      BY <2>3, SetStep
  <2>5. Already(x, f) <=> i = 13 /\ m.head["www"] # {}
    BY AlreadyIs
  <2>6. CASE f \in Expiries \/ (i = 13 /\ m.head["www"] # {})
    <3>1. After({x}, l) = {}
      BY <2>4, <2>5, <2>6, Zenon DEF IsSet
    <3>2. Kept(m, i) = {}
      BY <1>1, <2>6, Zenon DEF Kept
    <3> QED
      BY <2>1, <3>1, <3>2, Zenon
  <2>7. CASE ~(f \in Expiries \/ (i = 13 /\ m.head["www"] # {}))
    <3>1. After({x}, l) = {WithHead(x, f, v)}
      BY <2>4, <2>5, <2>7, Zenon DEF IsSet
    <3>2. Kept(m, i) = {MessAfter(m, i)}
      BY <1>1, <1>3, <2>7, Zenon DEF Kept
    <3>3. WithHead(x, f, v) = MessAfter(m, i)
      <4> DEFINE y == WithHead(x, f, v)
                 A == {Arrives(f, v)}
                 G == [g \in Fields |-> IF g = f THEN A ELSE x.head[g]]
                 H == HeadAfter(m, h)
      <4>1. f \in Fields
        BY OrderOnce, Zenon
      <4>2. IsWithHead(y, x, f, v)
        <5> HIDE DEF x, f
        <5> QED
          BY <2>2, <4>1, WithHeadIs
      <4>3. G = HeadAfter(m, i)
        <5>1. \A g \in Fields : (IF g = f THEN A ELSE x.head[g])
                                  = (IF KnownBy(i, g) THEN Arriven(m, g) ELSE {})
          <6> TAKE g \in Fields
          <6>1. x.head[g] = IF KnownBy(h, g) THEN Arriven(m, g) ELSE {}
            <7>1. H[g] = IF KnownBy(h, g) THEN Arriven(m, g) ELSE {}
              BY DEF HeadAfter
            <7> QED
              BY <2>2, <7>1, Zenon
          <6>2. KnownBy(i, g) <=> KnownBy(h, g) \/ g = f
            BY KnownStep
          <6>3. Arriven(m, f) = A
            <7>1. Arriven(m, f) = {Arrives(f, w) : w \in {v}}
              BY Zenon DEF Arriven
            <7> HIDE DEF f
            <7> QED
              BY <7>1
          <6> HIDE DEF x, f, A
          <6> QED
            BY <6>1, <6>2, <6>3, Zenon
        <5> HIDE DEF x, f, A
        <5> QED
          BY <5>1, Zenon DEF HeadAfter
      <4>4. y.head = G
        BY <4>2, Zenon DEF IsWithHead
      <4>5. /\ y.tid = x.tid /\ y.info = x.info /\ y.contend = x.contend /\ y.flag = x.flag
            /\ y = [tid |-> y.tid, info |-> y.info, head |-> y.head, contend |-> y.contend,
                    flag |-> y.flag]
        BY <4>2, Zenon DEF IsWithHead, IsRead
      <4>6. x.tid = m.tid /\ x.info = m.info /\ x.contend = <<>> /\ x.flag = m.flag
        <5>1. x = [tid |-> m.tid, info |-> m.info, head |-> H, contend |-> <<>>, flag |-> m.flag]
          BY Zenon DEF MessAfter
        <5> HIDE DEF x, H
        <5> QED
          BY <5>1
      <4> HIDE DEF y, x, G, f
      <4>7. y = [tid |-> m.tid, info |-> m.info, head |-> HeadAfter(m, i), contend |-> <<>>,
                 flag |-> m.flag]
        BY <4>3, <4>4, <4>5, <4>6, Zenon
      <4> QED
        BY <4>7, Zenon DEF MessAfter, y
    <3> QED
      BY <2>1, <3>1, <3>2, <3>3, Zenon
  <2> QED
    BY <2>6, <2>7
<1> QED
  BY <1>2, <1>3

\* So the messages after a header are those that are kept by it.
LEMMA KeptStep ==
  ASSUME NEW m, IsMess(m), NEW h \in 0 .. 14, NEW i \in 1 .. 14, i = h + 1
  PROVE  AfterHeader(Kept(m, h), m, i) = Kept(m, i)
<1>1. CASE m.head[Order[i]] = {}
  <2>1. AfterHeader(Kept(m, h), m, i) = Kept(m, h)
    BY <1>1, AfterHeaderIs
  <2>2. Kept(m, h) = Kept(m, i)
    BY <1>1, KeptSame
  <2> QED
    BY <2>1, <2>2
<1>2. ASSUME NEW v \in HeaderValues(Order[i]), m.head[Order[i]] = {v}
      PROVE  AfterHeader(Kept(m, h), m, i) = Kept(m, i)
  <2> DEFINE K == Kept(m, h)
  <2>1. AfterHeader(K, m, i) = After(K, HeaderLine(i, v))
    <3> HIDE DEF K
    <3>1. \A u : m.head[Order[i]] = {u} => AfterHeader(K, m, i) = After(K, HeaderLine(i, u))
      BY AfterHeaderIs
    <3> QED
      BY <1>2, <3>1, Zenon
  <2>2. After(K, HeaderLine(i, v)) = Kept(m, i)
    BY <1>2, KeptMore
  <2> QED
    BY <2>1, <2>2
<1> QED
  BY <1>1, <1>2, HeadIs, Zenon

\* What the parser makes of the headers and the end of a message: what is kept by all
\* of them, and the contents.
LEMMA HeadersTrip ==
  ASSUME NEW m, IsMess(m), NEW tail, tail = Len(m.tid) + 5
  PROVE  /\ Parsed(BehindHeaders(m, 0), tail, Kept(m, 0)) = Kept(m, 14)
         /\ Pending(BehindHeaders(m, 0), tail).contend = m.contend
         /\ BehindHeaders(m, 0) \in Seq(STRING)
         /\ \E Y \in Seq(STRING) : BehindHeaders(m, 0) = Cat(Y, EndText(m.tid, m.flag))
<1> DEFINE P(k) == Parsed(BehindHeaders(m, k), tail, Kept(m, k))
           C(k) == Pending(BehindHeaders(m, k), tail).contend
           T == {k \in 0 .. 14 : P(k) = P(0) /\ C(k) = C(0)}
<1>1. 0 \in T
  OBVIOUS
<1>2. ASSUME NEW h \in 0 .. 14, NEW i \in 1 .. 14, i = h + 1, h \in T PROVE i \in T
  <2> DEFINE s == BehindHeaders(m, h)
             t == BehindHeaders(m, i)
  <2>1. t \in Seq(STRING) /\ s = Cat(HeaderLines(m, i), t)
    BY <1>2, BehindStep
  <2>2. IsHeaderText(m, i, t)
    <3> HIDE DEF t
    <3> QED
      BY <2>1, HeaderText
  <2>3. /\ Parsed(s, tail, Kept(m, h)) = Parsed(t, tail, AfterHeader(Kept(m, h), m, i))
        /\ Pending(s, tail).contend = Pending(t, tail).contend
    BY <2>1, <2>2, Zenon DEF IsHeaderText
  <2>4. AfterHeader(Kept(m, h), m, i) = Kept(m, i)
    BY <1>2, KeptStep
  <2>5. P(h) = P(i) /\ C(h) = C(i)
    BY <2>3, <2>4, Zenon
  <2>6. P(h) = P(0) /\ C(h) = C(0)
    BY <1>2
  <2>7. i \in 0 .. 14
    OBVIOUS
  <2> HIDE DEF P, C
  <2> QED
    BY <2>5, <2>6, <2>7
<1>3. 14 \in T
  <2> HIDE DEF T
  <2>1. 14 \in Nat /\ 14 \in 0 .. 14
    OBVIOUS
  <2>2. \A k \in 0 .. 14 : k \in T
    BY <1>1, <1>2, <2>1, Upwards
  <2> QED
    BY <2>1, <2>2, Zenon
<1>4. P(14) = P(0) /\ C(14) = C(0)
  <2> HIDE DEF P, C
  <2> QED
    BY <1>3
<1>5. BehindHeaders(m, 14) = EndOf(m.tid, m.contend, m.flag)
  BY BehindEnds
<1> DEFINE ms == Kept(m, 14)
           tid == m.tid
           c == m.contend
           flag == m.flag
           E == EndOf(tid, c, flag)
<1>6. \A u \in ms : u.tid = tid
  <2>1. ms = {} \/ ms = {MessAfter(m, 14)}
    BY Zenon DEF Kept
  <2>2. MessAfter(m, 14).tid = tid
    BY MessAfterIs
  <2> QED
    BY <2>1, <2>2, Zenon
<1>7. tid \in Ids /\ c \in Seq(STRING) /\ flag \in Flags
  BY Zenon DEF IsMess
<1>8. /\ E \in Seq(STRING) /\ Parsed(E, tail, ms) = ms /\ Pending(E, tail).contend = c
      /\ \E Y \in Seq(STRING) : E = Cat(Y, EndText(tid, flag))
  <2>1. \A x \in ms : x.tid = m.tid
    BY <1>6
  <2> HIDE DEF ms
  <2>2. IsEnd(EndOf(m.tid, m.contend, m.flag), m, tail, ms)
    BY <2>1, EndOfMess
  <2> QED
    BY <2>2, Zenon DEF IsEnd
<1>9. P(14) = ms /\ C(14) = c
  BY <1>5, <1>8, Zenon
<1>10. BehindHeaders(m, 0) = Cat(FlattenSeq(HeaderTexts(m)), E)
       /\ FlattenSeq(HeaderTexts(m)) \in Seq(STRING)
  BY BehindEnds
<1>11. PICK Y \in Seq(STRING) : E = Cat(Y, EndText(tid, flag))
  BY <1>8
<1>12. EndText(tid, flag) \in Seq(STRING)
  <2>1. EndText(tid, flag) = Cat(EndWord(tid, flag), CRLF)
    BY <1>7, EndWordIs
  <2>2. IsEndWord(EndWord(tid, flag), tid, flag)
    BY <1>7, EndWordIs
  <2>3. EndWord(tid, flag) \in Seq(STRING)
    BY <2>2, Zenon DEF IsEndWord
  <2> QED
    BY <2>1, <2>3, LineEnd, TextCat, Zenon
<1>13. BehindHeaders(m, 0) \in Seq(STRING)
       /\ \E Z \in Seq(STRING) : BehindHeaders(m, 0) = Cat(Z, EndText(tid, flag))
  <2> DEFINE F == FlattenSeq(HeaderTexts(m))
             e == EndText(tid, flag)
             Z == Cat(F, Y)
  <2>1. F \in Seq(STRING) /\ e \in Seq(STRING) /\ E \in Seq(STRING)
    BY <1>8, <1>10, <1>12
  <2> HIDE DEF F, e, E
  <2>2. Z \in Seq(STRING) /\ Cat(Z, e) = Cat(F, Cat(Y, e)) /\ Cat(F, E) \in Seq(STRING)
    <3>1. Z \in Seq(STRING) /\ Cat(F, E) \in Seq(STRING)
      BY <2>1, TextCat, Zenon
    <3>2. F \in Seq(STRING)
      BY <2>1
    <3>3. e \in Seq(STRING)
      BY <2>1
    <3>4. Cat(Cat(F, Y), e) = Cat(F, Cat(Y, e))
      BY <3>2, <3>3, TextAssoc, Zenon
    <3> QED
      BY <3>1, <3>4
  <2> HIDE DEF Z
  <2> QED
    BY <1>10, <1>11, <2>2, Zenon DEF F, e, E
<1> HIDE DEF P, C, ms, T
<1> QED
  BY <1>4, <1>9, <1>13, Zenon DEF P, C, ms

-----------------------------------------------------------------------------
(* The whole message.                                                      *)

\* The first line behind its name.
FirstText(m) == Cat(m.tid, Cat(<<" ">>, InfoToString(m.info)))

\* It is an id and what the parser makes of the rest.
LEMMA FirstTextIs ==
  ASSUME NEW m, IsMess(m)
  PROVE  IsFirst(FirstText(m), m.tid, m.info)
<1> DEFINE tid == m.tid
           info == m.info
           x == FirstText(m)
<1>1. tid \in Ids /\ info \in Requests \cup Responses
  BY Zenon DEF IsMess
<1>2. tid \in WordsWithout({" ", ":"})
  <2> DEFINE C == {" ", ":"}
             D == {" ", ":", Quote, Dashes}
  <2>1. C \subseteq D \cup {CR, LF}
    OBVIOUS
  <2>2. tid \in WordsWithout(D)
    BY <1>1 DEF Ids
  <2> HIDE DEF C, D, tid
  <2>3. tid \in WordsWithout(C)
    BY <2>1, <2>2, WordsFewer
  <2> QED
    BY <2>3 DEF C
<1>3. x = Cat(tid, Cat(<<" ">>, InfoToString(info)))
  BY Zenon DEF FirstText
<1> HIDE DEF tid, info, x
<1>4. IsFirst(x, tid, info)
  BY <1>1, <1>2, <1>3, FirstIs
<1> QED
  BY <1>4 DEF tid, info, x

\* The name of the first line.
LEMMA FirstName == "MSRP" \in LineNames /\ "MSRP" \in STRING /\ " " \in STRING /\ " " \in Tokens
<1>1. "MSRP" \in Written
  BY DEF Written
<1>2. "MSRP" \in STRING
  BY <1>1, WrittenAssumption
<1>3. "MSRP" \notin {CR, LF, " ", ":", Dashes}
  BY DEF CR, LF, Dashes
<1>4. " " \in Marks \ {CR, LF}
  BY DEF Marks, CR, LF
<1>5. " " \in Tokens
  BY <1>4, MarkTokens
<1>6. " " \in STRING
  BY <1>5 DEF Tokens
<1> QED
  BY <1>2, <1>3, <1>5, <1>6 DEF LineNames, Tokens

\* The first line is a line like the others.
IsFirstLine(m, V) ==
  /\ IsBehindName(V) /\ RmColon(V) = FirstText(m) /\ FirstLine(m) \in Seq(STRING)
  /\ \A T \in Seq(STRING) : Cat(FirstLine(m), T) = Line("MSRP", V, T)
\* The first line that is written is one.
LEMMA FirstLineIs ==
  ASSUME NEW m, IsMess(m)
  PROVE  \E V : IsFirstLine(m, V)
<1> DEFINE x == FirstText(m)
           tid == m.tid
           w == InfoToString(m.info)
           b == <<" ">>
           c == <<"MSRP">>
           V == Cat(b, x)
<1>1. x \in Seq(Tokens) /\ RmColon(Cat(b, x)) = x
  BY FirstTextIs, Zenon DEF IsFirst
<1>2. tid \in Seq(STRING)
  <2>1. tid \in Ids
    BY Zenon DEF IsMess
  <2> QED
    BY <2>1, WordsAreTexts, Zenon DEF Ids
<1>3. w \in Seq(STRING)
  <2>1. m.info \in Requests \cup Responses
    BY Zenon DEF IsMess
  <2> QED
    BY <2>1, InfoTrip, LinesAreTexts, Zenon
<1>4. b \in Seq(Tokens) /\ b \in Seq(STRING) /\ b # <<>> /\ b[1] = " " /\ c \in Seq(STRING)
  <2>1. b \in Seq(Tokens) /\ b[1] = " "
    BY FirstName, OneElement
  <2>2. c \in Seq(STRING) /\ b # <<>>
    BY FirstName, OneElement
  <2> QED
    BY <2>1, <2>2, LinesAreTexts, Zenon
<1>5. V \in Seq(Tokens) /\ V # <<>> /\ V[1] = " "
  <2>1. Starts(b, {" "})
    BY <1>4 DEF Starts
  <2>2. b = <<>> => Starts(x, {" "})
    BY <1>4
  <2> HIDE DEF b, x
  <2> QED
    BY <1>1, <1>4, <2>1, <2>2, StartsCat
<1>6. IsBehindName(V)
  BY <1>5 DEF IsBehindName, Starts
<1>7. FirstLine(m) = Cat(c, Cat(V, CRLF)) /\ FirstLine(m) \in Seq(STRING)
  <2>1. <<"MSRP", " ">> = Cat(c, b)
    <3>1. <<"MSRP", " ">> = Cat(<<"MSRP">>, <<" ">>)
      BY FirstName, PairCat
    <3> QED
      BY <3>1
  <2>2. FirstLine(m) = Cat(Cat(Cat(Cat(Cat(c, b), tid), b), w), CRLF)
    <3>1. FirstLine(m) = <<"MSRP", " ">> \o tid \o b \o w \o CRLF
      BY Zenon DEF FirstLine
    <3> QED
      BY <2>1, <3>1, Zenon DEF Cat
  <2>3. V = Cat(b, Cat(tid, Cat(b, w)))
    BY Zenon DEF FirstText
  <2>4. CRLF \in Seq(STRING)
    BY LineEnd
  <2> DEFINE y == Cat(tid, Cat(b, w))
             z == Cat(y, CRLF)
  <2> HIDE DEF b, c, w, tid, V
  <2>5. Cat(Cat(Cat(Cat(Cat(c, b), tid), b), w), CRLF) =
          Cat(c, Cat(b, Cat(tid, Cat(b, Cat(w, CRLF)))))
        /\ Cat(Cat(Cat(Cat(Cat(c, b), tid), b), w), CRLF) \in Seq(STRING)
    <3> DEFINE S == STRING
    <3>1. b \in Seq(S) /\ c \in Seq(S)
      BY <1>4
    <3>2. tid \in Seq(S) /\ w \in Seq(S) /\ CRLF \in Seq(S)
      BY <1>2, <1>3, <2>4
    <3> HIDE DEF S
    <3>3. Cat(Cat(Cat(Cat(Cat(c, b), tid), b), w), CRLF) =
            Cat(c, Cat(b, Cat(tid, Cat(b, Cat(w, CRLF)))))
          /\ Cat(Cat(Cat(Cat(Cat(c, b), tid), b), w), CRLF) \in Seq(S)
      BY <3>1, <3>2, BracketsSix
    <3> QED
      BY <3>3 DEF S
  <2>6. Cat(b, w) \in Seq(STRING)
    BY <1>3, <1>4, TextCat, Zenon
  <2>7. y \in Seq(STRING)
    BY <1>2, <2>6, TextCat, Zenon
  <2>8. Cat(Cat(b, y), CRLF) = Cat(b, Cat(y, CRLF))
    <3> HIDE DEF y
    <3> QED
      BY <1>4, <2>4, <2>7, TextAssoc, Zenon
  <2>9. Cat(y, CRLF) = Cat(tid, Cat(Cat(b, w), CRLF))
    BY <1>2, <2>4, <2>6, TextAssoc, Zenon
  <2>10. Cat(Cat(b, w), CRLF) = Cat(b, Cat(w, CRLF))
    BY <1>3, <1>4, <2>4, TextAssoc, Zenon
  <2>11. Cat(V, CRLF) = Cat(b, Cat(tid, Cat(b, Cat(w, CRLF))))
    BY <2>3, <2>8, <2>9, <2>10, Zenon
  <2> QED
    BY <2>2, <2>5, <2>11, Zenon
<1>8. ASSUME NEW T \in Seq(STRING) PROVE Cat(FirstLine(m), T) = Line("MSRP", V, T)
  <2>1. V \in Seq(STRING) /\ CRLF \in Seq(STRING)
    BY <1>5, LinesAreTexts, LineEnd, Zenon
  <2> HIDE DEF V, c
  <2>2. Cat(V, CRLF) \in Seq(STRING)
    BY <2>1, TextCat, Zenon
  <2>3. Cat(Cat(V, CRLF), T) = Cat(V, Cat(CRLF, T))
    BY <2>1, TextAssoc, Zenon
  <2>4. Cat(Cat(c, Cat(V, CRLF)), T) = Cat(c, Cat(Cat(V, CRLF), T))
    BY <1>4, <2>2, TextAssoc, Zenon
  <2>5. Cat(FirstLine(m), T) = Cat(c, Cat(V, Cat(CRLF, T)))
    BY <1>7, <2>3, <2>4, Zenon
  <2> QED
    BY <2>5, Zenon DEF Line, c
<1> HIDE DEF V
<1>9. RmColon(V) = FirstText(m)
  BY <1>1 DEF V
<1>10. IsFirstLine(m, V)
  BY <1>6, <1>7, <1>8, <1>9, Zenon DEF IsFirstLine
<1> QED
  BY <1>10

\* The message after its first line, with the flag of the end line.
MessStart(m, flag) ==
  [tid |-> m.tid, info |-> m.info, head |-> [f \in Fields |-> {}], contend |-> <<>>,
   flag |-> flag]

\* It is what the parser makes of it.
LEMMA SetFirst ==
  ASSUME NEW m, IsMess(m), NEW flag, NEW l, l = [name |-> <<"MSRP">>, text |-> FirstText(m)]
  PROVE  After({[NoMess EXCEPT !.flag = flag]}, l) = {MessStart(m, flag)}
<1> DEFINE s == FirstText(m)
           name == <<"MSRP">>
           info == [method |-> <<>>, code |-> 0, reason |-> <<>>]
           head == [f \in ToSet(Order) |-> {}]
           x == [tid |-> <<>>, info |-> info, head |-> head, contend |-> <<>>, flag |-> flag]
<1>1. [NoMess EXCEPT !.flag = flag] = x
  <2> HIDE DEF info, head
  <2>1. NoMess = [tid |-> <<>>, info |-> info, head |-> head, contend |-> <<>>, flag |-> "$"]
    BY Zenon DEF NoMess, info, head
  <2> QED
    BY <2>1
<1>2. After({x}, l) = SetHeader(x, name, s)
  <2>1. l.name = name /\ l.text = s
    OBVIOUS
  <2>2. After({x}, l) = SetHeader(x, l.name, l.text)
    <3> HIDE DEF x
    <3> QED
      BY DEF After
  <2> QED
    BY <2>1, <2>2, Zenon
<1>3. MessWord(s).word = m.tid /\ InfoPrase(MessWord(s).rest) = m.info
  BY FirstTextIs, Zenon DEF IsFirst
<1>4. SetHeader(x, name, s) =
        {[x EXCEPT !.tid = MessWord(s).word, !.info = InfoPrase(MessWord(s).rest)]}
  <2>1. x.tid = <<>>
    OBVIOUS
  <2> DEFINE i == HeaderAt(name)
             tid == MessWord(s)
  <2> HIDE DEF x
  <2>2. SetHeader(x, name, s) =
          CASE name = <<"MSRP">> ->
                 IF x.tid # <<>> THEN {}
                   ELSE {[x EXCEPT !.tid = tid.word, !.info = InfoPrase(tid.rest)]}
            [] i # 0 ->
                 IF Already(x, Order[i]) THEN {}
                   ELSE {[x EXCEPT !.head[Order[i]] = ValuePrase(Order[i], s)]}
            [] OTHER -> IF IsEndLine(x, name) THEN {x} ELSE {}
    BY Zenon DEF SetHeader
  <2>3. i = 0
    <3>1. \A j \in 1 .. 14 : NameRead[j] # "MSRP"
      BY Fourteen, ReadAt
    <3> DEFINE Test(n) == <<"MSRP">> = <<n>>
    <3>2. \A j \in 1 .. 14 : ~Test(NameRead[j])
      <4> TAKE j \in 1 .. 14
      <4>1. NameRead[j] # "MSRP"
        BY <3>1
      <4>2. (<<"MSRP">>)[1] = "MSRP" /\ (<<NameRead[j]>>)[1] = NameRead[j]
        OBVIOUS
      <4> QED
        BY <4>1, <4>2
    <3>3. {j \in 1 .. Len(NameRead) : Test(NameRead[j])} = {}
      BY <3>2, Fourteen
    <3>4. i = SelectInSeq(NameRead, Test)
      BY Zenon DEF HeaderAt
    <3> QED
      BY <3>3, <3>4 DEF SelectInSeq, SelectInSubSeq
  <2> HIDE DEF i
  <2> QED
    BY <2>1, <2>2, <2>3
<1>5. [x EXCEPT !.tid = m.tid, !.info = m.info] =
        [tid |-> m.tid, info |-> m.info, head |-> head, contend |-> <<>>, flag |-> flag]
  <2> DEFINE a == m.tid
             b == m.info
             none == <<>>
             r == [tid |-> none, info |-> info, head |-> head, contend |-> none, flag |-> flag]
  <2>1. x = r
    OBVIOUS
  <2> HIDE DEF info, head, a, b, none
  <2>2. [r EXCEPT !.tid = a, !.info = b] =
          [tid |-> a, info |-> b, head |-> head, contend |-> none, flag |-> flag]
    <3> DEFINE u == [tid |-> a, info |-> info, head |-> head, contend |-> none, flag |-> flag]
    <3>1. [r EXCEPT !.tid = a] = u
      OBVIOUS
    <3>2. [u EXCEPT !.info = b] =
            [tid |-> a, info |-> b, head |-> head, contend |-> none, flag |-> flag]
      OBVIOUS
    <3> HIDE DEF r, u
    <3> QED
      BY <3>1, <3>2
  <2> HIDE DEF x, r
  <2> QED
    BY <2>1, <2>2, Zenon DEF a, b, none
<1>6. head = [f \in Fields |-> {}]
  BY OrderOnce, Zenon
<1> HIDE DEF x, name, s, head
<1> QED
  BY <1>1, <1>2, <1>3, <1>4, <1>5, <1>6, Zenon DEF MessStart

\* The text of a message.
MessText(m) == Cat(FirstLine(m), BehindHeaders(m, 0))

\* This is what is written, where there is room.
LEMMA WrittenText ==
  ASSUME NEW m, IsMess(m), NEW size, MessToString(m, size) # <<>>
  PROVE  MessToString(m, size) = MessText(m)
<1> DEFINE c == m.contend
           e == EndText(m.tid, m.flag)
           F == FlattenSeq(HeaderTexts(m))
           t == FirstLine(m) \o (F \o Ending(m))
<1>1. MessToString(m, size) = IF Len(t) <= size THEN t ELSE <<>>
  BY Zenon DEF MessToString, HeaderTexts
<1>2. MessToString(m, size) = t
  BY <1>1
<1>3. Ending(m) = EndOf(m.tid, m.contend, m.flag)
  <2>1. m.tid \in Ids /\ m.contend \in Seq(STRING) /\ m.flag \in Flags
    BY Zenon DEF IsMess
  <2> DEFINE d == <<Dashes>>
             tid == m.tid
             f == <<m.flag>>
             lf == <<LF>>
  <2>2. tid \in Seq(STRING) /\ d \in Seq(STRING) /\ f \in Seq(STRING) /\ lf \in Seq(STRING)
        /\ CRLF \in Seq(STRING)
    <3>1. EndParts(m.tid, m.flag)
      BY <2>1, EndPartsIs
    <3>2. m.flag \in STRING /\ Dashes \in STRING /\ tid \in Seq(STRING)
      BY <3>1, Zenon DEF EndParts
    <3> QED
      BY <3>2, LineEnd, Token, Zenon
  <2>3. Ending(m) = Cat(IF c = <<>> THEN <<>> ELSE Cat(Cat(lf, c), lf),
                        Cat(Cat(Cat(d, tid), f), CRLF))
    BY Zenon DEF Ending, Cat
  <2>4. e = Cat(d, Cat(tid, Cat(f, CRLF)))
    BY Zenon DEF EndText
  <2> HIDE DEF d, tid, f, lf, e
  <2>5. Cat(Cat(Cat(d, tid), f), CRLF) = e
    <3> DEFINE S == STRING
    <3>1. d \in Seq(S) /\ tid \in Seq(S) /\ f \in Seq(S) /\ CRLF \in Seq(S)
      BY <2>2
    <3> HIDE DEF S
    <3>2. Cat(Cat(Cat(d, tid), f), CRLF) = Cat(d, Cat(tid, Cat(f, CRLF)))
      BY <3>1, BracketsFour
    <3> QED
      BY <2>4, <3>2
  <2>6. e \in Seq(STRING)
    <3>1. Cat(f, CRLF) \in Seq(STRING)
      BY <2>2, TextCat, Zenon
    <3>2. Cat(tid, Cat(f, CRLF)) \in Seq(STRING)
      BY <2>2, <3>1, TextCat, Zenon
    <3> QED
      BY <2>2, <2>4, <3>2, TextCat, Zenon
  <2>7. CASE c = <<>>
    <3>1. Ending(m) = Cat(<<>>, e)
      BY <2>3, <2>5, <2>7, Zenon
    <3>2. Cat(<<>>, e) = e
      BY <2>6, TextEmpty, Zenon
    <3> QED
      BY <2>7, <3>1, <3>2, Zenon DEF EndOf, e
  <2>8. CASE c # <<>>
    <3>1. Ending(m) = Cat(Cat(Cat(lf, c), lf), e)
      BY <2>3, <2>5, <2>8, Zenon
    <3>2. Cat(Cat(Cat(lf, c), lf), e) = Cat(lf, Cat(c, Cat(lf, e)))
      <4> DEFINE S == STRING
      <4>1. lf \in Seq(S) /\ c \in Seq(S) /\ e \in Seq(S)
        BY <2>1, <2>2, <2>6
      <4> HIDE DEF S, c
      <4> QED
        BY <4>1, BracketsFour
    <3> QED
      BY <2>8, <3>1, <3>2, Zenon DEF EndOf, e, lf
  <2> QED
    BY <2>7, <2>8
<1>4. BehindHeaders(m, 0) = Cat(F, EndOf(m.tid, m.contend, m.flag))
  BY BehindEnds
<1>5. t = Cat(FirstLine(m), Cat(F, Ending(m)))
  BY Zenon DEF Cat
<1> HIDE DEF t, F, e, c
<1> QED
  BY <1>2, <1>3, <1>4, <1>5, Zenon DEF MessText

\* A text behind the first line: the parser takes the line first.
IsBehindFirst(s, T, m, tail, flag) ==
  /\ Parsed(s, tail, {[NoMess EXCEPT !.flag = flag]}) = Parsed(T, tail, {MessStart(m, flag)})
  /\ Pending(s, tail).contend = Pending(T, tail).contend
  /\ s \in Seq(STRING) /\ Blank(s) = 0

\* It does so.
LEMMA FirstTrip ==
  ASSUME NEW m, IsMess(m), NEW T \in Seq(STRING), NEW s, s = Cat(FirstLine(m), T),
         NEW tail, NEW flag
  PROVE  IsBehindFirst(s, T, m, tail, flag)
<1>1. PICK V : IsFirstLine(m, V)
  BY FirstLineIs
<1> DEFINE c == "MSRP"
           ms == {[NoMess EXCEPT !.flag = flag]}
           l == [name |-> <<c>>, text |-> RmColon(V)]
<1>2. c \in LineNames
  BY FirstName
<1>3. IsBehindName(V) /\ s = Line(c, V, T) /\ RmColon(V) = FirstText(m)
  BY <1>1, Zenon DEF IsFirstLine
<1>4. After(ms, l) = {MessStart(m, flag)}
  <2>1. l = [name |-> <<"MSRP">>, text |-> FirstText(m)]
    BY <1>3
  <2> HIDE DEF l
  <2> QED
    BY <2>1, SetFirst
<1>5. l = [name |-> <<c>>, text |-> RmColon(V)]
  OBVIOUS
<1> HIDE DEF c, ms, l
<1>6. /\ Parsed(s, tail, ms) = Parsed(T, tail, After(ms, l))
      /\ Pending(s, tail).contend = Pending(T, tail).contend
      /\ s \in Seq(STRING) /\ Blank(s) = 0
  BY <1>2, <1>3, <1>5, ParsedLine
<1> QED
  BY <1>4, <1>6, Zenon DEF ms, IsBehindFirst

\* Nothing of the headers has arrived, and nothing is refused.
LEMMA KeptNone ==
  ASSUME NEW m, IsMess(m)
  PROVE  Kept(m, 0) = {MessStart(m, m.flag)}
<1>1. \A f : ~KnownBy(0, f)
  <2>1. \A j : j \notin 1 .. 0
    OBVIOUS
  <2> QED
    BY <2>1, Zenon DEF KnownBy
<1>2. HeadAfter(m, 0) = [f \in Fields |-> {}]
  BY <1>1 DEF HeadAfter
<1>3. ~RefusedBy(m, 0)
  BY DEF RefusedBy
<1> QED
  BY <1>2, <1>3, Zenon DEF Kept, MessAfter, MessStart

\* All of them have arrived.
LEMMA KeptAll ==
  ASSUME NEW m, IsMess(m)
  PROVE  /\ RefusedBy(m, 14) <=> Refused(m)
         /\ HeadAfter(m, 14) = [f \in Fields |-> Arriven(m, f)]
<1>1. \A f \in Fields : KnownBy(14, f)
  BY OrderOnce, Zenon DEF KnownBy
<1>2. HeadAfter(m, 14) = [f \in Fields |-> Arriven(m, f)]
  BY <1>1 DEF HeadAfter
<1>3. (\E j \in 1 .. 14 : Order[j] \in Expiries /\ m.head[Order[j]] # {})
        <=> \E f \in Expiries : m.head[f] # {}
  <2>1. \A f \in Expiries : \E j \in 1 .. 14 : Order[j] = f
    <3>1. Expiries \subseteq Fields
      BY DEF Expiries, Fields
    <3> QED
      BY <3>1, OrderOnce, Zenon
  <2> QED
    BY <2>1, Zenon
<1>4. 14 >= 13
  OBVIOUS
<1> QED
  BY <1>2, <1>3, <1>4, Zenon DEF RefusedBy, Refused

\* What the parser makes of a text, once its end is found.
IsPrase(t, tail, flag) ==
  MessPraseFromBuff(t) =
    {[x EXCEPT !.contend = Pending(t, tail).contend] :
       x \in Parsed(t, tail, {[NoMess EXCEPT !.flag = flag]})}

\* It is found in a text that ends with an end line.
LEMMA PraseIs ==
  ASSUME NEW tid \in Ids, NEW flag \in Flags, NEW Y \in Seq(STRING),
         NEW t, t = Cat(Y, EndText(tid, flag)), Blank(t) = 0, NEW tail, tail = Len(tid) + 5
  PROVE  IsPrase(t, tail, flag)
<1> DEFINE end == CheckEnd2(t)
           n == Len(t) - end.vt + 2
           lines(k) == Lines(t, k)
           R(k, f) == {[x EXCEPT !.contend = lines(k).contend] :
                         x \in SetHeaders({[NoMess EXCEPT !.flag = f]}, lines(k).all)}
<1>1. end.flag = flag /\ end.vt # 0 /\ n = tail
  BY EndIsFound DEF EndFound
<1>2. MessPraseFromBuff(t) = IF end.vt = 0 THEN {} ELSE R(n, end.flag)
  BY Zenon DEF MessPraseFromBuff
<1>3. Pending(t, tail) = lines(tail)
  BY Zenon DEF Pending
<1>4. R(tail, flag) =
           {[x EXCEPT !.contend = Pending(t, tail).contend] :
              x \in Parsed(t, tail, {[NoMess EXCEPT !.flag = flag]})}
  <2> DEFINE ms == {[NoMess EXCEPT !.flag = flag]}
             With(c, u) == {[x EXCEPT !.contend = c] : x \in u}
  <2> HIDE DEF lines
  <2>1. Parsed(t, tail, ms) = SetHeaders(ms, lines(tail).all)
    BY <1>3, Zenon DEF Parsed
  <2>2. R(tail, flag) = With(lines(tail).contend, SetHeaders(ms, lines(tail).all))
    BY Zenon
  <2>3. With(lines(tail).contend, SetHeaders(ms, lines(tail).all))
          = With(Pending(t, tail).contend, Parsed(t, tail, ms))
    <3> HIDE DEF With, ms
    <3> QED
      BY <1>3, <2>1, Zenon
  <2> QED
    BY <2>2, <2>3, Zenon
<1> HIDE DEF R, n, end
<1> QED
  BY <1>1, <1>2, <1>4, Zenon DEF IsPrase

\* What arrives of a message.
Arrival(m) == [m EXCEPT !.head = [f \in DOMAIN @ |-> {Arrives(f, v) : v \in @[f]}]]

\* It has arrived when all of the headers have, with the contents.
LEMMA ArrivalIs ==
  ASSUME NEW m, IsMess(m)
  PROVE  [MessAfter(m, 14) EXCEPT !.contend = m.contend] = Arrival(m)
<1> DEFINE H == HeadAfter(m, 14)
           G == [f \in DOMAIN m.head |-> {Arrives(f, v) : v \in m.head[f]}]
           a == m.tid
           b == m.info
           c == m.head
           d == m.contend
           e == m.flag
           none == <<>>
           r == [tid |-> a, info |-> b, head |-> c, contend |-> d, flag |-> e]
           x == [tid |-> a, info |-> b, head |-> H, contend |-> none, flag |-> e]
           y == [tid |-> a, info |-> b, head |-> H, contend |-> d, flag |-> e]
<1>1. m = r
  BY Zenon DEF IsMess
<1>2. G = H
  <2>1. DOMAIN m.head = Fields
    BY DEF IsMess
  <2>2. H = [f \in Fields |-> Arriven(m, f)]
    BY KeptAll
  <2> QED
    BY <2>1, <2>2, Zenon DEF Arriven
<1>3. Arrival(m) = [m EXCEPT !.head = G]
  BY Zenon DEF Arrival
<1>4. MessAfter(m, 14) = x
  BY Zenon DEF MessAfter
<1> HIDE DEF H, G, a, b, c, d, e, none
<1>5. [r EXCEPT !.head = H] = y
  OBVIOUS
<1>6. [x EXCEPT !.contend = d] = y
  OBVIOUS
<1>7. m.contend = d
  BY DEF d
<1> HIDE DEF r, x, y
<1>8. Arrival(m) = y
  BY <1>1, <1>2, <1>3, <1>5, Zenon
<1>9. [MessAfter(m, 14) EXCEPT !.contend = m.contend] = y
  BY <1>4, <1>6, <1>7, Zenon
<1> QED
  BY <1>8, <1>9

\* A text in front of the headers of a message ends with the end line.
LEMMA BehindText ==
  ASSUME NEW m, IsMess(m), NEW p \in Seq(STRING)
  PROVE  /\ Cat(p, BehindHeaders(m, 0)) \in Seq(STRING)
         /\ \E Y \in Seq(STRING) : Cat(p, BehindHeaders(m, 0)) = Cat(Y, EndText(m.tid, m.flag))
<1> DEFINE T == BehindHeaders(m, 0)
           e == EndText(m.tid, m.flag)
           tail == Len(m.tid) + 5
<1>1. T \in Seq(STRING) /\ \E Y \in Seq(STRING) : T = Cat(Y, e)
  <2>1. tail = Len(m.tid) + 5
    OBVIOUS
  <2> HIDE DEF tail
  <2> QED
    BY <2>1, HeadersTrip
<1>2. e \in Seq(STRING)
  <2>1. m.tid \in Ids /\ m.flag \in Flags
    BY Zenon DEF IsMess
  <2> DEFINE tid == m.tid
             flag == m.flag
  <2> HIDE DEF tid, flag
  <2>2. EndText(tid, flag) = Cat(EndWord(tid, flag), CRLF)
        /\ IsEndWord(EndWord(tid, flag), tid, flag)
    BY <2>1, EndWordIs DEF tid, flag
  <2>3. EndWord(tid, flag) \in Seq(STRING)
    BY <2>2, Zenon DEF IsEndWord
  <2> QED
    BY <2>2, <2>3, LineEnd, TextCat, Zenon DEF tid, flag
<1> HIDE DEF T, e
<1>3. PICK Y \in Seq(STRING) : T = Cat(Y, e)
  BY <1>1
<1> DEFINE Z == Cat(p, Y)
<1>4. Z \in Seq(STRING) /\ Cat(p, T) \in Seq(STRING)
  BY <1>1, TextCat, Zenon
<1>5. Cat(Z, e) = Cat(p, Cat(Y, e))
  BY <1>2, TextAssoc, Zenon
<1> HIDE DEF Z
<1> QED
  BY <1>3, <1>4, <1>5, Zenon DEF T, e

\* The first line is a text.
LEMMA FirstLineText ==
  ASSUME NEW m, IsMess(m)
  PROVE  FirstLine(m) \in Seq(STRING)
BY FirstLineIs, Zenon DEF IsFirstLine

\* lmsrp_mess_prase_from_buff makes of the text of a message what Arrival says of it, or
\* refuses it when Refused says so.
THEOREM MessageTrip ==
  ASSUME NEW m, IsMess(m)
  PROVE  MessPraseFromBuff(MessText(m)) = IF Refused(m) THEN {} ELSE {Arrival(m)}
<1> DEFINE F == FirstLine(m)
           T == BehindHeaders(m, 0)
           t == MessText(m)
           tid == m.tid
           flag == m.flag
           tail == Len(m.tid) + 5
           ms == {[NoMess EXCEPT !.flag = flag]}
           K == Kept(m, 14)
<1>1. tid \in Ids /\ flag \in Flags
  BY Zenon DEF IsMess
<1>2. F \in Seq(STRING)
  BY FirstLineText
<1>3. t = Cat(F, T)
  BY Zenon DEF MessText
<1>4. \E Y \in Seq(STRING) : t = Cat(Y, EndText(tid, flag))
  BY <1>2, <1>3, BehindText, Zenon
<1>5. /\ Parsed(T, tail, Kept(m, 0)) = K /\ Pending(T, tail).contend = m.contend
      /\ T \in Seq(STRING)
  <2>1. tail = Len(m.tid) + 5
    OBVIOUS
  <2> HIDE DEF tail
  <2> QED
    BY <2>1, HeadersTrip
<1>6. /\ Parsed(t, tail, ms) = Parsed(T, tail, {MessStart(m, flag)})
      /\ Pending(t, tail).contend = Pending(T, tail).contend
      /\ t \in Seq(STRING) /\ Blank(t) = 0
  <2> HIDE DEF t, tail, flag, T
  <2>1. t = Cat(FirstLine(m), T)
    BY <1>3
  <2>2. T \in Seq(STRING)
    BY <1>5
  <2>3. IsBehindFirst(t, T, m, tail, flag)
    BY <2>1, <2>2, FirstTrip
  <2> QED
    BY <2>3, Zenon DEF IsBehindFirst
<1>7. Parsed(t, tail, ms) = K
  <2>1. Kept(m, 0) = {MessStart(m, flag)}
    BY KeptNone
  <2> QED
    BY <1>5, <1>6, <2>1, Zenon
<1>8. PICK Y \in Seq(STRING) : t = Cat(Y, EndText(tid, flag))
  BY <1>4
<1>9. MessPraseFromBuff(t) =
        {[x EXCEPT !.contend = Pending(t, tail).contend] : x \in Parsed(t, tail, ms)}
  <2>1. tail = Len(tid) + 5
    OBVIOUS
  <2>2. Blank(t) = 0
    BY <1>6
  <2> HIDE DEF t, tail, flag, tid, ms
  <2>3. IsPrase(t, tail, flag)
    BY <1>1, <1>8, <2>1, <2>2, PraseIs
  <2> QED
    BY <2>3, Zenon DEF IsPrase, ms
<1> DEFINE c == m.contend
           With(x) == [x EXCEPT !.contend = c]
<1>10. Pending(t, tail).contend = c
  BY <1>5, <1>6, Zenon
<1>11. MessPraseFromBuff(t) = {With(x) : x \in K}
  BY <1>7, <1>9, <1>10, Zenon
<1>12. CASE Refused(m)
  <2>1. K = {}
    BY <1>12, KeptAll, Zenon DEF Kept
  <2> HIDE DEF With, K
  <2>2. {With(x) : x \in K} = {}
    BY <2>1
  <2> QED
    BY <1>11, <1>12, <2>2, Zenon
<1>13. CASE ~Refused(m)
  <2> DEFINE y == MessAfter(m, 14)
  <2>1. K = {y}
    BY <1>13, KeptAll, Zenon DEF Kept
  <2>2. With(y) = Arrival(m)
    BY ArrivalIs
  <2> HIDE DEF With, K, y
  <2>3. {With(x) : x \in K} = {With(y)}
    BY <2>1
  <2> QED
    BY <1>11, <1>13, <2>2, <2>3, Zenon
<1> QED
  BY <1>12, <1>13

-----------------------------------------------------------------------------
(* A header that stands in a text twice.                                   *)

\* Messages that have a header already.
Full(ms, i) == \A x \in ms : IsRead(x) /\ x.head[Order[i]] # {}

\* The messages after a line are those that become of each of them.
LEMMA AfterEach ==
  ASSUME NEW ms, NEW l, NEW y \in After(ms, l)
  PROVE  \E x \in ms : y \in After({x}, l)
<1>1. PICK x \in ms : y \in SetHeader(x, l.name, l.text)
  BY DEF After
<1>2. y \in After({x}, l)
  <2> DEFINE A(u) == SetHeader(u, l.name, l.text)
  <2>1. After({x}, l) = UNION {A(u) : u \in {x}}
    BY DEF After
  <2>2. y \in A(x)
    BY <1>1
  <2> HIDE DEF A
  <2> QED
    BY <2>1, <2>2
<1> QED
  BY <1>2

\* One more line leaves them what they have; the line of that header leaves none.
LEMMA FullStep ==
  ASSUME NEW m, IsMess(m), NEW i \in 1 .. 14, Order[i] # "auth", m.head[Order[i]] # {},
         NEW j \in 1 .. 14, NEW ms, Full(ms, i)
  PROVE  Full(AfterHeader(ms, m, j), i) /\ (j = i => AfterHeader(ms, m, j) = {})
<1>1. CASE m.head[Order[j]] = {}
  <2>1. j # i
    BY <1>1
  <2>2. AfterHeader(ms, m, j) = ms
    BY <1>1, AfterHeaderIs
  <2> QED
    BY <2>1, <2>2
<1>2. ASSUME NEW v \in HeaderValues(Order[j]), m.head[Order[j]] = {v}
      PROVE  Full(AfterHeader(ms, m, j), i) /\ (j = i => AfterHeader(ms, m, j) = {})
  <2> DEFINE l == HeaderLine(j, v)
             f == Order[i]
             g == Order[j]
  <2>1. AfterHeader(ms, m, j) = After(ms, l)
    <3>1. \A u : m.head[Order[j]] = {u} => AfterHeader(ms, m, j) = After(ms, HeaderLine(j, u))
      BY AfterHeaderIs
    <3> QED
      BY <1>2, <3>1, Zenon
  <2>2. f \in Fields /\ g \in Fields
    BY OrderOnce, Zenon
  <2>3. ASSUME NEW y \in After(ms, l) PROVE IsRead(y) /\ y.head[f] # {} /\ j # i
    <3>1. PICK x \in ms : y \in After({x}, l)
      BY AfterEach
    <3>2. IsRead(x) /\ x.head[f] # {}
      BY Zenon DEF Full
    <3>3. IsSet(x, j, v, After({x}, l))
      <4>1. Len(x.tid) \in Nat
        BY <3>2, Zenon DEF IsRead
      <4> QED
        BY <4>1, SetStep
    <3>4. y = WithHead(x, g, v) /\ ~Already(x, g)
      <4>1. After({x}, l) = {WithHead(x, g, v)} /\ ~Already(x, g)
        <5> HIDE DEF l, f, g
        <5>1. /\ g \in Expiries => After({x}, l) = {}
              /\ g \notin Expiries /\ Already(x, g) => After({x}, l) = {}
              /\ g \notin Expiries /\ ~Already(x, g) => After({x}, l) = {WithHead(x, g, v)}
          BY <3>3, Zenon DEF IsSet, g
        <5> QED
          BY <3>1, <5>1
      <4> HIDE DEF l, f, g
      <4> QED
        BY <3>1, <4>1
    <3>5. j # i
      BY <3>2, <3>4 DEF Already
    <3>6. g # f
      BY <3>5, OrderOnce, Zenon
    <3>7. IsWithHead(y, x, g, v)
      <4> HIDE DEF g, f, l
      <4> QED
        BY <2>2, <3>2, <3>4, WithHeadIs
    <3>8. y.head = [e \in Fields |-> IF e = g THEN {Arrives(g, v)} ELSE x.head[e]]
      BY <3>7, Zenon DEF IsWithHead
    <3>9. y.head[f] = x.head[f]
      <4> HIDE DEF g, f, l
      <4> QED
        BY <2>2, <3>6, <3>8
    <3>10. IsRead(y)
      BY <3>7, Zenon DEF IsWithHead
    <3> QED
      BY <3>2, <3>5, <3>9, <3>10, Zenon
  <2> HIDE DEF l
  <2>4. j = i => After(ms, l) = {}
    BY <2>3
  <2> QED
    BY <2>1, <2>3, <2>4, Zenon DEF Full, f
<1> QED
  BY <1>1, <1>2, HeadIs, Zenon

\* Behind a header the same header once more is refused.
LEMMA FullTrip ==
  ASSUME NEW m, IsMess(m), NEW i \in 1 .. 14, Order[i] # "auth", m.head[Order[i]] # {},
         NEW tail, NEW ms, Full(ms, i)
  PROVE  Parsed(BehindHeaders(m, 0), tail, ms) = {}
<1> DEFINE P(k, us) == Parsed(BehindHeaders(m, k), tail, us)
           T == {k \in 0 .. 14 : \A us : Full(us, i) /\ k < i => P(k, us) = {}}
<1>1. 14 \in T
  <2>1. 14 \in 0 .. 14 /\ ~(14 < i)
    OBVIOUS
  <2> HIDE DEF P
  <2> QED
    BY <2>1
<1>2. ASSUME NEW h \in 0 .. 14, NEW j \in 1 .. 14, j = h + 1, j \in T PROVE h \in T
  <2>1. ASSUME NEW us, Full(us, i), h < i PROVE P(h, us) = {}
    <3> DEFINE s == BehindHeaders(m, h)
               t == BehindHeaders(m, j)
               vs == AfterHeader(us, m, j)
    <3>1. t \in Seq(STRING) /\ s = Cat(HeaderLines(m, j), t)
      BY <1>2, BehindStep
    <3>2. IsHeaderText(m, j, t)
      <4> HIDE DEF t
      <4> QED
        BY <3>1, HeaderText
    <3>3. Parsed(s, tail, us) = Parsed(t, tail, vs)
      BY <3>1, <3>2, Zenon DEF IsHeaderText
    <3>4. Full(vs, i) /\ (j = i => vs = {})
      BY <2>1, FullStep
    <3>5. P(j, vs) = {}
      <4>1. CASE j = i
        <5>1. vs = {}
          BY <3>4, <4>1
        <5> HIDE DEF t, vs
        <5>2. Parsed(t, tail, vs) = {}
          BY <3>1, <5>1, ParsedNone
        <5> QED
          BY <5>2 DEF t
      <4>2. CASE j # i
        <5>1. j < i
          BY <1>2, <2>1, <4>2
        <5>2. \A ws : Full(ws, i) /\ j < i => P(j, ws) = {}
          <6> HIDE DEF P
          <6> QED
            BY <1>2
        <5> HIDE DEF P, vs
        <5> QED
          BY <3>4, <5>1, <5>2, Zenon
      <4> QED
        BY <4>1, <4>2
    <3> QED
      BY <3>3, <3>5, Zenon
  <2> HIDE DEF P
  <2> QED
    BY <2>1
<1>3. 0 \in T
  <2> HIDE DEF T
  <2>1. 14 \in Nat /\ 0 \in 0 .. 14
    OBVIOUS
  <2>2. \A k \in 0 .. 14 : k \in T
    BY <1>1, <1>2, <2>1, Downwards
  <2> QED
    BY <2>1, <2>2, Zenon
<1>4. 0 < i
  OBVIOUS
<1> HIDE DEF P
<1>5. P(0, ms) = {}
  BY <1>3, <1>4
<1> QED
  BY <1>5 DEF P

\* What is behind the first line of a text.
LEMMA FirstLineEnd ==
  ASSUME NEW m, IsMess(m), NEW T \in Seq(STRING), NEW s, s = Cat(FirstLine(m), T)
  PROVE  /\ SubSeq(s, 1, FirstIn(s, {LF})) = FirstLine(m)
         /\ SubSeq(s, FirstIn(s, {LF}) + 1, Len(s)) = T
<1> DEFINE F == FirstLine(m)
           n == Len(F)
<1>1. PICK V : IsFirstLine(m, V)
  BY FirstLineIs
<1>2. V \in Seq(Tokens) /\ F \in Seq(STRING)
  BY <1>1, Zenon DEF IsFirstLine, IsBehindName
<1> DEFINE S == STRING \ {LF}
           c == <<"MSRP">>
           r == <<CR>>
           lf == <<LF>>
           p == Cat(c, Cat(V, r))
<1>3. c \in Seq(S) /\ r \in Seq(S) /\ V \in Seq(S) /\ lf \in Seq(STRING) /\ lf # <<>> /\ lf[1] = LF
  <2>1. "MSRP" \in S /\ CR \in S
    BY FirstName, LineEnd DEF LineNames, Tokens
  <2>2. c \in Seq(S) /\ r \in Seq(S)
    <3> HIDE DEF S
    <3> QED
      BY <2>1, OneElement
  <2>3. V \in Seq(S)
    <3>1. \A j \in 1 .. Len(V) : V[j] \in S
      BY <1>2, LineWord
    <3>2. V \in Seq(Tokens)
      BY <1>2
    <3> HIDE DEF S
    <3> QED
      BY <3>1, <3>2, SeqNarrow
  <2>4. lf \in Seq(STRING) /\ lf # <<>> /\ lf[1] = LF
    BY LineEnd, Token, Zenon
  <2> QED
    BY <2>2, <2>3, <2>4
<1>4. p \in Seq(S)
  <2>1. \A u, v \in Seq(S) : Cat(u, v) \in Seq(S)
    <3> HIDE DEF S
    <3> QED
      BY CatLemma
  <2> HIDE DEF S, c, r
  <2> QED
    BY <1>3, <2>1
<1>5. p \in Seq(STRING) /\ \A j \in 1 .. Len(p) : p[j] \notin {LF}
  <2> DEFINE q == p
  <2>1. q \in Seq(S)
    BY <1>4
  <2> HIDE DEF q
  <2>2. \A j \in 1 .. Len(q) : q[j] \in S
    <3> HIDE DEF S
    <3> QED
      BY <2>1
  <2>3. \A j \in 1 .. Len(q) : q[j] \in STRING
    BY <2>2
  <2>4. q \in Seq(STRING)
    <3> HIDE DEF S
    <3> QED
      BY <2>1, <2>3, SeqNarrow
  <2>5. \A j \in 1 .. Len(q) : q[j] \notin {LF}
    BY <2>2
  <2> QED
    BY <2>4, <2>5 DEF q
<1>6. F = Cat(p, lf) /\ Cat(F, T) = Cat(p, Cat(lf, T))
  <2>1. V \in Seq(STRING) /\ r \in Seq(STRING) /\ c \in Seq(STRING) /\ CRLF \in Seq(STRING)
    BY <1>2, LinesAreTexts, LineEnd, FirstName, Token, Zenon
  <2>2. <<>> \in Seq(STRING)
    OBVIOUS
  <2>3. Cat(F, <<>>) = Line("MSRP", V, <<>>)
    BY <1>1, <2>2, Zenon DEF IsFirstLine
  <2>4. Cat(F, <<>>) = F
    BY <1>2, TextEmpty, Zenon
  <2>5. Cat(CRLF, <<>>) = CRLF
    BY <2>1, TextEmpty, Zenon
  <2>6. F = Cat(c, Cat(V, CRLF))
    BY <2>3, <2>4, <2>5, Zenon DEF Line
  <2>7. CRLF = Cat(r, lf)
    BY LineEnd
  <2>8. Cat(c, Cat(V, Cat(r, lf))) = Cat(p, lf)
    <3> HIDE DEF c, r, lf
    <3>1. Cat(V, r) \in Seq(STRING)
      BY <2>1, TextCat, Zenon
    <3>2. V \in Seq(STRING) /\ r \in Seq(STRING) /\ c \in Seq(STRING) /\ lf \in Seq(STRING)
      BY <2>1, <1>3, Zenon
    <3>3. Cat(Cat(V, r), lf) = Cat(V, Cat(r, lf))
      BY <3>2, ThreeTexts
    <3>4. Cat(Cat(c, Cat(V, r)), lf) = Cat(c, Cat(Cat(V, r), lf))
      <4> DEFINE x == Cat(V, r)
      <4>1. x \in Seq(STRING)
        BY <3>1, Zenon
      <4> HIDE DEF x
      <4>2. Cat(Cat(c, x), lf) = Cat(c, Cat(x, lf))
        BY <3>2, <4>1, ThreeTexts
      <4> QED
        BY <4>2, Zenon DEF x
    <3> QED
      BY <3>3, <3>4, Zenon
  <2>9. F = Cat(p, lf)
    BY <2>6, <2>7, <2>8, Zenon
  <2> HIDE DEF p, lf, F
  <2>10. Cat(Cat(p, lf), T) = Cat(p, Cat(lf, T))
    BY <1>3, <1>5, TextAssoc, Zenon
  <2> QED
    BY <2>9, <2>10, Zenon
<1>7. FirstIn(s, {LF}) = n
  <2> DEFINE C == {LF}
             x == Cat(lf, T)
  <2>1. x \in Seq(STRING) /\ x # <<>> /\ x[1] = LF
    <3> HIDE DEF lf
    <3> QED
      BY <1>3 DEF Cat
  <2>2. x[1] \in C
    BY <2>1
  <2>3. \A j \in 1 .. Len(p) : p[j] \notin C
    BY <1>5
  <2>4. Len(lf) = 1
    OBVIOUS
  <2> HIDE DEF p, C, x, lf, F
  <2>5. FirstIn(Cat(p, x), C) = Len(p) + 1
    BY <1>5, <2>1, <2>2, <2>3, FirstInIs
  <2>6. Len(F) = Len(p) + 1
    <3>1. Len(p \o lf) = Len(p) + Len(lf)
      BY <1>3, <1>5
    <3> QED
      BY <1>6, <2>4, <3>1 DEF Cat
  <2> QED
    BY <1>6, <2>5, <2>6, Zenon DEF C, x, F
<1> HIDE DEF F
<1>8. IsTwo(s, STRING, F, T, n)
  <2>1. s = Cat(F, T)
    BY DEF F
  <2> QED
    BY <1>2, <2>1, TwoParts
<1>9. Part(s, 0, n) = F /\ Part(s, n, Len(s)) = T
  BY <1>8, Zenon DEF IsTwo
<1>10. SubSeq(s, 1, n) = F /\ SubSeq(s, n + 1, Len(s)) = T
  <2>1. 0 + 1 = 1
    OBVIOUS
  <2> QED
    BY <1>9, <2>1, Zenon DEF Part
<1> QED
  BY <1>7, <1>10, Zenon DEF F

\* The text of a message with a header twice.
TwiceText(m, i) == Cat(FirstLine(m), Cat(HeaderLines(m, i), BehindHeaders(m, 0)))

\* A message that has a header twice is refused, whichever header it is but Authorization.
THEOREM TwiceTrip ==
  ASSUME NEW m, IsMess(m), NEW i \in 1 .. 14, Order[i] # "auth", m.head[Order[i]] # {}
  PROVE  MessPraseFromBuff(TwiceText(m, i)) = {}
<1> DEFINE F == FirstLine(m)
           T == BehindHeaders(m, 0)
           L == HeaderLines(m, i)
           U == Cat(L, T)
           t == TwiceText(m, i)
           tid == m.tid
           flag == m.flag
           tail == Len(m.tid) + 5
           ms == {[NoMess EXCEPT !.flag = flag]}
           x == MessStart(m, flag)
<1>1. tid \in Ids /\ flag \in Flags
  BY Zenon DEF IsMess
<1>2. F \in Seq(STRING)
  BY FirstLineText
<1>3. T \in Seq(STRING)
  <2>1. tail = Len(m.tid) + 5
    OBVIOUS
  <2> HIDE DEF tail
  <2> QED
    BY <2>1, HeadersTrip
<1>4. IsHeaderText(m, i, T)
  <2> HIDE DEF T
  <2> QED
    BY <1>3, HeaderText
<1>5. L \in Seq(STRING) /\ U \in Seq(STRING)
      /\ Parsed(U, tail, {x}) = Parsed(T, tail, AfterHeader({x}, m, i))
  BY <1>4, Zenon DEF IsHeaderText
<1>6. t = Cat(F, U)
  BY Zenon DEF TwiceText
<1>7. \E Y \in Seq(STRING) : t = Cat(Y, EndText(tid, flag))
  <2> DEFINE p == Cat(F, L)
  <2> HIDE DEF F, L, T
  <2>1. p \in Seq(STRING)
    BY <1>2, <1>5, TextCat, Zenon
  <2>2. Cat(p, T) = Cat(F, Cat(L, T))
    BY <1>2, <1>3, <1>5, TextAssoc, Zenon
  <2> HIDE DEF p
  <2>3. \E Y \in Seq(STRING) : Cat(p, T) = Cat(Y, EndText(tid, flag))
    BY <2>1, BehindText, Zenon DEF T
  <2> QED
    BY <1>6, <2>2, <2>3, Zenon
<1>8. PICK Y \in Seq(STRING) : t = Cat(Y, EndText(tid, flag))
  BY <1>7
<1>9. IsBehindFirst(t, U, m, tail, flag)
  <2>1. t = Cat(FirstLine(m), U) /\ U \in Seq(STRING)
    BY <1>5, <1>6
  <2> HIDE DEF t, tail, flag, U
  <2> QED
    BY <2>1, FirstTrip
<1>10. IsPrase(t, tail, flag)
  <2>1. tail = Len(tid) + 5
    OBVIOUS
  <2>2. Blank(t) = 0
    BY <1>9, Zenon DEF IsBehindFirst
  <2> HIDE DEF t, tail, flag, tid
  <2> QED
    BY <1>1, <1>8, <2>1, <2>2, PraseIs
<1>11. Full(AfterHeader({x}, m, i), i)
  <2>1. IsRead(x)
    <3>1. Kept(m, 0) = {x}
      BY KeptNone
    <3>2. Kept(m, 0) = {MessAfter(m, 0)}
      <4>1. {x} # {}
        OBVIOUS
      <4> QED
        BY <3>1, <4>1, Zenon DEF Kept
    <3>3. x = MessAfter(m, 0)
      <4> HIDE DEF x
      <4> QED
        BY <3>1, <3>2
    <3> QED
      BY <3>3, MessAfterIs
  <2>2. PICK v \in HeaderValues(Order[i]) : m.head[Order[i]] = {v}
    BY HeadIs, Zenon
  <2> DEFINE l == HeaderLine(i, v)
             f == Order[i]
  <2>3. AfterHeader({x}, m, i) = After({x}, l)
    <3> DEFINE K == {x}
    <3> HIDE DEF K
    <3>1. \A u : m.head[Order[i]] = {u} => AfterHeader(K, m, i) = After(K, HeaderLine(i, u))
      BY AfterHeaderIs
    <3>2. AfterHeader(K, m, i) = After(K, l)
      BY <2>2, <3>1, Zenon
    <3> QED
      BY <3>2 DEF K
  <2>4. IsSet(x, i, v, After({x}, l))
    <3>1. Len(x.tid) \in Nat
      BY <2>1, Zenon DEF IsRead
    <3> HIDE DEF x
    <3> QED
      BY <3>1, SetStep
  <2>5. After({x}, l) = {} \/ After({x}, l) = {WithHead(x, f, v)}
    BY <2>4, Zenon DEF IsSet
  <2>6. f \in Fields
    BY OrderOnce, Zenon
  <2>7. IsWithHead(WithHead(x, f, v), x, f, v)
    <3> HIDE DEF x, f
    <3> QED
      BY <2>1, <2>6, WithHeadIs
  <2> DEFINE y == WithHead(x, f, v)
  <2>8. IsRead(y) /\ y.head = [e \in Fields |-> IF e = f THEN {Arrives(f, v)} ELSE x.head[e]]
    BY <2>7, Zenon DEF IsWithHead
  <2> HIDE DEF y, x, f
  <2>9. y.head[f] # {}
    BY <2>6, <2>8
  <2>10. \A u \in After({x}, l) : IsRead(u) /\ u.head[f] # {}
    <3> HIDE DEF l
    <3> QED
      BY <2>5, <2>8, <2>9 DEF y
  <2> QED
    BY <2>3, <2>10, Zenon DEF Full, f
<1> DEFINE us == AfterHeader({x}, m, i)
<1>12. Parsed(T, tail, us) = {}
  <2> HIDE DEF us, tail
  <2> QED
    BY <1>11, FullTrip DEF us
<1>13. Parsed(t, tail, ms) = {}
  BY <1>5, <1>9, <1>12, Zenon DEF IsBehindFirst
<1> DEFINE With(u) == [u EXCEPT !.contend = Pending(t, tail).contend]
<1>14. MessPraseFromBuff(t) = {With(u) : u \in {}}
  BY <1>10, <1>13, Zenon DEF IsPrase
<1> HIDE DEF With
<1>15. {With(u) : u \in {}} = {}
  OBVIOUS
<1> QED
  BY <1>14, <1>15

=============================================================================
